----------------------------- MODULE StartProofs -----------------------------
(***************************************************************************)
(* The settings folder of an older version: neither the move of the folder *)
(* nor its migration to the current schema loses a pairing, for every      *)
(* number of devices, of writes of the old program and of failures.        *)
(***************************************************************************)
EXTENDS FolderMove, Migration, TLAPS

(***************************************************************************)
(* The inductive invariant                                                 *)
(***************************************************************************)

Moving  == {"look", "rename", "copy", "delete", "merge", "open", "fill"}
Merging == {"merge", "open", "fill"}

Places  == Moving \cup {"off", "check", "mkdir", "run", "replace", "service", "up"}

Value  == 0 .. MaxWrites + 1
NewFolder == [there : BOOLEAN, has : [File -> NewOne .. MaxWrites + 1]]
Programs ==
    [at : Places,
     todo : SUBSET File, tmp : [File -> Value], file : File, content : Value,
     again : BOOLEAN]

FolderTypes ==
    /\ oldApp \in BOOLEAN /\ ownMutex \in BOOLEAN /\ under \in BOOLEAN /\ torn \in BOOLEAN
    /\ old \in [there : BOOLEAN, has : [File -> Value]] /\ new \in NewFolder
    /\ proc \in [Process -> Programs]
    /\ newest \in [File -> Value] /\ trouble \in Nat
    /\ \A f \in File : old.has[f] # Absent => old.there

\* The core takes its mutex once it has made the folder, and looks again.
CoreInv ==
    /\ ownMutex => proc["core"].at # "off"
    /\ proc["ui"].again = FALSE
    /\ proc["core"].again =>
         ownMutex /\ proc["core"].at \in {"check", "look", "delete", "mkdir", "service", "up"} \cup Merging
    /\ proc["core"].at = "replace" => ownMutex
    /\ proc["core"].at \in {"service", "up"} => proc["core"].again
    /\ \A p \in Process : proc[p].at \in Merging \cup {"delete", "run", "replace", "service", "up"}
                             \/ proc[p].again => new.there

\* While the old program runs the files are its own, and stay where they are.
OldInv ==
    oldApp =>
      /\ \A p \in Process : proc[p].at \notin Moving
      /\ proc["core"].again => proc["core"].at = "check"
      /\ old.there
      /\ \A f \in File : old.has[f] = newest[f] /\ new.has[f] = Absent

\* All that is to be kept is in the new folder.
AllNew == \A f \in File : newest[f] # Absent => new.has[f] # Absent

\* What the folders hold
FilesInv ==
    /\ \A f \in File : /\ old.has[f] \in {newest[f], Absent}
                       /\ new.has[f] \in {newest[f], Absent, Part, NewOne}
    /\ ~new.there => \A f \in File : new.has[f] = Absent /\ old.has[f] = newest[f]
    /\ (\E f \in File : old.has[f] # newest[f]) => AllNew
    /\ \A f \in File : new.has[f] = Part =>
          \E p \in Process : proc[p].at = "fill" /\ proc[p].file = f
    /\ new.has["keys"] # NewOne
    /\ new.has["settings"] = NewOne /\ newest["settings"] # Absent => trouble > 0

\* What each process has done of its copy, its merge or its delete
Doing(p) ==
    /\ proc[p].at = "delete" => AllNew
    /\ proc[p].at = "copy" =>
         \A f \in File : /\ proc[p].tmp[f] \in {newest[f], Absent}
                         /\ ~new.there /\ newest[f] # Absent =>
                               f \in proc[p].todo \/ proc[p].tmp[f] = newest[f]
    /\ proc[p].at = "fill" => /\ proc[p].content = newest[proc[p].file]
                              /\ new.has[proc[p].file] # Absent
    /\ proc[p].at \in {"open", "fill"} =>
         /\ newest[proc[p].file] # Absent
         /\ proc[p].file = "settings" => proc[p].todo = {}
    /\ proc[p].at \in Merging =>
         /\ proc[p].todo \subseteq {"keys"}
         /\ \A f \in proc[p].todo : newest[f] # Absent
         /\ newest["keys"] # Absent =>
               \/ "keys" \in proc[p].todo \/ new.has["keys"] # Absent
               \/ proc[p].at = "open" /\ proc[p].file = "keys"

\* The core saves settings of its own only where a step failed.
ProcessInv ==
    /\ \A p \in Process : Doing(p)
    /\ trouble = 0 /\ proc["core"].again /\ proc["core"].at \in {"mkdir", "service"}
         /\ newest["settings"] # Absent => new.has["settings"] # Absent

FolderInv == FolderTypes /\ CoreInv /\ (~under /\ ~torn => OldInv /\ FilesInv /\ ProcessInv)

(***************************************************************************)
(* Steps of one process                                                    *)
(***************************************************************************)

\* What ToStep does to the programs: one moves on, the other stays.
LEMMA StepFacts ==
    ASSUME FolderTypes, NEW p \in Process, NEW to \in Places, ToStep(p, to)
    PROVE  /\ proc' \in [Process -> Programs]
           /\ \A r \in Process : r # p => proc'[r] = proc[r]
           /\ proc'[p].at = to /\ proc'[p].todo = proc[p].todo /\ proc'[p].tmp = proc[p].tmp
           /\ proc'[p].file = proc[p].file /\ proc'[p].content = proc[p].content
           /\ proc'[p].again = proc[p].again
BY DEF FolderTypes, Programs, ToStep

\* A program that was not started
LEMMA IdleTyped == Idle \in Programs
<1>1. Absent \in Value /\ "off" \in Places /\ NoFiles \in [File -> Value]
    BY FolderBounds DEF Absent, Value, Places, NoFiles
<1> QED
    BY <1>1 DEF Idle, Programs, File

\* The first state
LEMMA InitHolds == FolderInit => FolderInv
<1> SUFFICES ASSUME FolderInit PROVE FolderInv
    OBVIOUS
<1>0. /\ \A f \in File : newest[f] \in Value
      /\ newest \in [File -> Value]
      /\ old.there = TRUE /\ old.has = newest /\ new.there = FALSE
      /\ \A f \in File : new.has[f] = Absent
      /\ \A p \in Process : proc[p].at = "off" /\ proc[p].again = FALSE
    BY FolderBounds DEF FolderInit, Value, File, Empty, NoFiles, Idle, Absent
<1>1. FolderTypes
    <2>1. proc \in [Process -> Programs]
        BY IdleTyped DEF FolderInit
    <2>2. new \in NewFolder
        BY FolderBounds DEF FolderInit, Empty, NoFiles, NewFolder, Absent, NewOne
    <2> QED
        BY <1>0, <2>1, <2>2 DEF FolderTypes, FolderInit
<1>2. CoreInv
    BY <1>0 DEF CoreInv, FolderInit, Merging, Process
<1>3. OldInv /\ FilesInv /\ ProcessInv
    BY <1>0 DEF OldInv, FilesInv, ProcessInv, Doing, AllNew, Moving, Merging, Process, File,
       Absent, Part, NewOne, FolderInit
<1> QED
    BY <1>1, <1>2, <1>3 DEF FolderInv

\* The old program writes: its folder is there, the new one has no file yet.
LEMMA OldWritesKeeps ==
    ASSUME FolderInv, NEW f \in File, OldWrites(f)
    PROVE  FolderInv'
<1>0. /\ newest' \in [File -> Value] /\ newest'[f] = newest[f] + 1
      /\ \A g \in File : g # f => newest'[g] = newest[g]
      /\ old' \in [there : BOOLEAN, has : [File -> Value]] /\ old'.there = old.there
      /\ old.there => \A g \in File : old'.has[g] = IF g = f THEN newest'[f] ELSE old.has[g]
      /\ ~old.there => old' = old
      /\ UNCHANGED <<oldApp, ownMutex, new, proc, under, torn, trouble>>
    BY FolderBounds DEF FolderInv, FolderTypes, OldWrites, Value
<1>1. FolderTypes'
    BY <1>0 DEF FolderInv, FolderTypes, Absent
<1>2. CoreInv'
    BY <1>0 DEF FolderInv, CoreInv
<1>3. ASSUME ~under', ~torn' PROVE OldInv' /\ FilesInv' /\ ProcessInv'
    <2>1. OldInv /\ FilesInv /\ ProcessInv /\ oldApp
        BY <1>0, <1>3 DEF FolderInv, OldWrites
    <2>2. OldInv'
        BY <1>0, <2>1 DEF OldInv
    <2>3. FilesInv'
        <3>1. \A g \in File : old'.has[g] = newest'[g] /\ new'.has[g] = 0
            BY <1>0, <2>1 DEF OldInv, Absent
        <3> QED
            BY <3>1 DEF FilesInv, AllNew, Absent, Part, NewOne, File
    <2>4. ProcessInv'
        BY <1>0, <2>1, FolderTypes DEF OldInv, ProcessInv, Doing, AllNew, Moving, Merging,
           CoreInv, FolderInv, FilesInv
    <2> QED
        BY <2>2, <2>3, <2>4
<1> QED
    BY <1>1, <1>2, <1>3 DEF FolderInv

\* Once the old program has exited, the move may begin.
LEMMA OldExitsKeeps ==
    ASSUME FolderInv, OldExits
    PROVE  FolderInv'
<1>0. oldApp' = FALSE /\ UNCHANGED <<ownMutex, old, new, proc, newest, under, torn, trouble>>
    BY DEF OldExits
<1>1. FolderTypes' /\ CoreInv'
    BY <1>0 DEF FolderInv, FolderTypes, CoreInv
<1>2. OldInv'
    BY <1>0 DEF OldInv
<1>3. (FilesInv <=> FilesInv') /\ (ProcessInv <=> ProcessInv')
    BY <1>0 DEF FilesInv, ProcessInv, Doing, AllNew
<1> QED
    BY <1>0, <1>1, <1>2, <1>3 DEF FolderInv

\* A process starts before it looks.
LEMMA StartProcessKeeps ==
    ASSUME FolderInv, NEW p \in Process, StartProcess(p)
    PROVE  FolderInv'
<1>0. /\ proc' \in [Process -> Programs]
      /\ \A r \in Process : r # p => proc'[r] = proc[r]
      /\ proc[p].at = "off" /\ proc'[p].at = "check" /\ proc'[p].again = FALSE
      /\ UNCHANGED <<oldApp, ownMutex, old, new, newest, under, torn, trouble>>
    <2>1. /\ proc' \in [Process -> Programs]
          /\ \A r \in Process : r # p => proc'[r] = proc[r]
        BY IdleTyped DEF FolderInv, FolderTypes, Programs, Places, StartProcess, Keeps
    <2>2. /\ proc[p].at = "off" /\ proc'[p].at = "check" /\ proc'[p].again = FALSE
        BY IdleTyped DEF FolderInv, FolderTypes, Programs, Idle, StartProcess
    <2>3. /\ UNCHANGED <<oldApp, ownMutex, old, new, newest, under, torn, trouble>>
        BY DEF StartProcess, Keeps
    <2> QED
        BY <2>1, <2>2, <2>3
<1>1. FolderTypes'
    BY <1>0 DEF FolderInv, FolderTypes
<1>2. CoreInv'
    BY <1>0 DEF FolderInv, FolderTypes, CoreInv, Process, Merging
<1>3. ASSUME ~under', ~torn' PROVE OldInv' /\ FilesInv' /\ ProcessInv'
    <2>1. OldInv /\ FilesInv /\ ProcessInv /\ ~under /\ ~torn
        BY <1>0, <1>3 DEF FolderInv
    <2>2. OldInv'
        BY <1>0, <2>1 DEF OldInv, Moving, Process
    <2>3. FilesInv'
        BY <1>0, <2>1 DEF FolderInv, FolderTypes, FilesInv, AllNew, Absent, Part, NewOne
    <2>4. ProcessInv'
        <3>1. \A r \in Process : Doing(r)'
            BY <1>0, <2>1 DEF FolderInv, FolderTypes, ProcessInv, Doing, AllNew, Merging, Absent
        <3> QED
            BY <1>0, <2>1, <3>1 DEF ProcessInv, Process, FolderInv, FolderTypes, CoreInv,
               Merging
    <2> QED
        BY <2>2, <2>3, <2>4
<1> QED
    BY <1>1, <1>2, <1>3 DEF FolderInv

\* old_app_runs is asked unless the core holds its mutex: then the move may
\* begin under the old program.
LEMMA CheckOldKeeps ==
    ASSUME FolderInv, NEW p \in Process, CheckOld(p)
    PROVE  FolderInv'
<1>0. /\ proc' \in [Process -> Programs]
      /\ \A r \in Process : r # p => proc'[r] = proc[r]
      /\ proc[p].at = "check" /\ proc'[p].at \in {"mkdir", "look"}
      /\ proc'[p].todo = proc[p].todo /\ proc'[p].tmp = proc[p].tmp
      /\ proc'[p].file = proc[p].file /\ proc'[p].content = proc[p].content
      /\ proc'[p].again = proc[p].again
      /\ proc'[p].at = "look" => old.there
      /\ proc'[p].at = "mkdir" => ~old.there \/ (~ownMutex /\ oldApp)
      /\ under' \in BOOLEAN /\ (under => under') /\ (proc'[p].at = "look" /\ oldApp => under')
      /\ UNCHANGED <<oldApp, ownMutex, old, new, newest, torn, trouble>>
    <2>1. \E to \in Places : ToStep(p, to)
        BY DEF CheckOld, Places, Moving
    <2>2. /\ proc' \in [Process -> Programs]
          /\ \A r \in Process : r # p => proc'[r] = proc[r]
          /\ proc'[p].todo = proc[p].todo /\ proc'[p].tmp = proc[p].tmp
          /\ proc'[p].file = proc[p].file /\ proc'[p].content = proc[p].content
          /\ proc'[p].again = proc[p].again
        BY <2>1, StepFacts DEF FolderInv
    <2>3. /\ proc[p].at = "check" /\ proc'[p].at \in {"mkdir", "look"}
        BY DEF FolderInv, FolderTypes, Programs, CheckOld, ToStep, OldAppRuns
    <2>4. /\ proc'[p].at = "look" => old.there
        BY DEF FolderInv, FolderTypes, Programs, CheckOld, ToStep, OldAppRuns
    <2>5. /\ proc'[p].at = "mkdir" => ~old.there \/ (~ownMutex /\ oldApp)
        BY DEF FolderInv, FolderTypes, Programs, CheckOld, ToStep, OldAppRuns
    <2>6. /\ under' \in BOOLEAN /\ (under => under') /\ (proc'[p].at = "look" /\ oldApp => under')
        BY DEF FolderInv, FolderTypes, Programs, CheckOld, ToStep, OldAppRuns
    <2>7. /\ UNCHANGED <<oldApp, ownMutex, old, new, newest, torn, trouble>>
        BY DEF CheckOld, Keeps
    <2> QED
        BY <2>2, <2>3, <2>4, <2>5, <2>6, <2>7
<1>1. FolderTypes'
    BY <1>0 DEF FolderInv, FolderTypes
<1>2. CoreInv'
    BY <1>0 DEF FolderInv, FolderTypes, CoreInv, Process, Merging
<1>3. ASSUME ~under', ~torn' PROVE OldInv' /\ FilesInv' /\ ProcessInv'
    <2>1. OldInv /\ FilesInv /\ ProcessInv /\ ~under /\ ~torn
        BY <1>0, <1>3 DEF FolderInv
    <2>2. OldInv'
        BY <1>0, <1>3, <2>1 DEF OldInv, Moving, Process, FolderInv, CoreInv, FolderTypes
    <2>3. FilesInv'
        BY <1>0, <2>1 DEF FolderInv, FolderTypes, FilesInv, AllNew, Absent, Part, NewOne
    <2>4. ProcessInv'
        <3>1. \A r \in Process : Doing(r)'
            BY <1>0, <2>1 DEF FolderInv, FolderTypes, ProcessInv, Doing, AllNew, Merging, Absent
        <3> QED
            BY <1>0, <2>1, <3>1 DEF ProcessInv, Process, FolderInv, FolderTypes, CoreInv,
               Merging, FilesInv, AllNew, Absent, File
    <2> QED
        BY <2>2, <2>3, <2>4
<1> QED
    BY <1>1, <1>2, <1>3 DEF FolderInv

\* A folder with settings of its own stays; one without is merged.
LEMMA LookNewKeeps ==
    ASSUME FolderInv, NEW p \in Process, LookNew(p)
    PROVE  FolderInv'
<1>0. /\ proc' \in [Process -> Programs]
      /\ \A r \in Process : r # p => proc'[r] = proc[r]
      /\ proc[p].at = "look" /\ proc'[p].at \in {"rename", "mkdir", "merge"}
      /\ proc'[p].tmp = proc[p].tmp /\ proc'[p].file = proc[p].file
      /\ proc'[p].content = proc[p].content /\ proc'[p].again = proc[p].again
      /\ proc'[p].at = "rename" => ~new.there
      /\ proc'[p].at # "rename" => new.there
      /\ proc'[p].at = "mkdir" => new.has["settings"] # Absent
      /\ proc'[p].todo = {f \in File : old.has[f] # Absent} \ {"settings"}
      /\ UNCHANGED <<oldApp, ownMutex, old, new, newest, under, torn, trouble>>
    <2>1. /\ proc' \in [Process -> Programs]
          /\ \A r \in Process : r # p => proc'[r] = proc[r]
          /\ proc'[p].tmp = proc[p].tmp /\ proc'[p].file = proc[p].file
          /\ proc'[p].content = proc[p].content /\ proc'[p].again = proc[p].again
        <3> DEFINE to   == IF ~new.there THEN "rename"
                       ELSE IF Has(new, "settings") THEN "mkdir" ELSE "merge"
        <3> DEFINE left == FilesOf(old) \ {"settings"}
        <3>1. to \in Places /\ left \in SUBSET File
            BY DEF Places, Moving, FilesOf
        <3>2. proc' = [proc EXCEPT ![p].at = to, ![p].todo = left]
            BY DEF LookNew
        <3> HIDE DEF to  , left
        <3> DEFINE q == [proc[p] EXCEPT !.at = to, !.todo = left]
        <3>4. proc[p] \in Programs /\ proc' = [proc EXCEPT ![p] = q]
            BY <3>1, <3>2 DEF FolderInv, FolderTypes, Programs
        <3>5. q \in Programs /\ q.tmp = proc[p].tmp /\ q.file = proc[p].file /\ q.content = proc[p].content /\ q.again = proc[p].again
            BY <3>1, <3>2, <3>4 DEF Programs
        <3> HIDE DEF q
        <3> QED
            BY <3>4, <3>5 DEF FolderInv, FolderTypes
    <2>2. /\ proc[p].at = "look" /\ proc'[p].at \in {"rename", "mkdir", "merge"}
        BY DEF FolderInv, FolderTypes, Programs, LookNew
    <2>3. /\ proc'[p].at = "rename" => ~new.there
        BY DEF FolderInv, FolderTypes, Programs, LookNew
    <2>4. /\ proc'[p].at # "rename" => new.there
        BY DEF FolderInv, FolderTypes, Programs, LookNew
    <2>5. /\ proc'[p].at = "mkdir" => new.has["settings"] # Absent
        BY DEF FolderInv, FolderTypes, Programs, LookNew, Has
    <2>6. /\ proc'[p].todo = {f \in File : old.has[f] # Absent} \ {"settings"}
        BY DEF FolderInv, FolderTypes, Programs, LookNew, Has, FilesOf
    <2>7. /\ UNCHANGED <<oldApp, ownMutex, old, new, newest, under, torn, trouble>>
        BY DEF LookNew, Keeps
    <2> QED
        BY <2>1, <2>2, <2>3, <2>4, <2>5, <2>6, <2>7
<1>1. FolderTypes'
    BY <1>0 DEF FolderInv, FolderTypes
<1>2. CoreInv'
    BY <1>0 DEF FolderInv, FolderTypes, CoreInv, Process, Merging
<1>3. ASSUME ~under', ~torn' PROVE OldInv' /\ FilesInv' /\ ProcessInv'
    <2>1. OldInv /\ FilesInv /\ ProcessInv /\ ~under /\ ~torn /\ ~oldApp
        BY <1>0, <1>3 DEF FolderInv, OldInv, Moving
    <2>2. OldInv'
        BY <1>0, <2>1 DEF OldInv, Moving, Process
    <2>3. FilesInv'
        BY <1>0, <2>1 DEF FolderInv, FolderTypes, FilesInv, AllNew, Absent, Part, NewOne
    <2>4. ProcessInv'
        <3>1. \A r \in Process : Doing(r)'
            <4>1. Doing(p)'
                BY <1>0, <2>1 DEF FolderInv, FolderTypes, ProcessInv, Doing, AllNew, Merging,
                   Absent, FilesInv, File, Programs
            <4>2. ASSUME NEW r \in Process, r # p PROVE Doing(r)'
                <5>1. Doing(r) /\ proc'[r] = proc[r]
                    BY <1>0, <2>1, <4>2 DEF ProcessInv
                <5> QED
                    BY <1>0, <2>1, <4>2, <5>1 DEF FolderInv, FolderTypes, Doing, AllNew,
                       Merging,
                       Absent
            <4> QED
                BY <4>1, <4>2
        <3> QED
            BY <1>0, <2>1, <3>1 DEF ProcessInv, Process, FolderInv, FolderTypes, CoreInv,
               Merging
    <2> QED
        BY <2>2, <2>3, <2>4
<1> QED
    BY <1>1, <1>2, <1>3 DEF FolderInv

\* The rename moves every file at once.
LEMMA RenameOldKeeps ==
    ASSUME FolderInv, NEW p \in Process, RenameOld(p)
    PROVE  FolderInv'
<1>0. /\ proc' \in [Process -> Programs]
      /\ \A r \in Process : r # p => proc'[r] = proc[r]
      /\ proc[p].at = "rename" /\ proc'[p].at = "mkdir"
      /\ proc'[p].todo = proc[p].todo /\ proc'[p].tmp = proc[p].tmp
      /\ proc'[p].file = proc[p].file /\ proc'[p].content = proc[p].content
      /\ proc'[p].again = proc[p].again
      /\ old.there /\ ~new.there /\ new' = old
      /\ old'.there = FALSE /\ \A f \in File : old'.has[f] = Absent
      /\ old' \in [there : BOOLEAN, has : [File -> Value]] /\ new' \in NewFolder
      /\ UNCHANGED <<oldApp, ownMutex, newest, under, torn, trouble>>
    <2>1. \E to \in Places : ToStep(p, to)
        BY DEF RenameOld, Places, Moving
    <2>2. /\ proc' \in [Process -> Programs]
          /\ \A r \in Process : r # p => proc'[r] = proc[r]
          /\ proc'[p].todo = proc[p].todo /\ proc'[p].tmp = proc[p].tmp
          /\ proc'[p].file = proc[p].file /\ proc'[p].content = proc[p].content
          /\ proc'[p].again = proc[p].again
        BY <2>1, StepFacts DEF FolderInv
    <2>3. /\ proc[p].at = "rename" /\ proc'[p].at = "mkdir"
        BY DEF FolderInv, FolderTypes, Programs, RenameOld, ToStep
    <2>4. /\ old.there /\ ~new.there /\ new' = old
        BY DEF FolderInv, FolderTypes, Programs, RenameOld
    <2>5. /\ old'.there = FALSE /\ \A f \in File : old'.has[f] = Absent
        BY DEF FolderInv, FolderTypes, Programs, RenameOld, Empty, NoFiles
    <2>6. /\ old' \in [there : BOOLEAN, has : [File -> Value]] /\ new' \in NewFolder
        BY FolderBounds DEF FolderInv, FolderTypes, Programs, Places, Moving, Keeps, RenameOld,
           Empty, NoFiles, Value, NewFolder, Absent, NewOne
    <2>7. /\ UNCHANGED <<oldApp, ownMutex, newest, under, torn, trouble>>
        BY DEF RenameOld, Keeps
    <2> QED
        BY <2>2, <2>3, <2>4, <2>5, <2>6, <2>7
<1>1. FolderTypes'
    BY <1>0 DEF FolderInv, FolderTypes
<1>2. CoreInv'
    BY <1>0 DEF FolderInv, FolderTypes, CoreInv, Process, Merging
<1>3. ASSUME ~under', ~torn' PROVE OldInv' /\ FilesInv' /\ ProcessInv'
    <2>1. OldInv /\ FilesInv /\ ProcessInv /\ ~under /\ ~torn /\ ~oldApp
        BY <1>0, <1>3 DEF FolderInv, OldInv, Moving
    <2>2. OldInv'
        BY <1>0, <2>1 DEF OldInv, Moving, Process
    <2>3. FilesInv'
        <3>1. \A f \in File : /\ old'.has[f] \in {newest'[f], Absent}
                               /\ new'.has[f] \in {newest'[f], Absent, Part, NewOne}
            BY <1>0, <2>1 DEF FolderInv, FolderTypes, FilesInv, AllNew, Absent, Part, NewOne,
               File
        <3>2. ~new'.there => \A f \in File : new'.has[f] = Absent /\ old'.has[f] = newest'[f]
            BY <1>0, <2>1 DEF FolderInv, FolderTypes, FilesInv, AllNew, Absent, Part, NewOne,
               File
        <3>3. (\E f \in File : old'.has[f] # newest'[f]) => AllNew'
            BY <1>0, <2>1 DEF FolderInv, FolderTypes, FilesInv, AllNew, Absent, Part, NewOne,
               File, OldInv
        <3>4. \A f \in File : new'.has[f] = Part =>
                  \E r \in Process : proc'[r].at = "fill" /\ proc'[r].file = f
            BY <1>0, <2>1 DEF FolderInv, FolderTypes, FilesInv, AllNew, Absent, Part, NewOne,
               File, Value
        <3>5. new'.has["keys"] # NewOne
            BY <1>0, <2>1 DEF FolderInv, FolderTypes, NewOne, File, Value
        <3>6. new'.has["settings"] = NewOne /\ newest'["settings"] # Absent => trouble' > 0
            BY <1>0, <2>1 DEF FolderInv, FolderTypes, NewOne, File, Value
        <3> QED
            BY <3>1, <3>2, <3>3, <3>4, <3>5, <3>6 DEF FilesInv
    <2>4. ProcessInv'
        <3>1. \A r \in Process : Doing(r)'
            <4>1. Doing(p)'
                BY <1>0, <2>1 DEF FolderInv, FolderTypes, ProcessInv, Doing, AllNew, Merging,
                   Absent
            <4>2. ASSUME NEW r \in Process, r # p PROVE Doing(r)'
                <5>1. Doing(r) /\ proc'[r] = proc[r]
                    BY <1>0, <2>1, <4>2 DEF ProcessInv
                <5> QED
                    BY <1>0, <2>1, <4>2, <5>1 DEF FolderInv, FolderTypes, Doing, AllNew,
                       Merging,
                       Absent, CoreInv, FilesInv
            <4> QED
                BY <4>1, <4>2
        <3> QED
            BY <1>0, <2>1, <3>1 DEF ProcessInv, Process, FolderInv, FolderTypes, CoreInv,
               Merging
    <2> QED
        BY <2>2, <2>3, <2>4
<1> QED
    BY <1>1, <1>2, <1>3 DEF FolderInv

\* A rename that fails leaves both folders as they are.
LEMMA RenameFailsKeeps ==
    ASSUME FolderInv, NEW p \in Process, RenameFails(p)
    PROVE  FolderInv'
<1>0. /\ proc' \in [Process -> Programs]
      /\ \A r \in Process : r # p => proc'[r] = proc[r]
      /\ proc[p].at = "rename" /\ proc'[p].at \in {"mkdir", "copy"}
      /\ proc'[p].file = proc[p].file /\ proc'[p].content = proc[p].content
      /\ proc'[p].again = proc[p].again
      /\ proc'[p].at = "copy" => ~new.there
      /\ proc'[p].todo = {f \in File : old.has[f] # Absent} /\ \A f \in File : proc'[p].tmp[f] = Absent
      /\ trouble' \in Nat /\ trouble' >= trouble
      /\ UNCHANGED <<oldApp, ownMutex, old, new, newest, under, torn>>
    <2>1. /\ proc' \in [Process -> Programs]
          /\ \A r \in Process : r # p => proc'[r] = proc[r]
          /\ proc'[p].file = proc[p].file /\ proc'[p].content = proc[p].content
          /\ proc'[p].again = proc[p].again
        <3> DEFINE to   == IF new.there THEN "mkdir" ELSE "copy"
        <3> DEFINE left == FilesOf(old)
        <3> DEFINE none == NoFiles
        <3>1. to \in Places /\ left \in SUBSET File /\ none \in [File -> Value]
            BY FolderBounds DEF Places, Moving, FilesOf, NoFiles, Value, Absent
        <3>2. proc' = [proc EXCEPT ![p].at = to, ![p].todo = left, ![p].tmp = none]
            BY DEF RenameFails
        <3> HIDE DEF to  , left, none
        <3> DEFINE q == [proc[p] EXCEPT !.at = to, !.todo = left, !.tmp = none]
        <3>4. proc[p] \in Programs /\ proc' = [proc EXCEPT ![p] = q]
            BY <3>1, <3>2 DEF FolderInv, FolderTypes, Programs
        <3>5. q \in Programs /\ q.file = proc[p].file /\ q.content = proc[p].content /\ q.again = proc[p].again
            BY <3>1, <3>2, <3>4 DEF Programs
        <3> HIDE DEF q
        <3> QED
            BY <3>4, <3>5 DEF FolderInv, FolderTypes
    <2>2. /\ proc[p].at = "rename" /\ proc'[p].at \in {"mkdir", "copy"}
        BY DEF FolderInv, FolderTypes, Programs, RenameFails
    <2>3. /\ proc'[p].at = "copy" => ~new.there
        BY DEF FolderInv, FolderTypes, Programs, RenameFails
    <2>4. /\ proc'[p].todo = {f \in File : old.has[f] # Absent} /\ \A f \in File : proc'[p].tmp[f] = Absent
        BY DEF FolderInv, FolderTypes, Programs, RenameFails, Has, FilesOf, NoFiles
    <2>5. /\ trouble' \in Nat /\ trouble' >= trouble
        BY DEF FolderInv, FolderTypes, RenameFails, Trouble
    <2>6. /\ UNCHANGED <<oldApp, ownMutex, old, new, newest, under, torn>>
        BY DEF RenameFails, Keeps
    <2> QED
        BY <2>1, <2>2, <2>3, <2>4, <2>5, <2>6
<1>1. FolderTypes'
    BY <1>0 DEF FolderInv, FolderTypes
<1>2. CoreInv'
    BY <1>0 DEF FolderInv, FolderTypes, CoreInv, Process, Merging
<1>3. ASSUME ~under', ~torn' PROVE OldInv' /\ FilesInv' /\ ProcessInv'
    <2>1. OldInv /\ FilesInv /\ ProcessInv /\ ~under /\ ~torn /\ ~oldApp
        BY <1>0, <1>3 DEF FolderInv, OldInv, Moving
    <2>2. OldInv'
        BY <1>0, <2>1 DEF OldInv, Moving, Process
    <2>3. FilesInv'
        BY <1>0, <2>1 DEF FolderInv, FolderTypes, FilesInv, AllNew, Absent, Part, NewOne
    <2>4. ProcessInv'
        <3>1. \A r \in Process : Doing(r)'
            <4>1. Doing(p)'
                BY <1>0, <2>1 DEF FolderInv, FolderTypes, ProcessInv, Doing, AllNew, Merging,
                   Absent, FilesInv, File
            <4>2. ASSUME NEW r \in Process, r # p PROVE Doing(r)'
                <5>1. Doing(r) /\ proc'[r] = proc[r]
                    BY <1>0, <2>1, <4>2 DEF ProcessInv
                <5> QED
                    BY <1>0, <2>1, <4>2, <5>1 DEF FolderInv, FolderTypes, Doing, AllNew,
                       Merging,
                       Absent
            <4> QED
                BY <4>1, <4>2
        <3> QED
            BY <1>0, <2>1, <3>1 DEF ProcessInv, Process, FolderInv, FolderTypes, CoreInv,
               Merging
    <2> QED
        BY <2>2, <2>3, <2>4
<1> QED
    BY <1>1, <1>2, <1>3 DEF FolderInv

\* The copy holds what the old folder holds, which no one deletes while
\* there is no new one.
LEMMA CopyFileKeeps ==
    ASSUME FolderInv, NEW p \in Process, CopyFile(p)
    PROVE  FolderInv'
<1>0. /\ proc' \in [Process -> Programs]
      /\ \A r \in Process : r # p => proc'[r] = proc[r]
      /\ proc[p].at = "copy" /\ proc'[p].at = "copy"
      /\ proc'[p].file = proc[p].file /\ proc'[p].content = proc[p].content
      /\ proc'[p].again = proc[p].again
      /\ \E f \in proc[p].todo :
            /\ old.has[f] # Absent /\ proc'[p].todo = proc[p].todo \ {f}
            /\ proc'[p].tmp = [proc[p].tmp EXCEPT ![f] = old.has[f]]
      /\ UNCHANGED <<oldApp, ownMutex, old, new, newest, under, torn, trouble>>
    <2>1. PICK f \in proc[p].todo :
              /\ old.has[f] # Absent
              /\ proc' = [proc EXCEPT ![p].todo = @ \ {f}, ![p].tmp[f] = old.has[f]]
        BY DEF CopyFile, Has
    <2>2. old.has[f] \in Value /\ f \in File /\ proc[p] \in Programs
        BY DEF FolderInv, FolderTypes, Programs
    <2> DEFINE q == [proc[p] EXCEPT !.todo = @ \ {f}, !.tmp = [@ EXCEPT ![f] = old.has[f]]]
    <2>3. /\ q \in Programs /\ q.at = proc[p].at /\ q.file = proc[p].file /\ q.content = proc[p].content
          /\ q.again = proc[p].again /\ q.todo = proc[p].todo \ {f}
          /\ q.tmp = [proc[p].tmp EXCEPT ![f] = old.has[f]]
        BY <2>2 DEF Programs
    <2>4. proc' = [proc EXCEPT ![p] = q]
        BY <2>1, <2>2 DEF FolderInv, FolderTypes, Programs
    <2> HIDE DEF q
    <2>5. proc'[p] = q /\ proc' \in [Process -> Programs] /\ \A r \in Process : r # p => proc'[r] = proc[r]
        BY <2>3, <2>4 DEF FolderInv, FolderTypes
    <2>6. proc[p].at = "copy" /\ UNCHANGED <<oldApp, ownMutex, old, new, newest, under, torn, trouble>>
        BY DEF CopyFile, Keeps
    <2> QED
        BY <2>1, <2>3, <2>5, <2>6
<1>1. FolderTypes'
    BY <1>0 DEF FolderInv, FolderTypes
<1>2. CoreInv'
    BY <1>0 DEF FolderInv, FolderTypes, CoreInv, Process, Merging
<1>3. ASSUME ~under', ~torn' PROVE OldInv' /\ FilesInv' /\ ProcessInv'
    <2>1. OldInv /\ FilesInv /\ ProcessInv /\ ~under /\ ~torn /\ ~oldApp
        BY <1>0, <1>3 DEF FolderInv, OldInv, Moving
    <2>2. OldInv'
        BY <1>0, <2>1 DEF OldInv, Moving, Process
    <2>3. FilesInv'
        BY <1>0, <2>1 DEF FolderInv, FolderTypes, FilesInv, AllNew, Absent, Part, NewOne
    <2>4. ProcessInv'
        <3>1. \A r \in Process : Doing(r)'
            <4>1. Doing(p)'
                BY <1>0, <2>1 DEF FolderInv, FolderTypes, ProcessInv, Doing, AllNew, Merging,
                   Absent, FilesInv, File, Programs
            <4>2. ASSUME NEW r \in Process, r # p PROVE Doing(r)'
                <5>1. Doing(r) /\ proc'[r] = proc[r]
                    BY <1>0, <2>1, <4>2 DEF ProcessInv
                <5> QED
                    BY <1>0, <2>1, <4>2, <5>1 DEF FolderInv, FolderTypes, Doing, AllNew,
                       Merging,
                       Absent
            <4> QED
                BY <4>1, <4>2
        <3> QED
            BY <1>0, <2>1, <3>1 DEF ProcessInv, Process, FolderInv, FolderTypes, CoreInv,
               Merging
    <2> QED
        BY <2>2, <2>3, <2>4
<1> QED
    BY <1>1, <1>2, <1>3 DEF FolderInv

\* A copy that fails is left.
LEMMA CopyFailsKeeps ==
    ASSUME FolderInv, NEW p \in Process, CopyFails(p)
    PROVE  FolderInv'
<1>0. /\ proc' \in [Process -> Programs]
      /\ \A r \in Process : r # p => proc'[r] = proc[r]
      /\ proc[p].at = "copy" /\ proc'[p].at = "mkdir"
      /\ proc'[p].todo = proc[p].todo /\ proc'[p].tmp = proc[p].tmp
      /\ proc'[p].file = proc[p].file /\ proc'[p].content = proc[p].content
      /\ proc'[p].again = proc[p].again
      /\ trouble' \in Nat /\ trouble' >= trouble
      /\ UNCHANGED <<oldApp, ownMutex, old, new, newest, under, torn>>
    <2>1. \E to \in Places : ToStep(p, to)
        BY DEF CopyFails, Places, Moving
    <2>2. /\ proc' \in [Process -> Programs]
          /\ \A r \in Process : r # p => proc'[r] = proc[r]
          /\ proc'[p].todo = proc[p].todo /\ proc'[p].tmp = proc[p].tmp
          /\ proc'[p].file = proc[p].file /\ proc'[p].content = proc[p].content
          /\ proc'[p].again = proc[p].again
        BY <2>1, StepFacts DEF FolderInv
    <2>3. /\ proc[p].at = "copy" /\ proc'[p].at = "mkdir"
        BY DEF FolderInv, FolderTypes, Programs, CopyFails, ToStep
    <2>4. /\ trouble' \in Nat /\ trouble' >= trouble
        BY DEF FolderInv, FolderTypes, Programs, CopyFails, Trouble
    <2>5. /\ UNCHANGED <<oldApp, ownMutex, old, new, newest, under, torn>>
        BY DEF CopyFails, Keeps
    <2> QED
        BY <2>2, <2>3, <2>4, <2>5
<1>1. FolderTypes'
    BY <1>0 DEF FolderInv, FolderTypes
<1>2. CoreInv'
    BY <1>0 DEF FolderInv, FolderTypes, CoreInv, Process, Merging
<1>3. ASSUME ~under', ~torn' PROVE OldInv' /\ FilesInv' /\ ProcessInv'
    <2>1. OldInv /\ FilesInv /\ ProcessInv /\ ~under /\ ~torn /\ ~oldApp
        BY <1>0, <1>3 DEF FolderInv, OldInv, Moving
    <2>2. OldInv'
        BY <1>0, <2>1 DEF OldInv, Moving, Process
    <2>3. FilesInv'
        BY <1>0, <2>1 DEF FolderInv, FolderTypes, FilesInv, AllNew, Absent, Part, NewOne
    <2>4. ProcessInv'
        <3>1. \A r \in Process : Doing(r)'
            BY <1>0, <2>1 DEF FolderInv, FolderTypes, ProcessInv, Doing, AllNew, Merging, Absent
        <3> QED
            BY <1>0, <2>1, <3>1 DEF ProcessInv, Process, FolderInv, FolderTypes, CoreInv,
               Merging
    <2> QED
        BY <2>2, <2>3, <2>4
<1> QED
    BY <1>1, <1>2, <1>3 DEF FolderInv

\* A complete copy becomes the new folder.
LEMMA PublishCopyKeeps ==
    ASSUME FolderInv, NEW p \in Process, PublishCopy(p)
    PROVE  FolderInv'
<1>0. /\ proc' \in [Process -> Programs]
      /\ \A r \in Process : r # p => proc'[r] = proc[r]
      /\ proc[p].at = "copy" /\ proc'[p].at \in {"mkdir", "delete"} /\ proc[p].todo = {}
      /\ proc'[p].todo = proc[p].todo /\ proc'[p].tmp = proc[p].tmp
      /\ proc'[p].file = proc[p].file /\ proc'[p].content = proc[p].content
      /\ proc'[p].again = proc[p].again
      /\ proc'[p].at = "mkdir" => new.there /\ new' = new
      /\ proc'[p].at = "delete" => ~new.there /\ new'.there = TRUE /\ new'.has = proc[p].tmp
      /\ new' \in NewFolder
      /\ UNCHANGED <<oldApp, ownMutex, old, newest, under, torn, trouble>>
    <2>1. \E to \in Places : ToStep(p, to)
        BY DEF PublishCopy, Places, Moving
    <2>2. /\ proc' \in [Process -> Programs]
          /\ \A r \in Process : r # p => proc'[r] = proc[r]
          /\ proc'[p].todo = proc[p].todo /\ proc'[p].tmp = proc[p].tmp
          /\ proc'[p].file = proc[p].file /\ proc'[p].content = proc[p].content
          /\ proc'[p].again = proc[p].again
        BY <2>1, StepFacts DEF FolderInv
    <2>3. /\ proc[p].at = "copy" /\ proc'[p].at \in {"mkdir", "delete"} /\ proc[p].todo = {}
        BY DEF FolderInv, FolderTypes, Programs, PublishCopy, ToStep
    <2>4. /\ proc'[p].at = "mkdir" => new.there /\ new' = new
        BY DEF FolderInv, FolderTypes, Programs, PublishCopy, ToStep
    <2>5. /\ proc'[p].at = "delete" => ~new.there /\ new'.there = TRUE /\ new'.has = proc[p].tmp
        BY DEF FolderInv, FolderTypes, Programs, PublishCopy, ToStep
    <2>6. /\ new' \in NewFolder
        <3>1. proc[p].tmp \in [File -> NewOne .. MaxWrites + 1]
            BY DEF FolderInv, FolderTypes, Programs, NewOne, Value
        <3>2. [there |-> TRUE, has |-> proc[p].tmp] \in NewFolder /\ new \in NewFolder
            BY <3>1 DEF NewFolder, FolderInv, FolderTypes
        <3> QED
            BY <3>2 DEF PublishCopy
    <2>7. /\ UNCHANGED <<oldApp, ownMutex, old, newest, under, torn, trouble>>
        BY DEF PublishCopy, Keeps
    <2> QED
        BY <2>2, <2>3, <2>4, <2>5, <2>6, <2>7
<1>1. FolderTypes'
    BY <1>0 DEF FolderInv, FolderTypes
<1>2. CoreInv'
    BY <1>0 DEF FolderInv, FolderTypes, CoreInv, Process, Merging
<1>3. ASSUME ~under', ~torn' PROVE OldInv' /\ FilesInv' /\ ProcessInv'
    <2>1. OldInv /\ FilesInv /\ ProcessInv /\ ~under /\ ~torn /\ ~oldApp
        BY <1>0, <1>3 DEF FolderInv, OldInv, Moving
    <2>2. OldInv'
        BY <1>0, <2>1 DEF OldInv, Moving, Process
    <2>3. FilesInv'
        <3>1. \A f \in File : /\ old'.has[f] \in {newest'[f], Absent}
                               /\ new'.has[f] \in {newest'[f], Absent, Part, NewOne}
            BY <1>0, <2>1 DEF FolderInv, FolderTypes, FilesInv, AllNew, Absent, Part, NewOne,
               File, ProcessInv, Doing
        <3>2. ~new'.there => \A f \in File : new'.has[f] = Absent /\ old'.has[f] = newest'[f]
            BY <1>0, <2>1 DEF FolderInv, FolderTypes, FilesInv, AllNew, Absent, Part, NewOne,
               File
        <3>3. (\E f \in File : old'.has[f] # newest'[f]) => AllNew'
            BY <1>0, <2>1 DEF FolderInv, FolderTypes, FilesInv, AllNew, Absent, Part, NewOne,
               File, ProcessInv, Doing
        <3>4. \A f \in File : new'.has[f] = Part =>
                  \E r \in Process : proc'[r].at = "fill" /\ proc'[r].file = f
            BY SMTT(30), <1>0, <2>1 DEF FolderInv, FolderTypes, FilesInv, Part, Value, Programs
        <3>5. new'.has["keys"] # NewOne
            BY <1>0, <2>1 DEF FolderInv, FolderTypes, FilesInv, NewOne, File, Value, Programs
        <3>6. new'.has["settings"] = NewOne /\ newest'["settings"] # Absent => trouble' > 0
            BY <1>0, <2>1 DEF FolderInv, FolderTypes, FilesInv, NewOne, File, Value, Programs
        <3> QED
            BY <3>1, <3>2, <3>3, <3>4, <3>5, <3>6 DEF FilesInv
    <2>4. ProcessInv'
        <3>1. \A r \in Process : Doing(r)'
            <4>1. Doing(p)'
                BY <1>0, <2>1 DEF FolderInv, FolderTypes, ProcessInv, Doing, AllNew, Merging,
                   Absent
            <4>2. ASSUME NEW r \in Process, r # p PROVE Doing(r)'
                <5>1. Doing(r) /\ proc'[r] = proc[r]
                    BY <1>0, <2>1, <4>2 DEF ProcessInv
                <5> QED
                    BY <1>0, <2>1, <4>2, <5>1 DEF FolderInv, FolderTypes, Doing, AllNew,
                       Merging,
                       Absent, CoreInv, FilesInv
            <4> QED
                BY <4>1, <4>2
        <3> QED
            BY <1>0, <2>1, <3>1 DEF ProcessInv, Process, FolderInv, FolderTypes, CoreInv,
               Merging
    <2> QED
        BY <2>2, <2>3, <2>4
<1> QED
    BY <1>1, <1>2, <1>3 DEF FolderInv

\* The old folder is deleted when all of it is in the new one.
LEMMA DeleteOldKeeps ==
    ASSUME FolderInv, NEW p \in Process, DeleteOld(p)
    PROVE  FolderInv'
<1>0. /\ proc' \in [Process -> Programs]
      /\ \A r \in Process : r # p => proc'[r] = proc[r]
      /\ proc[p].at = "delete" /\ proc'[p].at \in {"delete", "mkdir"}
      /\ proc'[p].todo = proc[p].todo /\ proc'[p].tmp = proc[p].tmp
      /\ proc'[p].file = proc[p].file /\ proc'[p].content = proc[p].content
      /\ proc'[p].again = proc[p].again
      /\ \A f \in File : old'.has[f] \in {old.has[f], Absent}
      /\ old' \in [there : BOOLEAN, has : [File -> Value]]
      /\ \A f \in File : old'.has[f] # Absent => old'.there
      /\ UNCHANGED <<oldApp, ownMutex, new, newest, under, torn, trouble>>
    <2>1. proc' = proc \/ ToStep(p, "mkdir")
        BY DEF DeleteOld
    <2>2. /\ proc' \in [Process -> Programs]
          /\ \A r \in Process : r # p => proc'[r] = proc[r]
          /\ proc'[p].todo = proc[p].todo /\ proc'[p].tmp = proc[p].tmp
          /\ proc'[p].file = proc[p].file /\ proc'[p].content = proc[p].content
          /\ proc'[p].again = proc[p].again
        BY <2>1, StepFacts DEF FolderInv, FolderTypes, Places
    <2>3. /\ proc[p].at = "delete" /\ proc'[p].at \in {"delete", "mkdir"}
        BY DEF FolderInv, FolderTypes, Programs, DeleteOld, ToStep
    <2>4. /\ \A f \in File : old'.has[f] \in {old.has[f], Absent}
        BY DEF FolderInv, FolderTypes, Programs, DeleteOld, Empty, NoFiles
    <2>5. /\ old' \in [there : BOOLEAN, has : [File -> Value]]
        <3>1. Absent \in Value /\ Empty \in [there : BOOLEAN, has : [File -> Value]]
            BY FolderBounds DEF Absent, Value, Empty, NoFiles
        <3> QED
            BY <3>1 DEF FolderInv, FolderTypes, DeleteOld
    <2>6. /\ \A f \in File : old'.has[f] # Absent => old'.there
        BY DEF FolderInv, FolderTypes, Programs, DeleteOld, Empty, NoFiles
    <2>7. /\ UNCHANGED <<oldApp, ownMutex, new, newest, under, torn, trouble>>
        BY DEF DeleteOld, Keeps
    <2> QED
        BY <2>2, <2>3, <2>4, <2>5, <2>6, <2>7
<1>1. FolderTypes'
    BY <1>0 DEF FolderInv, FolderTypes
<1>2. CoreInv'
    BY <1>0 DEF FolderInv, FolderTypes, CoreInv, Process, Merging
<1>3. ASSUME ~under', ~torn' PROVE OldInv' /\ FilesInv' /\ ProcessInv'
    <2>1. OldInv /\ FilesInv /\ ProcessInv /\ ~under /\ ~torn /\ ~oldApp
        BY <1>0, <1>3 DEF FolderInv, OldInv, Moving
    <2>2. OldInv'
        BY <1>0, <2>1 DEF OldInv, Moving, Process
    <2>3. FilesInv'
        <3>1. \A f \in File : /\ old'.has[f] \in {newest'[f], Absent}
                               /\ new'.has[f] \in {newest'[f], Absent, Part, NewOne}
            BY <1>0, <2>1 DEF FolderInv, FolderTypes, FilesInv, AllNew, Absent, Part, NewOne,
               File
        <3>2. ~new'.there => \A f \in File : new'.has[f] = Absent /\ old'.has[f] = newest'[f]
            BY <1>0, <2>1 DEF FolderInv, FolderTypes, FilesInv, AllNew, Absent, Part, NewOne,
               File, CoreInv
        <3>3. (\E f \in File : old'.has[f] # newest'[f]) => AllNew'
            BY <1>0, <2>1 DEF FolderInv, FolderTypes, FilesInv, AllNew, Absent, Part, NewOne,
               File, ProcessInv, Doing
        <3>4. \A f \in File : new'.has[f] = Part =>
                  \E r \in Process : proc'[r].at = "fill" /\ proc'[r].file = f
            BY <1>0, <2>1 DEF FolderInv, FolderTypes, FilesInv, AllNew, Absent, Part, NewOne,
               File
        <3>5. new'.has["keys"] # NewOne
            BY <1>0, <2>1 DEF FolderInv, FolderTypes, FilesInv, AllNew, Absent, Part, NewOne,
               File
        <3>6. new'.has["settings"] = NewOne /\ newest'["settings"] # Absent => trouble' > 0
            BY <1>0, <2>1 DEF FolderInv, FolderTypes, FilesInv, AllNew, Absent, Part, NewOne,
               File
        <3> QED
            BY <3>1, <3>2, <3>3, <3>4, <3>5, <3>6 DEF FilesInv
    <2>4. ProcessInv'
        <3>1. \A r \in Process : Doing(r)'
            BY <1>0, <2>1 DEF FolderInv, FolderTypes, ProcessInv, Doing, AllNew, Merging, Absent
        <3> QED
            BY <1>0, <2>1, <3>1 DEF ProcessInv, Process, FolderInv, FolderTypes, CoreInv,
               Merging, Doing, AllNew, File
    <2> QED
        BY <2>2, <2>3, <2>4
<1> QED
    BY <1>1, <1>2, <1>3 DEF FolderInv

\* A delete that fails leaves the rest of the old folder.
LEMMA DeleteFailsKeeps ==
    ASSUME FolderInv, NEW p \in Process, DeleteFails(p)
    PROVE  FolderInv'
<1>0. /\ proc' \in [Process -> Programs]
      /\ \A r \in Process : r # p => proc'[r] = proc[r]
      /\ proc[p].at = "delete" /\ proc'[p].at = "mkdir"
      /\ proc'[p].todo = proc[p].todo /\ proc'[p].tmp = proc[p].tmp
      /\ proc'[p].file = proc[p].file /\ proc'[p].content = proc[p].content
      /\ proc'[p].again = proc[p].again
      /\ trouble' \in Nat /\ trouble' >= trouble
      /\ UNCHANGED <<oldApp, ownMutex, old, new, newest, under, torn>>
    <2>1. \E to \in Places : ToStep(p, to)
        BY DEF DeleteFails, Places, Moving
    <2>2. /\ proc' \in [Process -> Programs]
          /\ \A r \in Process : r # p => proc'[r] = proc[r]
          /\ proc'[p].todo = proc[p].todo /\ proc'[p].tmp = proc[p].tmp
          /\ proc'[p].file = proc[p].file /\ proc'[p].content = proc[p].content
          /\ proc'[p].again = proc[p].again
        BY <2>1, StepFacts DEF FolderInv
    <2>3. /\ proc[p].at = "delete" /\ proc'[p].at = "mkdir"
        BY DEF FolderInv, FolderTypes, Programs, DeleteFails, ToStep
    <2>4. /\ trouble' \in Nat /\ trouble' >= trouble
        BY DEF FolderInv, FolderTypes, Programs, DeleteFails, Trouble
    <2>5. /\ UNCHANGED <<oldApp, ownMutex, old, new, newest, under, torn>>
        BY DEF DeleteFails, Keeps
    <2> QED
        BY <2>2, <2>3, <2>4, <2>5
<1>1. FolderTypes'
    BY <1>0 DEF FolderInv, FolderTypes
<1>2. CoreInv'
    BY <1>0 DEF FolderInv, FolderTypes, CoreInv, Process, Merging
<1>3. ASSUME ~under', ~torn' PROVE OldInv' /\ FilesInv' /\ ProcessInv'
    <2>1. OldInv /\ FilesInv /\ ProcessInv /\ ~under /\ ~torn /\ ~oldApp
        BY <1>0, <1>3 DEF FolderInv, OldInv, Moving
    <2>2. OldInv'
        BY <1>0, <2>1 DEF OldInv, Moving, Process
    <2>3. FilesInv'
        BY <1>0, <2>1 DEF FolderInv, FolderTypes, FilesInv, AllNew, Absent, Part, NewOne
    <2>4. ProcessInv'
        <3>1. \A r \in Process : Doing(r)'
            BY <1>0, <2>1 DEF FolderInv, FolderTypes, ProcessInv, Doing, AllNew, Merging, Absent
        <3> QED
            BY <1>0, <2>1, <3>1 DEF ProcessInv, Process, FolderInv, FolderTypes, CoreInv,
               Merging, Doing, AllNew, File
    <2> QED
        BY <2>2, <2>3, <2>4
<1> QED
    BY <1>1, <1>2, <1>3 DEF FolderInv

\* A file the new folder has is not merged.
LEMMA MergeCheckKeeps ==
    ASSUME FolderInv, NEW p \in Process, MergeCheck(p)
    PROVE  FolderInv'
<1>0. /\ proc' \in [Process -> Programs]
      /\ \A r \in Process : r # p => proc'[r] = proc[r]
      /\ proc[p].at = "merge" /\ proc'[p].at \in {"merge", "open"}
      /\ proc'[p].tmp = proc[p].tmp /\ proc'[p].content = proc[p].content
      /\ proc'[p].again = proc[p].again
      /\ proc'[p].file \in proc[p].todo /\ proc'[p].todo = proc[p].todo \ {proc'[p].file}
      /\ proc'[p].at = "merge" => new.has[proc'[p].file] # Absent
      /\ UNCHANGED <<oldApp, ownMutex, old, new, newest, under, torn, trouble>>
    <2>1. /\ proc' \in [Process -> Programs]
          /\ \A r \in Process : r # p => proc'[r] = proc[r]
          /\ proc'[p].tmp = proc[p].tmp /\ proc'[p].content = proc[p].content
          /\ proc'[p].again = proc[p].again
        <3>1. PICK f \in proc[p].todo :
                  proc' = [proc EXCEPT ![p].todo = @ \ {f}, ![p].file = f,
                                       ![p].at = IF Has(new, f) THEN "merge" ELSE "open"]
            BY DEF MergeCheck
        <3> DEFINE to == IF Has(new, f) THEN "merge" ELSE "open"
        <3>2. proc' = [proc EXCEPT ![p].todo = @ \ {f}, ![p].file = f, ![p].at = to]
            BY <3>1
        <3>3. to \in Places /\ f \in File
            BY DEF Places, Moving, FolderInv, FolderTypes, Programs
        <3> HIDE DEF to
        <3> DEFINE q == [proc[p] EXCEPT !.todo = @ \ {f}, !.file = f, !.at = to]
        <3>4. proc[p] \in Programs /\ proc' = [proc EXCEPT ![p] = q]
            BY <3>2, <3>3 DEF FolderInv, FolderTypes, Programs
        <3>5. q \in Programs /\ q.tmp = proc[p].tmp /\ q.content = proc[p].content /\ q.again = proc[p].again
            BY <3>2, <3>3, <3>4 DEF Programs
        <3> HIDE DEF q
        <3> QED
            BY <3>4, <3>5 DEF FolderInv, FolderTypes
    <2>2. /\ proc[p].at = "merge" /\ proc'[p].at \in {"merge", "open"}
        BY DEF FolderInv, FolderTypes, Programs, MergeCheck
    <2>3. /\ proc'[p].file \in proc[p].todo /\ proc'[p].todo = proc[p].todo \ {proc'[p].file}
        BY DEF FolderInv, FolderTypes, Programs, MergeCheck
    <2>4. /\ proc'[p].at = "merge" => new.has[proc'[p].file] # Absent
        BY DEF FolderInv, FolderTypes, Programs, MergeCheck, Has
    <2>5. /\ UNCHANGED <<oldApp, ownMutex, old, new, newest, under, torn, trouble>>
        BY DEF MergeCheck, Keeps
    <2> QED
        BY <2>1, <2>2, <2>3, <2>4, <2>5
<1>1. FolderTypes'
    BY <1>0 DEF FolderInv, FolderTypes
<1>2. CoreInv'
    BY <1>0 DEF FolderInv, FolderTypes, CoreInv, Process, Merging
<1>3. ASSUME ~under', ~torn' PROVE OldInv' /\ FilesInv' /\ ProcessInv'
    <2>1. OldInv /\ FilesInv /\ ProcessInv /\ ~under /\ ~torn /\ ~oldApp
        BY <1>0, <1>3 DEF FolderInv, OldInv, Moving
    <2>2. OldInv'
        BY <1>0, <2>1 DEF OldInv, Moving, Process
    <2>3. FilesInv'
        BY <1>0, <2>1 DEF FolderInv, FolderTypes, FilesInv, AllNew, Absent, Part, NewOne
    <2>4. ProcessInv'
        <3>1. \A r \in Process : Doing(r)'
            BY <1>0, <2>1 DEF FolderInv, FolderTypes, ProcessInv, Doing, AllNew, Merging, Absent
        <3> QED
            BY <1>0, <2>1, <3>1 DEF ProcessInv, Process, FolderInv, FolderTypes, CoreInv,
               Merging
    <2> QED
        BY <2>2, <2>3, <2>4
<1> QED
    BY <1>1, <1>2, <1>3 DEF FolderInv

\* settings.json comes after the pairings.
LEMMA MergeSettingsKeeps ==
    ASSUME FolderInv, NEW p \in Process, MergeSettings(p)
    PROVE  FolderInv'
<1>0. /\ proc' \in [Process -> Programs]
      /\ \A r \in Process : r # p => proc'[r] = proc[r]
      /\ proc[p].at = "merge" /\ proc'[p].at \in {"delete", "open"} /\ proc[p].todo = {}
      /\ proc'[p].todo = proc[p].todo /\ proc'[p].tmp = proc[p].tmp
      /\ proc'[p].content = proc[p].content /\ proc'[p].again = proc[p].again
      /\ proc'[p].file = "settings"
      /\ proc'[p].at = "open" => old.has["settings"] # Absent
      /\ proc'[p].at = "delete" => old.has["settings"] = Absent \/ new.has["settings"] # Absent
      /\ UNCHANGED <<oldApp, ownMutex, old, new, newest, under, torn, trouble>>
    <2>1. /\ proc' \in [Process -> Programs]
          /\ \A r \in Process : r # p => proc'[r] = proc[r]
          /\ proc'[p].todo = proc[p].todo /\ proc'[p].tmp = proc[p].tmp
          /\ proc'[p].content = proc[p].content /\ proc'[p].again = proc[p].again
        BY DEF FolderInv, FolderTypes, Programs, MergeSettings, File
    <2>2. /\ proc[p].at = "merge" /\ proc'[p].at \in {"delete", "open"} /\ proc[p].todo = {}
        BY DEF FolderInv, FolderTypes, Programs, MergeSettings, File
    <2>3. /\ proc'[p].file = "settings"
        BY DEF FolderInv, FolderTypes, Programs, MergeSettings, File
    <2>4. /\ proc'[p].at = "open" => old.has["settings"] # Absent
        BY DEF FolderInv, FolderTypes, Programs, MergeSettings, File
    <2>5. /\ proc'[p].at = "delete" => old.has["settings"] = Absent \/ new.has["settings"] # Absent
        BY DEF FolderInv, FolderTypes, Programs, MergeSettings, File
    <2>6. /\ UNCHANGED <<oldApp, ownMutex, old, new, newest, under, torn, trouble>>
        BY DEF MergeSettings, Keeps
    <2> QED
        BY <2>1, <2>2, <2>3, <2>4, <2>5, <2>6
<1>1. FolderTypes'
    BY <1>0 DEF FolderInv, FolderTypes
<1>2. CoreInv'
    BY <1>0 DEF FolderInv, FolderTypes, CoreInv, Process, Merging
<1>3. ASSUME ~under', ~torn' PROVE OldInv' /\ FilesInv' /\ ProcessInv'
    <2>1. OldInv /\ FilesInv /\ ProcessInv /\ ~under /\ ~torn /\ ~oldApp
        BY <1>0, <1>3 DEF FolderInv, OldInv, Moving
    <2>2. OldInv'
        BY <1>0, <2>1 DEF OldInv, Moving, Process
    <2>3. FilesInv'
        BY <1>0, <2>1 DEF FolderInv, FolderTypes, FilesInv, AllNew, Absent, Part, NewOne
    <2>4. ProcessInv'
        <3>1. \A r \in Process : Doing(r)'
            <4>1. Doing(p)'
                BY <1>0, <2>1 DEF FolderInv, FolderTypes, ProcessInv, Doing, AllNew, Merging,
                   Absent, FilesInv, File
            <4>2. ASSUME NEW r \in Process, r # p PROVE Doing(r)'
                <5>1. Doing(r) /\ proc'[r] = proc[r]
                    BY <1>0, <2>1, <4>2 DEF ProcessInv
                <5> QED
                    BY <1>0, <2>1, <4>2, <5>1 DEF FolderInv, FolderTypes, Doing, AllNew,
                       Merging,
                       Absent
            <4> QED
                BY <4>1, <4>2
        <3> QED
            BY <1>0, <2>1, <3>1 DEF ProcessInv, Process, FolderInv, FolderTypes, CoreInv,
               Merging
    <2> QED
        BY <2>2, <2>3, <2>4
<1> QED
    BY <1>1, <1>2, <1>3 DEF FolderInv

\* The part of a file belongs to the process that fills it.
LEMMA MergeOpenKeeps ==
    ASSUME FolderInv, NEW p \in Process, MergeOpen(p)
    PROVE  FolderInv'
<1>0. /\ proc' \in [Process -> Programs]
      /\ \A r \in Process : r # p => proc'[r] = proc[r]
      /\ proc[p].at = "open" /\ proc'[p].at = "fill"
      /\ proc'[p].todo = proc[p].todo /\ proc'[p].tmp = proc[p].tmp
      /\ proc'[p].file = proc[p].file /\ proc'[p].again = proc[p].again
      /\ old.has[proc[p].file] # Absent /\ proc'[p].content = old.has[proc[p].file]
      /\ new' \in NewFolder /\ new'.there = new.there
      /\ \A f \in File : f # proc[p].file => new'.has[f] = new.has[f]
      /\ new'.has[proc[p].file] = Part
      /\ UNCHANGED <<oldApp, ownMutex, old, newest, under, torn, trouble>>
    <2>1. /\ proc' \in [Process -> Programs]
          /\ \A r \in Process : r # p => proc'[r] = proc[r]
          /\ proc'[p].todo = proc[p].todo /\ proc'[p].tmp = proc[p].tmp
          /\ proc'[p].file = proc[p].file /\ proc'[p].again = proc[p].again
        <3>1. old.has[proc[p].file] \in Value
            BY DEF FolderInv, FolderTypes, Programs
        <3> DEFINE c == old.has[proc[p].file]
        <3>2. proc' = [proc EXCEPT ![p].at = "fill", ![p].content = c] /\ "fill" \in Places
            BY DEF MergeOpen, Places, Moving
        <3> HIDE DEF c
        <3> QED
            BY ZenonT(40), <3>1, <3>2 DEF FolderInv, FolderTypes, Programs, c
    <2>2. /\ proc[p].at = "open" /\ proc'[p].at = "fill"
        BY DEF FolderInv, FolderTypes, Programs, MergeOpen, Part
    <2>3. /\ old.has[proc[p].file] # Absent /\ proc'[p].content = old.has[proc[p].file]
        BY DEF FolderInv, FolderTypes, Programs, MergeOpen, Has, Part
    <2>4. /\ new' \in NewFolder /\ new'.there = new.there
        BY FolderBounds DEF FolderInv, FolderTypes, Programs, Places, Moving, Keeps, MergeOpen,
           NewFolder, Part, NewOne, Value
    <2>5. /\ \A f \in File : f # proc[p].file => new'.has[f] = new.has[f]
        BY DEF FolderInv, FolderTypes, Programs, MergeOpen, Part
    <2>6. /\ new'.has[proc[p].file] = Part
        BY DEF FolderInv, FolderTypes, Programs, MergeOpen, NewFolder, Part
    <2>7. /\ UNCHANGED <<oldApp, ownMutex, old, newest, under, torn, trouble>>
        BY DEF MergeOpen, Keeps
    <2> QED
        BY <2>1, <2>2, <2>3, <2>4, <2>5, <2>6, <2>7
<1>1. FolderTypes'
    BY <1>0 DEF FolderInv, FolderTypes
<1>2. CoreInv'
    BY <1>0 DEF FolderInv, FolderTypes, CoreInv, Process, Merging
<1>3. ASSUME ~under', ~torn' PROVE OldInv' /\ FilesInv' /\ ProcessInv'
    <2>1. OldInv /\ FilesInv /\ ProcessInv /\ ~under /\ ~torn /\ ~oldApp
        BY <1>0, <1>3 DEF FolderInv, OldInv, Moving
    <2>2. OldInv'
        BY <1>0, <2>1 DEF OldInv, Moving, Process
    <2>3. FilesInv'
        <3>1. \A f \in File : /\ old'.has[f] \in {newest'[f], Absent}
                               /\ new'.has[f] \in {newest'[f], Absent, Part, NewOne}
            BY <1>0, <2>1 DEF FolderInv, FolderTypes, FilesInv, AllNew, Absent, Part, NewOne,
               File
        <3>2. ~new'.there => \A f \in File : new'.has[f] = Absent /\ old'.has[f] = newest'[f]
            BY <1>0, <2>1 DEF FolderInv, FolderTypes, FilesInv, AllNew, Absent, Part, NewOne,
               File, CoreInv, Merging
        <3>3. (\E f \in File : old'.has[f] # newest'[f]) => AllNew'
            BY <1>0, <2>1 DEF FolderInv, FolderTypes, FilesInv, AllNew, Absent, Part, NewOne,
               File
        <3>4. \A f \in File : new'.has[f] = Part =>
                  \E r \in Process : proc'[r].at = "fill" /\ proc'[r].file = f
            BY <1>0, <2>1 DEF FolderInv, FolderTypes, FilesInv, AllNew, Absent, Part, NewOne,
               File
        <3>5. new'.has["keys"] # NewOne
            BY <1>0, <2>1 DEF FolderInv, FolderTypes, FilesInv, AllNew, Absent, Part, NewOne,
               File
        <3>6. new'.has["settings"] = NewOne /\ newest'["settings"] # Absent => trouble' > 0
            BY <1>0, <2>1 DEF FolderInv, FolderTypes, FilesInv, AllNew, Absent, Part, NewOne,
               File
        <3> QED
            BY <3>1, <3>2, <3>3, <3>4, <3>5, <3>6 DEF FilesInv
    <2>4. ProcessInv'
        <3>1. \A r \in Process : Doing(r)'
            <4>0. /\ proc[p].file \in File /\ new'.has[proc[p].file] # Absent
                  /\ \A f \in File : new.has[f] # Absent => new'.has[f] # Absent
                  /\ "keys" \in File /\ \A r \in Process : proc[r].file \in File
                BY <1>0 DEF FolderInv, FolderTypes, Programs, Part, Absent, File
            <4>1. Doing(p)'
                <5>1. Doing(p) /\ proc'[p].content = newest[proc[p].file]
                    BY <1>0, <2>1, <4>0 DEF ProcessInv, FilesInv
                <5> QED
                    BY <1>0, <4>0, <5>1 DEF Doing, Merging
            <4>2. ASSUME NEW r \in Process, r # p PROVE Doing(r)'
                <5>1. Doing(r) /\ proc'[r] = proc[r]
                    BY <1>0, <2>1, <4>2 DEF ProcessInv
                <5> QED
                    BY <1>0, <4>0, <5>1 DEF Doing, AllNew, Merging
            <4> QED
                BY <4>1, <4>2
        <3> QED
            BY <1>0, <2>1, <3>1 DEF ProcessInv, Process, FolderInv, FolderTypes, CoreInv,
               Merging, File, Absent, Part
    <2> QED
        BY <2>2, <2>3, <2>4
<1> QED
    BY <1>1, <1>2, <1>3 DEF FolderInv

\* The file is complete; after settings.json nothing is missing.
LEMMA MergeFillKeeps ==
    ASSUME FolderInv, NEW p \in Process, MergeFill(p)
    PROVE  FolderInv'
<1>0. /\ proc' \in [Process -> Programs]
      /\ \A r \in Process : r # p => proc'[r] = proc[r]
      /\ proc[p].at = "fill" /\ proc'[p].at \in {"merge", "delete"}
      /\ proc'[p].todo = proc[p].todo /\ proc'[p].tmp = proc[p].tmp
      /\ proc'[p].file = proc[p].file /\ proc'[p].content = proc[p].content
      /\ proc'[p].again = proc[p].again
      /\ proc'[p].at = "delete" <=> proc[p].file = "settings"
      /\ new' \in NewFolder /\ new'.there = new.there
      /\ \A f \in File : f # proc[p].file => new'.has[f] = new.has[f]
      /\ new'.has[proc[p].file] = proc[p].content
      /\ UNCHANGED <<oldApp, ownMutex, old, newest, under, torn, trouble>>
    <2>1. \E to \in Places : ToStep(p, to)
        BY DEF MergeFill, Places, Moving
    <2>2. /\ proc' \in [Process -> Programs]
          /\ \A r \in Process : r # p => proc'[r] = proc[r]
          /\ proc'[p].todo = proc[p].todo /\ proc'[p].tmp = proc[p].tmp
          /\ proc'[p].file = proc[p].file /\ proc'[p].content = proc[p].content
          /\ proc'[p].again = proc[p].again
        BY <2>1, StepFacts DEF FolderInv
    <2>3. /\ proc[p].at = "fill" /\ proc'[p].at \in {"merge", "delete"}
        BY DEF FolderInv, FolderTypes, Programs, MergeFill, ToStep
    <2>4. /\ proc'[p].at = "delete" <=> proc[p].file = "settings"
        BY DEF FolderInv, FolderTypes, Programs, MergeFill, ToStep
    <2>5. /\ new' \in NewFolder /\ new'.there = new.there
        <3>1. proc[p].content \in NewOne .. MaxWrites + 1 /\ proc[p].file \in File
            BY DEF FolderInv, FolderTypes, Programs, NewOne, Value
        <3> QED
            BY <3>1 DEF FolderInv, FolderTypes, MergeFill, NewFolder
    <2>6. /\ \A f \in File : f # proc[p].file => new'.has[f] = new.has[f]
        BY DEF FolderInv, FolderTypes, Programs, MergeFill
    <2>7. /\ new'.has[proc[p].file] = proc[p].content
        BY DEF FolderInv, FolderTypes, Programs, MergeFill, NewFolder
    <2>8. /\ UNCHANGED <<oldApp, ownMutex, old, newest, under, torn, trouble>>
        BY DEF MergeFill, Keeps
    <2> QED
        BY <2>2, <2>3, <2>4, <2>5, <2>6, <2>7, <2>8
<1>1. FolderTypes'
    BY <1>0 DEF FolderInv, FolderTypes
<1>2. CoreInv'
    BY <1>0 DEF FolderInv, FolderTypes, CoreInv, Process, Merging
<1>3. ASSUME ~under', ~torn' PROVE OldInv' /\ FilesInv' /\ ProcessInv'
    <2>1. OldInv /\ FilesInv /\ ProcessInv /\ ~under /\ ~torn /\ ~oldApp
        BY <1>0, <1>3 DEF FolderInv, OldInv, Moving
    <2>2. OldInv'
        BY <1>0, <2>1 DEF OldInv, Moving, Process
    <2>3. FilesInv'
        <3>1. \A f \in File : /\ old'.has[f] \in {newest'[f], Absent}
                               /\ new'.has[f] \in {newest'[f], Absent, Part, NewOne}
            BY <1>0, <2>1 DEF FolderInv, FolderTypes, FilesInv, AllNew, Absent, Part, NewOne,
               File, ProcessInv, Doing
        <3>2. ~new'.there => \A f \in File : new'.has[f] = Absent /\ old'.has[f] = newest'[f]
            BY <1>0, <2>1 DEF FolderInv, FolderTypes, FilesInv, AllNew, Absent, Part, NewOne,
               File, CoreInv, Merging
        <3>3. (\E f \in File : old'.has[f] # newest'[f]) => AllNew'
            BY <1>0, <2>1 DEF FolderInv, FolderTypes, FilesInv, AllNew, Absent, Part, NewOne,
               File, ProcessInv, Doing
        <3>4. \A f \in File : new'.has[f] = Part =>
                  \E r \in Process : proc'[r].at = "fill" /\ proc'[r].file = f
            <4>1. new'.has[proc[p].file] # Part
                BY <1>0 DEF FolderInv, FolderTypes, Part, Value, Programs
            <4> QED
                BY <1>0, <2>1, <4>1 DEF FilesInv
        <3>5. new'.has["keys"] # NewOne
            BY <1>0, <2>1 DEF FolderInv, FolderTypes, FilesInv, NewOne, File, Value, Programs
        <3>6. new'.has["settings"] = NewOne /\ newest'["settings"] # Absent => trouble' > 0
            BY <1>0, <2>1 DEF FolderInv, FolderTypes, FilesInv, NewOne, File, Value, Programs
        <3> QED
            BY <3>1, <3>2, <3>3, <3>4, <3>5, <3>6 DEF FilesInv
    <2>4. ProcessInv'
        <3>1. \A r \in Process : Doing(r)'
            <4>1. Doing(p)'
                BY <1>0, <2>1 DEF FolderInv, FolderTypes, ProcessInv, Doing, AllNew, Merging,
                   Absent, FilesInv, File, Programs
            <4>2. ASSUME NEW r \in Process, r # p PROVE Doing(r)'
                <5>1. Doing(r) /\ proc'[r] = proc[r]
                    BY <1>0, <2>1, <4>2 DEF ProcessInv
                <5> QED
                    BY <1>0, <2>1, <4>2, <5>1 DEF FolderInv, FolderTypes, Doing, AllNew,
                       Merging,
                       Absent, ProcessInv, File, Programs
            <4> QED
                BY <4>1, <4>2
        <3> QED
            BY <1>0, <2>1, <3>1 DEF ProcessInv, Doing, Process, FolderInv, FolderTypes, CoreInv,
               Merging, File
    <2> QED
        BY <2>2, <2>3, <2>4
<1> QED
    BY <1>1, <1>2, <1>3 DEF FolderInv

\* Only a merge that fails at the first step leaves no part.
LEMMA MergeFailsKeeps ==
    ASSUME FolderInv, NEW p \in Process, MergeFails(p)
    PROVE  FolderInv'
<1>0. /\ proc' \in [Process -> Programs]
      /\ \A r \in Process : r # p => proc'[r] = proc[r]
      /\ proc[p].at \in {"open", "fill"} /\ proc'[p].at = "mkdir"
      /\ proc'[p].todo = proc[p].todo /\ proc'[p].tmp = proc[p].tmp
      /\ proc'[p].file = proc[p].file /\ proc'[p].content = proc[p].content
      /\ proc'[p].again = proc[p].again
      /\ new' \in NewFolder /\ new'.there = new.there
      /\ proc[p].at = "open" => new' = new
      /\ torn' \in BOOLEAN /\ (torn => torn') /\ (proc[p].at = "fill" => torn')
      /\ proc[p].at = "open" => old.has[proc[p].file] = Absent \/ trouble' > 0
      /\ trouble' \in Nat /\ trouble' >= trouble
      /\ UNCHANGED <<oldApp, ownMutex, old, newest, under>>
    <2>1. \E to \in Places : ToStep(p, to)
        BY DEF MergeFails, Places, Moving
    <2>2. /\ proc' \in [Process -> Programs]
          /\ \A r \in Process : r # p => proc'[r] = proc[r]
          /\ proc'[p].todo = proc[p].todo /\ proc'[p].tmp = proc[p].tmp
          /\ proc'[p].file = proc[p].file /\ proc'[p].content = proc[p].content
          /\ proc'[p].again = proc[p].again
        BY <2>1, StepFacts DEF FolderInv
    <2>3. /\ proc[p].at \in {"open", "fill"} /\ proc'[p].at = "mkdir"
        BY DEF FolderInv, FolderTypes, Programs, MergeFails, ToStep
    <2>4. /\ new' \in NewFolder /\ new'.there = new.there
        <3>1. Absent \in NewOne .. MaxWrites + 1 /\ proc[p].file \in File
            BY FolderBounds DEF FolderInv, FolderTypes, Programs, NewOne, Absent
        <3> QED
            BY <3>1 DEF FolderInv, FolderTypes, MergeFails, NewFolder
    <2>5. /\ proc[p].at = "open" => new' = new
        BY DEF FolderInv, FolderTypes, Programs, MergeFails
    <2>6. /\ torn' \in BOOLEAN /\ (torn => torn') /\ (proc[p].at = "fill" => torn')
        BY DEF FolderInv, FolderTypes, Programs, MergeFails
    <2>7. /\ proc[p].at = "open" => old.has[proc[p].file] = Absent \/ trouble' > 0
        BY DEF FolderInv, FolderTypes, Programs, MergeFails, Trouble, Has
    <2>8. /\ trouble' \in Nat /\ trouble' >= trouble
        BY DEF FolderInv, FolderTypes, Programs, MergeFails, Trouble
    <2>9. /\ UNCHANGED <<oldApp, ownMutex, old, newest, under>>
        BY DEF MergeFails, Keeps
    <2> QED
        BY <2>2, <2>3, <2>4, <2>5, <2>6, <2>7, <2>8, <2>9
<1>1. FolderTypes'
    BY <1>0 DEF FolderInv, FolderTypes
<1>2. CoreInv'
    BY <1>0 DEF FolderInv, FolderTypes, CoreInv, Process, Merging
<1>3. ASSUME ~under', ~torn' PROVE OldInv' /\ FilesInv' /\ ProcessInv'
    <2>1. OldInv /\ FilesInv /\ ProcessInv /\ ~under /\ ~torn /\ ~oldApp /\ proc[p].at = "open" /\ new' = new
        BY <1>0, <1>3 DEF FolderInv, OldInv, Moving
    <2>2. OldInv'
        BY <1>0, <2>1 DEF OldInv, Moving, Process
    <2>3. FilesInv'
        <3>1. \A f \in File : /\ old'.has[f] \in {newest'[f], Absent}
                               /\ new'.has[f] \in {newest'[f], Absent, Part, NewOne}
            BY <1>0, <2>1 DEF FolderInv, FolderTypes, FilesInv, AllNew, Absent, Part, NewOne,
               File
        <3>2. ~new'.there => \A f \in File : new'.has[f] = Absent /\ old'.has[f] = newest'[f]
            BY <1>0, <2>1 DEF FolderInv, FolderTypes, FilesInv, AllNew, Absent, Part, NewOne,
               File
        <3>3. (\E f \in File : old'.has[f] # newest'[f]) => AllNew'
            BY <1>0, <2>1 DEF FolderInv, FolderTypes, FilesInv, AllNew, Absent, Part, NewOne,
               File
        <3>4. \A f \in File : new'.has[f] = Part =>
                  \E r \in Process : proc'[r].at = "fill" /\ proc'[r].file = f
            BY <1>0, <2>1 DEF FolderInv, FolderTypes, FilesInv, AllNew, Absent, Part, NewOne,
               File
        <3>5. new'.has["keys"] # NewOne
            BY <1>0, <2>1 DEF FolderInv, FolderTypes, FilesInv, AllNew, Absent, Part, NewOne,
               File
        <3>6. new'.has["settings"] = NewOne /\ newest'["settings"] # Absent => trouble' > 0
            BY <1>0, <2>1 DEF FolderInv, FolderTypes, FilesInv, AllNew, Absent, Part, NewOne,
               File
        <3> QED
            BY <3>1, <3>2, <3>3, <3>4, <3>5, <3>6 DEF FilesInv
    <2>4. ProcessInv'
        <3>1. \A r \in Process : Doing(r)'
            <4>1. Doing(p)'
                BY <1>0, <2>1 DEF FolderInv, FolderTypes, ProcessInv, Doing, AllNew, Merging,
                   Absent
            <4>2. ASSUME NEW r \in Process, r # p PROVE Doing(r)'
                <5>1. Doing(r) /\ proc'[r] = proc[r]
                    BY <1>0, <2>1, <4>2 DEF ProcessInv
                <5> QED
                    BY <1>0, <2>1, <4>2, <5>1 DEF FolderInv, FolderTypes, Doing, AllNew,
                       Merging,
                       Absent
            <4> QED
                BY <4>1, <4>2
        <3> QED
            BY SMTT(30), <1>0, <2>1, <3>1 DEF ProcessInv, Process, FolderInv, FolderTypes, CoreInv,
               Merging, FilesInv, Doing, AllNew, File, Programs
    <2> QED
        BY <2>2, <2>3, <2>4
<1> QED
    BY <1>1, <1>2, <1>3 DEF FolderInv

\* config_dir makes the folder, and leaves the files in it.
LEMMA MakeDirKeeps ==
    ASSUME FolderInv, NEW p \in Process, MakeDir(p)
    PROVE  FolderInv'
<1>0. /\ proc' \in [Process -> Programs]
      /\ \A r \in Process : r # p => proc'[r] = proc[r]
      /\ proc[p].at = "mkdir" /\ proc'[p].at \in {"up", "run", "service"}
      /\ proc'[p].todo = proc[p].todo /\ proc'[p].tmp = proc[p].tmp
      /\ proc'[p].file = proc[p].file /\ proc'[p].content = proc[p].content
      /\ proc'[p].again = proc[p].again
      /\ p = "ui" => proc'[p].at = "up"
      /\ p = "core" => proc'[p].at = IF proc[p].again = TRUE THEN "service" ELSE "run"
      /\ new' \in NewFolder /\ new'.there = TRUE /\ new'.has = new.has
      /\ UNCHANGED <<oldApp, ownMutex, old, newest, under, torn, trouble>>
    <2>1. \E to \in Places : ToStep(p, to)
        BY DEF MakeDir, Places, Moving
    <2>2. /\ proc' \in [Process -> Programs]
          /\ \A r \in Process : r # p => proc'[r] = proc[r]
          /\ proc'[p].todo = proc[p].todo /\ proc'[p].tmp = proc[p].tmp
          /\ proc'[p].file = proc[p].file /\ proc'[p].content = proc[p].content
          /\ proc'[p].again = proc[p].again
        BY <2>1, StepFacts DEF FolderInv
    <2>3. /\ proc[p].at = "mkdir" /\ proc'[p].at \in {"up", "run", "service"}
        BY DEF FolderInv, FolderTypes, Programs, MakeDir, ToStep
    <2>4. /\ p = "ui" => proc'[p].at = "up"
        BY DEF FolderInv, FolderTypes, Programs, MakeDir, ToStep
    <2>5. /\ p = "core" => proc'[p].at = IF proc[p].again = TRUE THEN "service" ELSE "run"
        BY DEF FolderInv, FolderTypes, Programs, MakeDir, ToStep
    <2>6. /\ new' \in NewFolder /\ new'.there = TRUE /\ new'.has = new.has
        BY DEF FolderInv, FolderTypes, Programs, MakeDir, NewFolder
    <2>7. /\ UNCHANGED <<oldApp, ownMutex, old, newest, under, torn, trouble>>
        BY DEF MakeDir, Keeps
    <2> QED
        BY <2>2, <2>3, <2>4, <2>5, <2>6, <2>7
<1>1. FolderTypes'
    BY <1>0 DEF FolderInv, FolderTypes
<1>2. CoreInv'
    BY <1>0 DEF FolderInv, FolderTypes, CoreInv, Process, Merging
<1>3. ASSUME ~under', ~torn' PROVE OldInv' /\ FilesInv' /\ ProcessInv'
    <2>1. OldInv /\ FilesInv /\ ProcessInv /\ ~under /\ ~torn
        BY <1>0, <1>3 DEF FolderInv
    <2>2. OldInv'
        BY <1>0, <2>1 DEF OldInv, Moving, Process
    <2>3. FilesInv'
        BY <1>0, <2>1 DEF FolderInv, FolderTypes, FilesInv, AllNew, Absent, Part, NewOne
    <2>4. ProcessInv'
        <3>1. \A r \in Process : Doing(r)'
            BY <1>0, <2>1 DEF FolderInv, FolderTypes, ProcessInv, Doing, AllNew, Merging, Absent
        <3> QED
            BY <1>0, <2>1, <3>1 DEF ProcessInv, Process, FolderInv, FolderTypes, CoreInv,
               Merging
    <2> QED
        BY <2>2, <2>3, <2>4
<1> QED
    BY <1>1, <1>2, <1>3 DEF FolderInv

\* The core takes its mutex when it has made the folder.
LEMMA TakeMutexKeeps ==
    ASSUME FolderInv, TakeMutex
    PROVE  FolderInv'
<1>0. /\ proc' \in [Process -> Programs]
      /\ \A r \in Process : r # "core" => proc'[r] = proc[r]
      /\ proc["core"].at = "run" /\ proc'["core"].at = "replace"
      /\ proc'["core"].todo = proc["core"].todo /\ proc'["core"].tmp = proc["core"].tmp
      /\ proc'["core"].file = proc["core"].file /\ proc'["core"].content = proc["core"].content
      /\ proc'["core"].again = proc["core"].again
      /\ ownMutex' = TRUE /\ ownMutex = FALSE
      /\ UNCHANGED <<oldApp, old, new, newest, under, torn, trouble>>
    <2>1. \E to \in Places : ToStep("core", to)
        BY DEF TakeMutex, Places, Moving
    <2>2. /\ proc' \in [Process -> Programs]
          /\ \A r \in Process : r # "core" => proc'[r] = proc[r]
          /\ proc'["core"].todo = proc["core"].todo /\ proc'["core"].tmp = proc["core"].tmp
          /\ proc'["core"].file = proc["core"].file
          /\ proc'["core"].content = proc["core"].content
          /\ proc'["core"].again = proc["core"].again
        BY <2>1, StepFacts DEF FolderInv, Process
    <2>3. /\ proc["core"].at = "run" /\ proc'["core"].at = "replace"
        BY DEF FolderInv, FolderTypes, Programs, TakeMutex, ToStep, Process
    <2>4. /\ ownMutex' = TRUE /\ ownMutex = FALSE
        BY DEF FolderInv, FolderTypes, Programs, TakeMutex
    <2>5. /\ UNCHANGED <<oldApp, old, new, newest, under, torn, trouble>>
        BY DEF TakeMutex, Keeps
    <2> QED
        BY <2>2, <2>3, <2>4, <2>5
<1>1. FolderTypes'
    BY <1>0 DEF FolderInv, FolderTypes
<1>2. CoreInv'
    BY <1>0 DEF FolderInv, FolderTypes, CoreInv, Process, Merging
<1>3. ASSUME ~under', ~torn' PROVE OldInv' /\ FilesInv' /\ ProcessInv'
    <2>1. OldInv /\ FilesInv /\ ProcessInv /\ ~under /\ ~torn
        BY <1>0, <1>3 DEF FolderInv
    <2>2. OldInv'
        BY <1>0, <2>1 DEF OldInv, Moving, Process
    <2>3. FilesInv'
        BY <1>0, <2>1 DEF FolderInv, FolderTypes, FilesInv, AllNew, Absent, Part, NewOne
    <2>4. ProcessInv'
        <3>1. \A r \in Process : Doing(r)'
            BY <1>0, <2>1 DEF FolderInv, FolderTypes, ProcessInv, Doing, AllNew, Merging, Absent
        <3> QED
            BY <1>0, <2>1, <3>1 DEF ProcessInv, Process, FolderInv, FolderTypes, CoreInv,
               Merging
    <2> QED
        BY <2>2, <2>3, <2>4
<1> QED
    BY <1>1, <1>2, <1>3 DEF FolderInv

\* The core looks again once the old programs have stopped.
LEMMA ReplaceOldKeeps ==
    ASSUME FolderInv, ReplaceOld
    PROVE  FolderInv'
<1>0. /\ proc' \in [Process -> Programs]
      /\ \A r \in Process : r # "core" => proc'[r] = proc[r]
      /\ proc["core"].at = "replace" /\ proc'["core"].at = "check"
      /\ proc'["core"].todo = proc["core"].todo /\ proc'["core"].tmp = proc["core"].tmp
      /\ proc'["core"].file = proc["core"].file /\ proc'["core"].content = proc["core"].content
      /\ proc'["core"].again = TRUE
      /\ UNCHANGED <<oldApp, ownMutex, old, new, newest, under, torn, trouble>>
    <2>1. /\ proc' \in [Process -> Programs]
          /\ \A r \in Process : r # "core" => proc'[r] = proc[r]
        <3>1. proc' = [proc EXCEPT !["core"] = [proc["core"] EXCEPT !.at = "check", !.again = TRUE]]
            BY DEF ReplaceOld, FolderInv, FolderTypes, Programs, Process
        <3>2. [proc["core"] EXCEPT !.at = "check", !.again = TRUE] \in Programs
            BY ZenonT(40) DEF FolderInv, FolderTypes, Programs, Process, Places
        <3> QED
            BY <3>1, <3>2 DEF FolderInv, FolderTypes
    <2>2. /\ proc["core"].at = "replace" /\ proc'["core"].at = "check"
        BY DEF FolderInv, FolderTypes, Programs, ReplaceOld, Process
    <2>3. /\ proc'["core"].todo = proc["core"].todo /\ proc'["core"].tmp = proc["core"].tmp /\ proc'["core"].file = proc["core"].file /\ proc'["core"].content = proc["core"].content
        BY ZenonT(40) DEF FolderInv, FolderTypes, Programs, ReplaceOld
    <2>4. /\ proc'["core"].again = TRUE
        BY DEF FolderInv, FolderTypes, Programs, ReplaceOld, Process
    <2>5. /\ UNCHANGED <<oldApp, ownMutex, old, new, newest, under, torn, trouble>>
        BY DEF ReplaceOld, Keeps
    <2> QED
        BY <2>1, <2>2, <2>3, <2>4, <2>5
<1>1. FolderTypes'
    BY <1>0 DEF FolderInv, FolderTypes
<1>2. CoreInv'
    BY <1>0 DEF FolderInv, FolderTypes, CoreInv, Process, Merging
<1>3. ASSUME ~under', ~torn' PROVE OldInv' /\ FilesInv' /\ ProcessInv'
    <2>1. OldInv /\ FilesInv /\ ProcessInv /\ ~under /\ ~torn
        BY <1>0, <1>3 DEF FolderInv
    <2>2. OldInv'
        BY <1>0, <2>1 DEF OldInv, Moving, Process
    <2>3. FilesInv'
        BY <1>0, <2>1 DEF FolderInv, FolderTypes, FilesInv, AllNew, Absent, Part, NewOne
    <2>4. ProcessInv'
        <3>1. \A r \in Process : Doing(r)'
            BY <1>0, <2>1 DEF FolderInv, FolderTypes, ProcessInv, Doing, AllNew, Merging, Absent
        <3> QED
            BY <1>0, <2>1, <3>1 DEF ProcessInv, Process, FolderInv, FolderTypes, CoreInv,
               Merging
    <2> QED
        BY <2>2, <2>3, <2>4
<1> QED
    BY <1>1, <1>2, <1>3 DEF FolderInv

\* The core saves settings of its own only where the old ones were not
\* brought over.
LEMMA SaveOwnKeeps ==
    ASSUME FolderInv, SaveOwn
    PROVE  FolderInv'
<1>0. /\ proc' \in [Process -> Programs]
      /\ \A r \in Process : r # "core" => proc'[r] = proc[r]
      /\ proc["core"].at = "service" /\ proc'["core"].at = "up"
      /\ proc'["core"].todo = proc["core"].todo /\ proc'["core"].tmp = proc["core"].tmp
      /\ proc'["core"].file = proc["core"].file /\ proc'["core"].content = proc["core"].content
      /\ proc'["core"].again = proc["core"].again
      /\ new' \in NewFolder /\ new'.there = new.there /\ new'.has["keys"] = new.has["keys"]
      /\ new'.has["settings"] = IF new.has["settings"] = Absent THEN NewOne ELSE new.has["settings"]
      /\ UNCHANGED <<oldApp, ownMutex, old, newest, under, torn, trouble>>
    <2>1. \E to \in Places : ToStep("core", to)
        BY DEF SaveOwn, Places, Moving
    <2>2. /\ proc' \in [Process -> Programs]
          /\ \A r \in Process : r # "core" => proc'[r] = proc[r]
          /\ proc'["core"].todo = proc["core"].todo /\ proc'["core"].tmp = proc["core"].tmp
          /\ proc'["core"].file = proc["core"].file
          /\ proc'["core"].content = proc["core"].content
          /\ proc'["core"].again = proc["core"].again
        BY <2>1, StepFacts DEF FolderInv, Process
    <2>3. /\ proc["core"].at = "service" /\ proc'["core"].at = "up"
        BY DEF FolderInv, FolderTypes, Programs, SaveOwn, ToStep, Process, File
    <2>4. /\ new' \in NewFolder /\ new'.there = new.there /\ new'.has["keys"] = new.has["keys"]
        BY FolderBounds DEF FolderInv, FolderTypes, Programs, Places, Moving, Keeps, SaveOwn,
           File, NewFolder, NewOne
    <2>5. /\ new'.has["settings"] = IF new.has["settings"] = Absent THEN NewOne ELSE new.has["settings"]
        BY DEF FolderInv, FolderTypes, Programs, SaveOwn, File, NewFolder
    <2>6. /\ UNCHANGED <<oldApp, ownMutex, old, newest, under, torn, trouble>>
        BY DEF SaveOwn, Keeps
    <2> QED
        BY <2>2, <2>3, <2>4, <2>5, <2>6
<1>1. FolderTypes'
    BY <1>0 DEF FolderInv, FolderTypes
<1>2. CoreInv'
    BY <1>0 DEF FolderInv, FolderTypes, CoreInv, Process, Merging
<1>3. ASSUME ~under', ~torn' PROVE OldInv' /\ FilesInv' /\ ProcessInv'
    <2>1. OldInv /\ FilesInv /\ ProcessInv /\ ~under /\ ~torn
        BY <1>0, <1>3 DEF FolderInv
    <2>2. OldInv'
        BY <1>0, <2>1 DEF OldInv, Moving, Process, FolderInv, CoreInv, FolderTypes
    <2>3. FilesInv'
        <3>1. \A f \in File : /\ old'.has[f] \in {newest'[f], Absent}
                               /\ new'.has[f] \in {newest'[f], Absent, Part, NewOne}
            BY <1>0, <2>1 DEF FolderInv, FolderTypes, FilesInv, AllNew, Absent, Part, NewOne,
               File
        <3>2. ~new'.there => \A f \in File : new'.has[f] = Absent /\ old'.has[f] = newest'[f]
            BY <1>0, <2>1 DEF FolderInv, FolderTypes, FilesInv, AllNew, Absent, Part, NewOne,
               File, CoreInv, Process
        <3>3. (\E f \in File : old'.has[f] # newest'[f]) => AllNew'
            BY <1>0, <2>1 DEF FolderInv, FolderTypes, FilesInv, AllNew, Absent, Part, NewOne,
               File
        <3>4. \A f \in File : new'.has[f] = Part =>
                  \E r \in Process : proc'[r].at = "fill" /\ proc'[r].file = f
            BY <1>0, <2>1 DEF FolderInv, FolderTypes, FilesInv, AllNew, Absent, Part, NewOne,
               File
        <3>5. new'.has["keys"] # NewOne
            BY <1>0, <2>1 DEF FolderInv, FolderTypes, FilesInv, AllNew, Absent, Part, NewOne,
               File
        <3>6. new'.has["settings"] = NewOne /\ newest'["settings"] # Absent => trouble' > 0
            BY <1>0, <2>1 DEF FolderInv, FolderTypes, FilesInv, AllNew, Absent, Part, NewOne,
               File, ProcessInv, CoreInv, Process
        <3> QED
            BY <3>1, <3>2, <3>3, <3>4, <3>5, <3>6 DEF FilesInv
    <2>4. ProcessInv'
        <3>1. \A r \in Process : Doing(r)'
            <4>1. Doing("core")'
                BY <1>0, <2>1 DEF FolderInv, FolderTypes, ProcessInv, Doing, AllNew, Merging,
                   Absent
            <4>2. ASSUME NEW r \in Process, r # "core" PROVE Doing(r)'
                <5>1. Doing(r) /\ proc'[r] = proc[r]
                    BY <1>0, <2>1, <4>2 DEF ProcessInv
                <5> QED
                    BY <1>0, <2>1, <4>2, <5>1 DEF FolderInv, FolderTypes, Doing, AllNew,
                       Merging,
                       Absent, File, NewOne, Programs
            <4> QED
                BY <4>1, <4>2
        <3> QED
            BY <1>0, <2>1, <3>1 DEF ProcessInv, Process, FolderInv, FolderTypes, CoreInv,
               Merging
    <2> QED
        BY <2>2, <2>3, <2>4
<1> QED
    BY <1>1, <1>2, <1>3 DEF FolderInv

\* A process that ends in the midst of a file leaves it torn.
LEMMA ProcessEndsKeeps ==
    ASSUME FolderInv, NEW p \in Process, ProcessEnds(p)
    PROVE  FolderInv'
<1>0. /\ proc' \in [Process -> Programs]
      /\ \A r \in Process : r # p => proc'[r] = proc[r]
      /\ proc[p].at # "off" /\ proc'[p].at = "off" /\ proc'[p].again = FALSE
      /\ ownMutex' \in BOOLEAN /\ (ownMutex' => ownMutex) /\ (p = "core" => ~ownMutex') /\ (p = "ui" => ownMutex' = ownMutex)
      /\ torn' \in BOOLEAN /\ (torn => torn') /\ (proc[p].at = "fill" => torn')
      /\ trouble' \in Nat /\ trouble' >= trouble
      /\ UNCHANGED <<oldApp, old, new, newest, under>>
    <2>1. /\ proc' \in [Process -> Programs]
          /\ \A r \in Process : r # p => proc'[r] = proc[r]
        BY IdleTyped DEF FolderInv, FolderTypes, Programs, ProcessEnds
    <2>2. /\ proc[p].at # "off" /\ proc'[p].at = "off" /\ proc'[p].again = FALSE
        BY IdleTyped DEF FolderInv, FolderTypes, Programs, Idle, ProcessEnds
    <2>3. /\ ownMutex' \in BOOLEAN /\ (ownMutex' => ownMutex) /\ (p = "core" => ~ownMutex') /\ (p = "ui" => ownMutex' = ownMutex)
        BY IdleTyped DEF FolderInv, FolderTypes, Programs, ProcessEnds
    <2>4. /\ torn' \in BOOLEAN /\ (torn => torn') /\ (proc[p].at = "fill" => torn')
        BY IdleTyped DEF FolderInv, FolderTypes, Programs, ProcessEnds
    <2>5. /\ trouble' \in Nat /\ trouble' >= trouble
        BY IdleTyped DEF FolderInv, FolderTypes, Programs, ProcessEnds, Trouble
    <2>6. /\ UNCHANGED <<oldApp, old, new, newest, under>>
        BY DEF ProcessEnds, Keeps
    <2> QED
        BY <2>1, <2>2, <2>3, <2>4, <2>5, <2>6
<1>1. FolderTypes'
    BY <1>0 DEF FolderInv, FolderTypes
<1>2. CoreInv'
    BY <1>0 DEF FolderInv, FolderTypes, CoreInv, Process, Merging
<1>3. ASSUME ~under', ~torn' PROVE OldInv' /\ FilesInv' /\ ProcessInv'
    <2>1. OldInv /\ FilesInv /\ ProcessInv /\ ~under /\ ~torn /\ proc[p].at # "fill"
        BY <1>0, <1>3 DEF FolderInv
    <2>2. OldInv'
        BY <1>0, <2>1 DEF OldInv, Moving, Process
    <2>3. FilesInv'
        <3>1. \A f \in File : /\ old'.has[f] \in {newest'[f], Absent}
                               /\ new'.has[f] \in {newest'[f], Absent, Part, NewOne}
            BY <1>0, <2>1 DEF FolderInv, FolderTypes, FilesInv, AllNew, Absent, Part, NewOne,
               File
        <3>2. ~new'.there => \A f \in File : new'.has[f] = Absent /\ old'.has[f] = newest'[f]
            BY <1>0, <2>1 DEF FolderInv, FolderTypes, FilesInv, AllNew, Absent, Part, NewOne,
               File
        <3>3. (\E f \in File : old'.has[f] # newest'[f]) => AllNew'
            BY <1>0, <2>1 DEF FolderInv, FolderTypes, FilesInv, AllNew, Absent, Part, NewOne,
               File
        <3>4. \A f \in File : new'.has[f] = Part =>
                  \E r \in Process : proc'[r].at = "fill" /\ proc'[r].file = f
            BY <1>0, <2>1 DEF FolderInv, FolderTypes, FilesInv, AllNew, Absent, Part, NewOne,
               File, Process
        <3>5. new'.has["keys"] # NewOne
            BY <1>0, <2>1 DEF FolderInv, FolderTypes, FilesInv, AllNew, Absent, Part, NewOne,
               File
        <3>6. new'.has["settings"] = NewOne /\ newest'["settings"] # Absent => trouble' > 0
            BY <1>0, <2>1 DEF FolderInv, FolderTypes, FilesInv, AllNew, Absent, Part, NewOne,
               File
        <3> QED
            BY <3>1, <3>2, <3>3, <3>4, <3>5, <3>6 DEF FilesInv
    <2>4. ProcessInv'
        <3>1. \A r \in Process : Doing(r)'
            BY <1>0, <2>1 DEF FolderInv, FolderTypes, ProcessInv, Doing, AllNew, Merging, Absent
        <3> QED
            BY <1>0, <2>1, <3>1 DEF ProcessInv, Process, FolderInv, FolderTypes, CoreInv,
               Merging
    <2> QED
        BY <2>2, <2>3, <2>4
<1> QED
    BY <1>1, <1>2, <1>3 DEF FolderInv

\* The invariant contains what the run checks.
LEMMA InvSafe == FolderInv => FolderSafe
<1> SUFFICES ASSUME FolderInv PROVE FolderSafe
    OBVIOUS
<1>1. FolderTypeOK
    <2>1. \A f \in File : /\ old.has[f] \in NewOne .. MaxWrites + 1 /\ old.has[f] >= 0
                          /\ new.has[f] \in NewOne .. MaxWrites + 1
                          /\ newest[f] \in 0 .. MaxWrites + 1
        BY FolderBounds DEF FolderInv, FolderTypes, NewFolder, Value, NewOne
    <2>2. old.there \in BOOLEAN /\ new.there \in BOOLEAN
        BY DEF FolderInv, FolderTypes, NewFolder
    <2>3. {oldApp, ownMutex, under, torn} \subseteq BOOLEAN
        BY DEF FolderInv, FolderTypes
    <2>4. \A p \in Process : proc[p].todo \subseteq File
        BY DEF FolderInv, FolderTypes, Programs
    <2> QED
        BY <2>1, <2>2, <2>3, <2>4 DEF FolderTypeOK, FolderInv, FolderTypes, CoreInv, Has
<1>2. ASSUME ~under, ~torn, NEW f \in File, newest[f] # Absent
      PROVE  Somewhere(f) \/ (f = "settings" /\ trouble > 0 /\ new.has[f] = NewOne)
    <2>1. FilesInv /\ ProcessInv
        BY <1>2 DEF FolderInv
    <2>2. CASE old.has[f] = newest[f]
        BY <2>2 DEF Somewhere
    <2>3. CASE old.has[f] # newest[f]
        <3>1. new.has[f] \in {newest[f], Part, NewOne}
            BY <1>2, <2>1, <2>3 DEF FilesInv, AllNew
        <3>2. CASE new.has[f] = newest[f]
            BY <3>2 DEF Somewhere
        <3>3. CASE new.has[f] = Part
            BY <2>1, <3>3 DEF FilesInv, ProcessInv, Doing, Somewhere
        <3>4. CASE new.has[f] = NewOne
            BY <1>2, <2>1, <3>4 DEF FilesInv, File
        <3> QED
            BY <3>1, <3>2, <3>3, <3>4
    <2> QED
        BY <2>2, <2>3
<1> QED
    BY <1>1, <1>2 DEF FolderSafe, NoPairingLost

\* Every step keeps the invariant.
LEMMA StepHolds == FolderInv /\ [FolderNext]_folderVars => FolderInv'
<1> SUFFICES ASSUME FolderInv, [FolderNext]_folderVars PROVE FolderInv'
    OBVIOUS
<1>1. CASE UNCHANGED folderVars
    BY <1>1 DEF folderVars, FolderInv, FolderTypes, CoreInv, OldInv, FilesInv, ProcessInv,
       Doing,
       AllNew
<1>2. CASE OldExits
    BY <1>2, OldExitsKeeps
<1>3. ASSUME NEW f \in File, OldWrites(f) PROVE FolderInv'
    BY <1>3, OldWritesKeeps
<1>4. ASSUME NEW p \in Process, MoveOldFolder(p) PROVE FolderInv'
    BY <1>4, CheckOldKeeps, LookNewKeeps, RenameOldKeeps, RenameFailsKeeps, CopyFileKeeps,
       CopyFailsKeeps,
       PublishCopyKeeps, DeleteOldKeeps, DeleteFailsKeeps, MergeCheckKeeps, MergeSettingsKeeps,
       MergeOpenKeeps, MergeFillKeeps, MergeFailsKeeps
       DEF MoveOldFolder
<1>5. ASSUME NEW p \in Process, StartProcess(p) \/ MakeDir(p) \/ ProcessEnds(p) PROVE FolderInv'
    BY <1>5, StartProcessKeeps, MakeDirKeeps, ProcessEndsKeeps
<1>6. CASE TakeMutex \/ ReplaceOld \/ SaveOwn
    BY <1>6, TakeMutexKeeps, ReplaceOldKeeps, SaveOwnKeeps
<1> QED
    BY <1>1, <1>2, <1>3, <1>4, <1>5, <1>6 DEF FolderNext

(***************************************************************************)
(* The theorem                                                             *)
(***************************************************************************)

\* move_old_folder of paths.rs: whatever the core and the window do at the
\* same time, whichever rename, copy or delete fails and wherever a process is
\* killed, the newest settings and pairings of the old program are in one of
\* the folders or about to be written (NoPairingLost, with the exceptions it
\* names), however often the old program wrote.
THEOREM FolderSafeAlways == FolderSpec => []FolderSafe
<1>1. FolderSpec => []FolderInv
    BY InitHolds, StepHolds, PTL DEF FolderSpec
<1> QED
    BY <1>1, InvSafe, PTL

(***************************************************************************)
(* The migration to the current schema: MigInv is the inductive invariant. *)
(* PlaceInv says what a start has behind it at each of its places; ProfInv *)
(* where the profiles of the old version are; FileInv and KeysInv where    *)
(* the saved devices and the keys are, and how many writes failed when the *)
(* two were parted; Before and After, for a folder with settings and       *)
(* without a failing write, what is true up to the save of the settings    *)
(* and from then on, wherever the program was killed.                      *)
(***************************************************************************)

Files == [Moved -> (SUBSET Dev) \cup {NoFile}]
Folder == [cfg : Config, prof : SUBSET Profile, files : Files, loose : BOOLEAN]
MemType ==
    [before : 0..Schema, v1 : BOOLEAN, auto : BOOLEAN, volumes : SUBSET Dev,
     tried : SUBSET Moved, gone : SUBSET Dev, left : SUBSET Dev]

Dropping == {"drop", "dropCopy", "dropSave", "dropKeys", "dropCodecs"}
Late == {"firmware", "fold", "foldCopy", "foldSave", "run"}
Steps == {"off", "backup1", "copy1", "load1", "seed", "load2", "layout", "backup2", "copy2", "move", "save"}
            \cup Dropping \cup Late

MigTypes ==
    /\ cfg \in Config /\ prof \in SUBSET Profile /\ top \in Files /\ sub \in Files /\ loose \in BOOLEAN
    /\ bak \in [v1 : Folder \cup {NoFile}, v2 : Folder \cup {NoFile},
                prof : (SUBSET Profile) \cup {NoFile, HalfFile}]
    /\ tmp \in Folder \cup {NoFile, HalfFile}
    /\ at \in Steps /\ mem \in MemType
    /\ orig \in Folder /\ paired \in SUBSET Dev /\ laid \in BOOLEAN /\ cut \in BOOLEAN
    /\ faults \in 0..MaxFailed /\ kills \in 0..MaxKilled

\* How far a start is: what it read, and what it does not find
PlaceInv ==
    /\ cfg.schema \in {0, 1, 4, 6, Schema}
    /\ cfg.schema # Schema => cfg = orig.cfg
    /\ at \in Steps \ (Late \cup {"off"}) => mem.before = cfg.schema /\ cfg.schema # Schema /\ mem.v1 = (cfg.schema < 2)
    /\ at \in {"backup1", "copy1", "load1", "seed"} => cfg.schema < 2
    /\ at = "load2" => cfg.schema >= 2
    /\ at \in Dropping => cfg.schema >= 2 /\ cfg.schema < 7
    /\ at = "save" => cfg.schema # 0
    /\ at \in {"backup1", "copy1"} => bak.v1 = NoFile
    /\ at \in {"backup2", "copy2"} => bak.v2 = NoFile
    /\ at \in {"load1", "seed"} => bak.v1 # NoFile
    /\ at = "move" /\ cfg.schema # 0 => bak.v2 # NoFile
    /\ at \in {"copy1", "copy2"} => tmp \in {HalfFile, Content}
    /\ at \in {"dropCopy", "foldCopy"} => bak.prof = HalfFile
    /\ mem.tried # {} => faults > 0

\* The profiles of the old version are in a copy, or in a part of one
InCopy == \E copy \in {bak.v1, bak.v2} : copy # NoFile /\ copy.prof = orig.prof
Kept == bak.prof \in {HalfFile, orig.prof} \/ InCopy

ProfInv ==
    /\ orig # NoFile /\ orig.prof # NoFile
    /\ prof = orig.prof \/ Kept
    /\ bak.v1 # NoFile \/ bak.v2 # NoFile \/ bak.prof # NoFile => Kept
    /\ at \in {"dropSave", "foldSave"} => Kept
    /\ at \in {"dropCopy", "foldCopy"} => prof = orig.prof \/ InCopy
    /\ bak.prof = NoFile => prof = orig.prof \/ InCopy

\* Where the files are, and who wrote the saved devices and the keys
FileInv ==
    /\ \A f \in Moved : orig.files[f] # NoFile /\ top[f] \in {orig.files[f], NoFile}
    /\ paired # {} => sub["devices"] # NoFile /\ sub["keys"] # NoFile
    /\ sub["devices"] # NoFile => paired \subseteq sub["devices"]
    /\ sub["keys"] # NoFile => paired \subseteq sub["keys"]
    /\ top["devices"] = NoFile => sub["devices"] # NoFile /\ orig.files["devices"] \subseteq sub["devices"]
    /\ top["devices"] # NoFile /\ sub["devices"] # NoFile => sub["keys"] # NoFile
    /\ at \in Dropping \ {"drop"} => sub["devices"] # NoFile /\ mem.gone \cap sub["devices"] = {}
                                     /\ mem.left \subseteq mem.gone

\* The keys were moved, the saved devices were not, and the schema is still old
Apart == cfg.schema \in 2..6 /\ top["keys"] = NoFile /\ top["devices"] # NoFile

KeysInv ==
    /\ cfg.schema \in 2..6 /\ top["keys"] = NoFile => bak.v2 # NoFile
    /\ Apart /\ faults <= 1 => sub["devices"] = NoFile
    /\ Apart /\ at \in Dropping \cup {"save"} => faults >= 1
    /\ Apart /\ at \in Late => faults >= 2
    /\ KeysKept

\* Before the first start of a folder with settings is done, and no write failed
Before == faults = 0 /\ orig.cfg.schema \in 1..Schema - 1 /\ cfg.schema # Schema
After == faults = 0 /\ orig.cfg.schema \in 1..Schema - 1 /\ cfg.schema = Schema

Saved0 == orig.files["devices"]
Forgot == {p.dev : p \in orig.prof} \ Saved0
Decided(auto) ==
    orig.cfg.schema < 5 =>
        /\ Chosen({p \in orig.prof : p.dev \in Saved0}) => ~auto
        /\ ~Chosen(orig.prof) => auto
AllSized == orig.cfg.legacy => \A p \in prof : p.sized

\* The start is not through, each file is in one place, and all are in the new
\* one once the folder is laid out
Placed ==
    /\ at \notin Late /\ paired = {}
    /\ \A f \in Moved : (top[f] = NoFile) # (sub[f] = NoFile)
    /\ sub["devices"] \in {NoFile, Saved0}
    /\ at \in Dropping \cup {"save"} => laid /\ \A f \in Moved : top[f] = NoFile

\* v1's folder is copied before anything of it is changed
OldCopied ==
    /\ orig.cfg.legacy => orig.cfg.schema = 1
    /\ cfg.schema = 1 =>
          /\ bak.v1 \in {NoFile, orig}
          /\ bak.v1 # orig => prof = orig.prof /\ top = orig.files /\ loose = orig.loose
          /\ at \in {"layout", "backup2", "copy2", "move", "save"} => bak.v1 = orig /\ AllSized

\* The profiles have the codecs they had, those of the saved devices are there,
\* and Auto-select is decided from them
DecidedAt == {"seed", "layout", "backup2", "copy2", "move", "save"} \cup Dropping
CodecsInv ==
    /\ \A p \in prof : \E q \in orig.prof : q.dev = p.dev /\ q.codec = p.codec
    /\ \A q \in orig.prof : q.dev \in Saved0 => \E p \in prof : p.dev = q.dev /\ p.codec = q.codec
    /\ at \in DecidedAt => Decided(mem.auto)

\* How far the traces of forgotten devices are gone
DevsKept == {p.dev : p \in prof} = {q.dev : q \in orig.prof}
TracesInv ==
    /\ at \in {"backup1", "copy1", "load1", "load2", "seed", "layout", "backup2", "copy2", "move", "drop"} => mem.gone = {}
    /\ at \in Dropping \ {"drop"} => mem.gone # {}
    /\ at \in {"dropCopy", "dropSave"} => mem.left = mem.gone
    /\ ~cut =>
          /\ at \notin {"dropKeys", "dropCodecs"} /\ ~ (at = "save" /\ mem.gone # {}) => DevsKept
          /\ at \in Dropping \ {"drop"} => mem.gone = Forgot
          /\ at \in {"dropKeys", "dropCodecs"} => mem.volumes \cap Forgot = {}
          /\ at = "dropKeys" => sub["keys"] \cap Forgot \subseteq mem.left
          /\ at = "dropCodecs" => sub["keys"] \cap Forgot = {}
          /\ at = "save" /\ cfg.schema \in 2..6 =>
                Forgot \cap (mem.volumes \cup sub["keys"] \cup sub["codecs"]) = {}

BeforeInv == Before => Placed /\ OldCopied /\ CodecsInv /\ TracesInv

AfterInv == After => MigratedWhole /\ at \in Late \cup {"off"}

MigInv == MigTypes /\ PlaceInv /\ ProfInv /\ FileInv /\ KeysInv /\ BeforeInv /\ AfterInv

\* What drop_forgotten finds
LEMMA Forgetting ==
    ASSUME MigTypes, DropForgotten
    PROVE  /\ at = "drop" /\ UNCHANGED <<cfg, prof, top, sub, loose, tmp, orig, paired, laid, cut, faults, kills>>
           /\ \/ at' = "save" /\ UNCHANGED <<bak, mem>> /\ (sub["devices"] = NoFile \/ Forgotten = {})
              \/ /\ sub["devices"] # NoFile
                 /\ mem' = [mem EXCEPT !.gone = {p.dev : p \in Forgotten}, !.left = {p.dev : p \in Forgotten}]
                 /\ {p.dev : p \in Forgotten} \subseteq Dev /\ {p.dev : p \in Forgotten} \cap sub["devices"] = {}
                 /\ \/ bak.prof = NoFile /\ bak' = [bak EXCEPT !.prof = HalfFile] /\ at' = "dropCopy"
                    \/ bak.prof # NoFile /\ bak' = bak /\ at' = "dropSave"
<1>1. {p.dev : p \in Forgotten} \subseteq Dev /\ {p.dev : p \in Forgotten} \cap sub["devices"] = {}
  BY DEF Forgotten, MigTypes, Profile
<1>2. QED
  BY <1>1 DEF DropForgotten, OpenProfilesCopy, Goto, RestSame, past

\* What was copied stays copied while no copy is made
LEMMA KeptSame == ASSUME UNCHANGED <<bak, orig>> PROVE (Kept <=> Kept') /\ (InCopy <=> InCopy')
  BY DEF Kept, InCopy

\* Without profiles-before-codecs.json, a copy of the folder has the profiles
LEMMA Copied == ASSUME ProfInv, Kept, bak.prof = NoFile PROVE InCopy
  BY NoSuchFile DEF ProfInv, Kept

\* consolidate makes profiles of profiles
LEMMA FoldsTyped == ASSUME prof \in SUBSET Profile PROVE \A list \in Folds : list \in SUBSET Profile
<1> DEFINE Of(d) == {p \in prof : p.dev = d}
           all(k) == k.others \cup (({p.codec : p \in Of(k.dev)} \cup UNION {p.others : p \in Of(k.dev)})
                                    \ {"auto", k.codec})
           Fold(k) == [k EXCEPT !.others = all(k)]
<1>1. ASSUME NEW k \in prof PROVE Fold(k) \in Profile
  <2>1. all(k) \in SUBSET Codec
    BY DEF Profile
  <2> HIDE DEF all
  <2>2. QED
    BY <2>1 DEF Profile
<1>2. \A list \in Folds : \E keeper \in [{p.dev : p \in prof} -> prof] : list = {Fold(keeper[d]) : d \in DOMAIN keeper}
  BY DEF Folds
<1> HIDE DEF Fold
<1>3. ASSUME NEW keeper \in [{p.dev : p \in prof} -> prof]
      PROVE  {Fold(keeper[d]) : d \in DOMAIN keeper} \in SUBSET Profile
  BY <1>1
<1>4. QED
  BY <1>2, <1>3

\* Each step of a start finds what the steps before it left
LEMMA PlaceInvStep == ASSUME MigInv, MigrationNext PROVE PlaceInv'
<1>0. PlaceInv /\ MigTypes
  BY DEF MigInv
<1>1. CASE StartPrepare
  BY <1>0, <1>1 DEF StartPrepare, RestSame, Goto, disk, past, PlaceInv, MigTypes, MemType, Config,
     Content, Steps, Late, Dropping, Schema, Saved, NoMem, AnySmall
<1>2. CASE BackupOpen
  BY <1>0, <1>2 DEF BackupOpen, RestSame, Goto, past, PlaceInv, MigTypes, MemType, Config, Content, Steps,
     Late, Dropping, Schema, Saved, NoMem, AnySmall
<1>3. CASE BackupDone
  BY <1>0, <1>3 DEF BackupDone, RestSame, past, PlaceInv, MigTypes, MemType, Config, Content, Steps, Late,
     Dropping, Schema, Saved, NoMem, AnySmall
<1>4. CASE BackupRename
  BY <1>0, <1>4 DEF BackupRename, RestSame, Goto, past, PlaceInv, MigTypes, MemType, Config, Content,
     Steps, Late, Dropping, Schema, Saved, NoMem, AnySmall
<1>5. CASE BackupFails
  BY <1>0, <1>5, MigrationBounds DEF BackupFails, Goto, Fault, past, PlaceInv, MigTypes, MemType, Config,
     Content, Steps, Late, Dropping, Schema, Saved, NoMem, AnySmall
<1>6. CASE LoadV1
  BY <1>0, <1>6 DEF LoadV1, RestSame, Goto, disk, past, PlaceInv, MigTypes, MemType, Config, Content,
     Steps, Late, Dropping, Schema, Saved, NoMem, AnySmall
<1>7. CASE SaveSeeded
  BY <1>0, <1>7 DEF SaveSeeded, RestSame, Goto, past, PlaceInv, MigTypes, MemType, Config, Content, Steps,
     Late, Dropping, Schema, Saved, NoMem, AnySmall
<1>8. CASE SeedFails
  BY <1>0, <1>8, MigrationBounds DEF SeedFails, Goto, Fault, disk, past, PlaceInv, MigTypes, MemType,
     Config, Content, Steps, Late, Dropping, Schema, Saved, NoMem, AnySmall
<1>9. CASE LoadV2
  BY <1>0, <1>9 DEF LoadV2, RestSame, Goto, disk, past, PlaceInv, MigTypes, MemType, Config, Content,
     Steps, Late, Dropping, Schema, Saved, NoMem, AnySmall
<1>10. CASE Relayout
  BY <1>0, <1>10 DEF Relayout, RestSame, Goto, disk, past, PlaceInv, MigTypes, MemType, Config, Content,
     Steps, Late, Dropping, Schema, Saved, NoMem, AnySmall
<1>11. CASE MoveFile
  BY <1>0, <1>11 DEF MoveFile, RestSame, past, PlaceInv, MigTypes, MemType, Config, Content, Steps, Late,
     Dropping, Schema, Saved, NoMem, AnySmall
<1>12. CASE MoveFails
  BY <1>0, <1>12, MigrationBounds DEF MoveFails, Fault, disk, past, PlaceInv, MigTypes, MemType, Config,
     Content, Steps, Late, Dropping, Schema, Saved, NoMem, AnySmall
<1>13. CASE RelayoutDone
  BY <1>0, <1>13 DEF RelayoutDone, Goto, PlaceInv, MigTypes, MemType, Config, Content, Steps, Late,
     Dropping, Schema, Saved, NoMem, AnySmall
<1>14. CASE CopyProfiles
  BY <1>0, <1>14 DEF CopyProfiles, RestSame, Goto, past, PlaceInv, MigTypes, MemType, Config, Content,
     Steps, Late, Dropping, Schema, Saved, NoMem, AnySmall
<1>15. CASE DropForgotten
  <2>1. at = "drop" /\ UNCHANGED <<cfg, prof, top, sub, loose, tmp, orig, faults>>
        /\ at' \in {"save", "dropCopy", "dropSave"}
        /\ mem'.before = mem.before /\ mem'.v1 = mem.v1 /\ mem'.tried = mem.tried
    BY <1>0, <1>15, Forgetting DEF MigTypes, MemType
  <2>2. bak'.v1 = bak.v1 /\ bak'.v2 = bak.v2 /\ (at' = "dropCopy" => bak'.prof = HalfFile)
    BY <1>0, <1>15, Forgetting DEF MigTypes
  <2>3. QED
    BY <1>0, <2>1, <2>2 DEF PlaceInv, Steps, Late, Dropping, Schema
<1>16. CASE DropSave
  BY <1>0, <1>16 DEF DropSave, RestSame, Goto, past, PlaceInv, MigTypes, MemType, Config, Content, Steps,
     Late, Dropping, Schema, Saved, NoMem, AnySmall
<1>17. CASE DropKeys
  BY <1>0, <1>17 DEF DropKeys, RestSame, Goto, past, PlaceInv, MigTypes, MemType, Config, Content, Steps,
     Late, Dropping, Schema, Saved, NoMem, AnySmall
<1>18. CASE DropCodecs
  BY <1>0, <1>18 DEF DropCodecs, RestSame, Goto, past, PlaceInv, MigTypes, MemType, Config, Content,
     Steps, Late, Dropping, Schema, Saved, NoMem, AnySmall
<1>19. CASE DropFails
  BY <1>0, <1>19, MigrationBounds DEF DropFails, Goto, Fault, disk, past, PlaceInv, MigTypes, MemType,
     Config, Content, Steps, Late, Dropping, Schema, Saved, NoMem, AnySmall
<1>20. CASE SaveSettings
  BY <1>0, <1>20 DEF SaveSettings, RestSame, Goto, past, PlaceInv, MigTypes, MemType, Config, Content,
     Steps, Late, Dropping, Schema, Saved, NoMem, AnySmall
<1>21. CASE SaveFails
  BY <1>0, <1>21, MigrationBounds DEF SaveFails, Goto, Fault, disk, past, PlaceInv, MigTypes, MemType,
     Config, Content, Steps, Late, Dropping, Schema, Saved, NoMem, AnySmall
<1>22. CASE MoveLooseFirmware
  BY <1>0, <1>22 DEF MoveLooseFirmware, RestSame, Goto, past, PlaceInv, MigTypes, MemType, Config,
     Content, Steps, Late, Dropping, Schema, Saved, NoMem, AnySmall
<1>23. CASE Consolidate
  BY <1>0, <1>23 DEF Consolidate, RestSame, Goto, OpenProfilesCopy, past, PlaceInv, MigTypes, MemType,
     Config, Content, Steps, Late, Dropping, Schema, Saved, NoMem, AnySmall
<1>24. CASE FoldSave
  BY <1>0, <1>24 DEF FoldSave, RestSame, Goto, past, PlaceInv, MigTypes, MemType, Config, Content, Steps,
     Late, Dropping, Schema, Saved, NoMem, AnySmall
<1>25. CASE FoldFails
  BY <1>0, <1>25, MigrationBounds DEF FoldFails, Goto, Fault, disk, past, PlaceInv, MigTypes, MemType,
     Config, Content, Steps, Late, Dropping, Schema, Saved, NoMem, AnySmall
<1>26. CASE ServiceSaves
  BY <1>0, <1>26 DEF ServiceSaves, RestSame, past, PlaceInv, MigTypes, MemType, Config, Content, Steps,
     Late, Dropping, Schema, Saved, NoMem, AnySmall
<1>27. CASE Quit
  BY <1>0, <1>27 DEF Quit, RestSame, Goto, disk, past, PlaceInv, MigTypes, MemType, Config, Content,
     Steps, Late, Dropping, Schema, Saved, NoMem, AnySmall
<1>28. CASE Kill
  BY <1>0, <1>28, MigrationBounds DEF Kill, Goto, disk, PlaceInv, MigTypes, MemType, Config, Content,
     Steps, Late, Dropping, Schema, Saved, NoMem, AnySmall
<1>29. ASSUME NEW d \in Dev, ServicePairs(d) PROVE PlaceInv'
  BY <1>0, <1>29 DEF ServicePairs, PlaceInv, MigTypes, MemType, Config, Content, Steps, Late, Dropping,
     Schema, Saved, NoMem, AnySmall
<1>30. QED
  BY <1>1, <1>2, <1>3, <1>4, <1>5, <1>6, <1>7, <1>8, <1>9, <1>10, <1>11, <1>12, <1>13, <1>14, <1>15,
     <1>16, <1>17, <1>18, <1>19, <1>20, <1>21, <1>22, <1>23, <1>24, <1>25, <1>26, <1>27, <1>28, <1>29 DEF
     MigrationNext

\* The profiles of the old version are never given up before a copy has them
LEMMA ProfInvStep == ASSUME MigInv, MigrationNext PROVE ProfInv'
<1>0. ProfInv /\ PlaceInv /\ MigTypes
  BY DEF MigInv
<1>1. CASE StartPrepare
  BY <1>0, <1>1 DEF StartPrepare, RestSame, Goto, disk, past, ProfInv, PlaceInv, Kept, InCopy, Content,
     Steps, Late, Dropping
<1>2. CASE BackupOpen
  BY <1>0, <1>2 DEF BackupOpen, RestSame, Goto, past, ProfInv, PlaceInv, Kept, InCopy, Content, Steps,
     Late, Dropping
<1>3. CASE BackupDone
  BY <1>0, <1>3 DEF BackupDone, RestSame, past, ProfInv, PlaceInv, Kept, InCopy, Content, Steps, Late, Dropping
<1>4. CASE BackupRename
  BY <1>0, <1>4 DEF BackupRename, RestSame, Goto, past, ProfInv, PlaceInv, Kept, InCopy, Content, Steps,
     Late, Dropping
<1>5. CASE BackupFails
  BY <1>0, <1>5, MigrationBounds DEF BackupFails, Goto, Fault, past, ProfInv, PlaceInv, Kept, InCopy,
     Content, Steps, Late, Dropping
<1>6. CASE LoadV1
  BY <1>0, <1>6 DEF LoadV1, RestSame, Goto, disk, past, ProfInv, PlaceInv, Kept, InCopy, Content, Steps,
     Late, Dropping
<1>7. CASE SaveSeeded
  <2>1. UNCHANGED <<bak, orig>> /\ at' = "layout" /\ Kept
    BY <1>0, <1>7 DEF SaveSeeded, RestSame, past, Goto, PlaceInv, ProfInv
  <2>2. bak.prof = NoFile => InCopy
    BY <1>0, <2>1, Copied
  <2>3. QED
    BY <1>0, <2>1, <2>2, KeptSame DEF ProfInv
<1>8. CASE SeedFails
  BY <1>0, <1>8, MigrationBounds DEF SeedFails, Goto, Fault, disk, past, ProfInv, PlaceInv, Kept, InCopy,
     Content, Steps, Late, Dropping
<1>9. CASE LoadV2
  BY <1>0, <1>9 DEF LoadV2, RestSame, Goto, disk, past, ProfInv, PlaceInv, Kept, InCopy, Content, Steps,
     Late, Dropping
<1>10. CASE Relayout
  BY <1>0, <1>10 DEF Relayout, RestSame, Goto, disk, past, ProfInv, PlaceInv, Kept, InCopy, Content,
     Steps, Late, Dropping
<1>11. CASE MoveFile
  BY <1>0, <1>11 DEF MoveFile, RestSame, past, ProfInv, PlaceInv, Kept, InCopy, Content, Steps, Late, Dropping
<1>12. CASE MoveFails
  BY <1>0, <1>12, MigrationBounds DEF MoveFails, Fault, disk, past, ProfInv, PlaceInv, Kept, InCopy,
     Content, Steps, Late, Dropping
<1>13. CASE RelayoutDone
  BY <1>0, <1>13 DEF RelayoutDone, Goto, ProfInv, PlaceInv, Kept, InCopy, Content, Steps, Late, Dropping
<1>14. CASE CopyProfiles
  BY <1>0, <1>14 DEF CopyProfiles, RestSame, Goto, past, ProfInv, PlaceInv, Kept, InCopy, Content, Steps,
     Late, Dropping
<1>15. CASE DropForgotten
  <2>1. UNCHANGED <<prof, orig>> /\ at = "drop"
    BY <1>0, <1>15, Forgetting
  <2>2. CASE bak' = bak /\ at' = "save"
    BY <1>0, <2>1, <2>2, KeptSame DEF ProfInv
  <2>3. CASE bak.prof # NoFile /\ bak' = bak /\ at' = "dropSave"
    BY <1>0, <2>1, <2>3, KeptSame DEF ProfInv
  <2>4. CASE bak.prof = NoFile /\ bak' = [bak EXCEPT !.prof = HalfFile] /\ at' = "dropCopy"
    <3>1. bak'.v1 = bak.v1 /\ bak'.v2 = bak.v2 /\ bak'.prof = HalfFile
      BY <1>0, <2>4 DEF MigTypes
    <3>2. QED
      BY <1>0, <2>1, <2>4, <3>1 DEF ProfInv, Kept, InCopy
  <2>5. QED
    BY <1>0, <1>15, <2>2, <2>3, <2>4, Forgetting
<1>16. CASE DropSave
  <2>1. UNCHANGED <<bak, orig>> /\ at' = "dropKeys" /\ Kept
    BY <1>0, <1>16 DEF DropSave, RestSame, past, Goto, ProfInv
  <2>2. bak.prof = NoFile => InCopy
    BY <1>0, <2>1, Copied
  <2>3. QED
    BY <1>0, <2>1, <2>2, KeptSame DEF ProfInv
<1>17. CASE DropKeys
  BY <1>0, <1>17 DEF DropKeys, RestSame, Goto, past, ProfInv, PlaceInv, Kept, InCopy, Content, Steps,
     Late, Dropping
<1>18. CASE DropCodecs
  BY <1>0, <1>18 DEF DropCodecs, RestSame, Goto, past, ProfInv, PlaceInv, Kept, InCopy, Content, Steps,
     Late, Dropping
<1>19. CASE DropFails
  BY <1>0, <1>19, MigrationBounds DEF DropFails, Goto, Fault, disk, past, ProfInv, PlaceInv, Kept, InCopy,
     Content, Steps, Late, Dropping
<1>20. CASE SaveSettings
  BY <1>0, <1>20 DEF SaveSettings, RestSame, Goto, past, ProfInv, PlaceInv, Kept, InCopy, Content, Steps,
     Late, Dropping
<1>21. CASE SaveFails
  BY <1>0, <1>21, MigrationBounds DEF SaveFails, Goto, Fault, disk, past, ProfInv, PlaceInv, Kept, InCopy,
     Content, Steps, Late, Dropping
<1>22. CASE MoveLooseFirmware
  BY <1>0, <1>22 DEF MoveLooseFirmware, RestSame, Goto, past, ProfInv, PlaceInv, Kept, InCopy, Content,
     Steps, Late, Dropping
<1>23. CASE Consolidate
  <2>1. UNCHANGED <<prof, orig>> /\ at = "fold"
    BY <1>23 DEF Consolidate, RestSame, past
  <2>2. CASE bak' = bak /\ at' = "run"
    BY <1>0, <2>1, <2>2, KeptSame DEF ProfInv
  <2>3. CASE bak.prof # NoFile /\ bak' = bak /\ at' = "foldSave"
    BY <1>0, <2>1, <2>3, KeptSame DEF ProfInv
  <2>4. CASE bak.prof = NoFile /\ bak' = [bak EXCEPT !.prof = HalfFile] /\ at' = "foldCopy"
    <3>1. bak'.v1 = bak.v1 /\ bak'.v2 = bak.v2 /\ bak'.prof = HalfFile
      BY <1>0, <2>4 DEF MigTypes
    <3>2. QED
      BY <1>0, <2>1, <2>4, <3>1 DEF ProfInv, Kept, InCopy
  <2>5. QED
    BY <1>23, <2>2, <2>3, <2>4 DEF Consolidate, OpenProfilesCopy, Goto
<1>24. CASE FoldSave
  <2>1. UNCHANGED <<bak, orig>> /\ at' = "run" /\ Kept
    BY <1>0, <1>24 DEF FoldSave, RestSame, past, Goto, ProfInv
  <2>2. bak.prof = NoFile => InCopy
    BY <1>0, <2>1, Copied
  <2>3. QED
    BY <1>0, <2>1, <2>2, KeptSame DEF ProfInv
<1>25. CASE FoldFails
  BY <1>0, <1>25, MigrationBounds DEF FoldFails, Goto, Fault, disk, past, ProfInv, PlaceInv, Kept, InCopy,
     Content, Steps, Late, Dropping
<1>26. CASE ServiceSaves
  BY <1>0, <1>26 DEF ServiceSaves, RestSame, past, ProfInv, PlaceInv, Kept, InCopy, Content, Steps, Late,
     Dropping
<1>27. CASE Quit
  BY <1>0, <1>27 DEF Quit, RestSame, Goto, disk, past, ProfInv, PlaceInv, Kept, InCopy, Content, Steps,
     Late, Dropping
<1>28. CASE Kill
  BY <1>0, <1>28, MigrationBounds DEF Kill, Goto, disk, ProfInv, PlaceInv, Kept, InCopy, Content, Steps,
     Late, Dropping
<1>29. ASSUME NEW d \in Dev, ServicePairs(d) PROVE ProfInv'
  BY <1>0, <1>29 DEF ServicePairs, ProfInv, PlaceInv, Kept, InCopy, Content, Steps, Late, Dropping
<1>30. QED
  BY <1>1, <1>2, <1>3, <1>4, <1>5, <1>6, <1>7, <1>8, <1>9, <1>10, <1>11, <1>12, <1>13, <1>14, <1>15,
     <1>16, <1>17, <1>18, <1>19, <1>20, <1>21, <1>22, <1>23, <1>24, <1>25, <1>26, <1>27, <1>28, <1>29 DEF
     MigrationNext

\* A file is in its old place or in its new one, and what is paired is in the new one
LEMMA FileInvStep == ASSUME MigInv, MigrationNext PROVE FileInv'
<1>0. FileInv /\ PlaceInv /\ MigTypes
  BY DEF MigInv
<1>1. CASE StartPrepare
  BY <1>0, <1>1 DEF StartPrepare, RestSame, Goto, disk, past, FileInv, MigTypes, PlaceInv, MemType, Files,
     Moved, Steps, Late, Dropping, NoMem, Forgotten, Movable
<1>2. CASE BackupOpen
  BY <1>0, <1>2 DEF BackupOpen, RestSame, Goto, past, FileInv, MigTypes, PlaceInv, MemType, Files, Moved,
     Steps, Late, Dropping, NoMem, Forgotten, Movable
<1>3. CASE BackupDone
  BY <1>0, <1>3 DEF BackupDone, RestSame, past, FileInv, MigTypes, PlaceInv, MemType, Files, Moved, Steps,
     Late, Dropping, NoMem, Forgotten, Movable
<1>4. CASE BackupRename
  BY <1>0, <1>4 DEF BackupRename, RestSame, Goto, past, FileInv, MigTypes, PlaceInv, MemType, Files,
     Moved, Steps, Late, Dropping, NoMem, Forgotten, Movable
<1>5. CASE BackupFails
  BY <1>0, <1>5, MigrationBounds DEF BackupFails, Goto, Fault, past, FileInv, MigTypes, PlaceInv, MemType,
     Files, Moved, Steps, Late, Dropping, NoMem, Forgotten, Movable
<1>6. CASE LoadV1
  BY <1>0, <1>6 DEF LoadV1, RestSame, Goto, disk, past, FileInv, MigTypes, PlaceInv, MemType, Files,
     Moved, Steps, Late, Dropping, NoMem, Forgotten, Movable
<1>7. CASE SaveSeeded
  BY <1>0, <1>7 DEF SaveSeeded, RestSame, Goto, past, FileInv, MigTypes, PlaceInv, MemType, Files, Moved,
     Steps, Late, Dropping, NoMem, Forgotten, Movable
<1>8. CASE SeedFails
  BY <1>0, <1>8, MigrationBounds DEF SeedFails, Goto, Fault, disk, past, FileInv, MigTypes, PlaceInv,
     MemType, Files, Moved, Steps, Late, Dropping, NoMem, Forgotten, Movable
<1>9. CASE LoadV2
  BY <1>0, <1>9 DEF LoadV2, RestSame, Goto, disk, past, FileInv, MigTypes, PlaceInv, MemType, Files,
     Moved, Steps, Late, Dropping, NoMem, Forgotten, Movable
<1>10. CASE Relayout
  BY <1>0, <1>10 DEF Relayout, RestSame, Goto, disk, past, FileInv, MigTypes, PlaceInv, MemType, Files,
     Moved, Steps, Late, Dropping, NoMem, Forgotten, Movable
<1>11. CASE MoveFile
  BY <1>0, <1>11 DEF MoveFile, RestSame, past, FileInv, MigTypes, PlaceInv, MemType, Files, Moved, Steps,
     Late, Dropping, NoMem, Forgotten, Movable
<1>12. CASE MoveFails
  BY <1>0, <1>12, MigrationBounds DEF MoveFails, Fault, disk, past, FileInv, MigTypes, PlaceInv, MemType,
     Files, Moved, Steps, Late, Dropping, NoMem, Forgotten, Movable
<1>13. CASE RelayoutDone
  BY <1>0, <1>13 DEF RelayoutDone, Goto, FileInv, MigTypes, PlaceInv, MemType, Files, Moved, Steps, Late,
     Dropping, NoMem, Forgotten, Movable
<1>14. CASE CopyProfiles
  BY <1>0, <1>14 DEF CopyProfiles, RestSame, Goto, past, FileInv, MigTypes, PlaceInv, MemType, Files,
     Moved, Steps, Late, Dropping, NoMem, Forgotten, Movable
<1>15. CASE DropForgotten
  BY <1>0, <1>15, Forgetting DEF FileInv, MigTypes, PlaceInv, MemType, Files, Moved, Steps, Late,
     Dropping, NoMem, Forgotten, Movable
<1>16. CASE DropSave
  BY <1>0, <1>16 DEF DropSave, RestSame, Goto, past, FileInv, MigTypes, PlaceInv, MemType, Files, Moved,
     Steps, Late, Dropping, NoMem, Forgotten, Movable
<1>17. CASE DropKeys
  BY <1>0, <1>17, NoSuchFile DEF DropKeys, RestSame, Goto, past, FileInv, MigTypes, PlaceInv, MemType,
     Files, Moved, Steps, Late, Dropping, NoMem, Forgotten, Movable
<1>18. CASE DropCodecs
  BY <1>0, <1>18 DEF DropCodecs, RestSame, Goto, past, FileInv, MigTypes, PlaceInv, MemType, Files, Moved,
     Steps, Late, Dropping, NoMem, Forgotten, Movable
<1>19. CASE DropFails
  BY <1>0, <1>19, MigrationBounds DEF DropFails, Goto, Fault, disk, past, FileInv, MigTypes, PlaceInv,
     MemType, Files, Moved, Steps, Late, Dropping, NoMem, Forgotten, Movable
<1>20. CASE SaveSettings
  BY <1>0, <1>20 DEF SaveSettings, RestSame, Goto, past, FileInv, MigTypes, PlaceInv, MemType, Files,
     Moved, Steps, Late, Dropping, NoMem, Forgotten, Movable
<1>21. CASE SaveFails
  BY <1>0, <1>21, MigrationBounds DEF SaveFails, Goto, Fault, disk, past, FileInv, MigTypes, PlaceInv,
     MemType, Files, Moved, Steps, Late, Dropping, NoMem, Forgotten, Movable
<1>22. CASE MoveLooseFirmware
  BY <1>0, <1>22 DEF MoveLooseFirmware, RestSame, Goto, past, FileInv, MigTypes, PlaceInv, MemType, Files,
     Moved, Steps, Late, Dropping, NoMem, Forgotten, Movable
<1>23. CASE Consolidate
  BY <1>0, <1>23 DEF Consolidate, RestSame, Goto, OpenProfilesCopy, past, FileInv, MigTypes, PlaceInv,
     MemType, Files, Moved, Steps, Late, Dropping, NoMem, Forgotten, Movable
<1>24. CASE FoldSave
  BY <1>0, <1>24 DEF FoldSave, RestSame, Goto, past, FileInv, MigTypes, PlaceInv, MemType, Files, Moved,
     Steps, Late, Dropping, NoMem, Forgotten, Movable
<1>25. CASE FoldFails
  BY <1>0, <1>25, MigrationBounds DEF FoldFails, Goto, Fault, disk, past, FileInv, MigTypes, PlaceInv,
     MemType, Files, Moved, Steps, Late, Dropping, NoMem, Forgotten, Movable
<1>26. CASE ServiceSaves
  BY <1>0, <1>26 DEF ServiceSaves, RestSame, past, FileInv, MigTypes, PlaceInv, MemType, Files, Moved,
     Steps, Late, Dropping, NoMem, Forgotten, Movable
<1>27. CASE Quit
  BY <1>0, <1>27 DEF Quit, RestSame, Goto, disk, past, FileInv, MigTypes, PlaceInv, MemType, Files, Moved,
     Steps, Late, Dropping, NoMem, Forgotten, Movable
<1>28. CASE Kill
  BY <1>0, <1>28, MigrationBounds DEF Kill, Goto, disk, FileInv, MigTypes, PlaceInv, MemType, Files,
     Moved, Steps, Late, Dropping, NoMem, Forgotten, Movable
<1>29. ASSUME NEW d \in Dev, ServicePairs(d) PROVE FileInv'
  BY <1>0, <1>29, NoSuchFile DEF ServicePairs, FileInv, MigTypes, PlaceInv, MemType, Files, Moved, Steps,
     Late, Dropping, NoMem, Forgotten, Movable
<1>30. QED
  BY <1>1, <1>2, <1>3, <1>4, <1>5, <1>6, <1>7, <1>8, <1>9, <1>10, <1>11, <1>12, <1>13, <1>14, <1>15,
     <1>16, <1>17, <1>18, <1>19, <1>20, <1>21, <1>22, <1>23, <1>24, <1>25, <1>26, <1>27, <1>28, <1>29 DEF
     MigrationNext

\* The keys of saved devices and of new pairings are in one of the two places
LEMMA KeysInvStep == ASSUME MigInv, MigrationNext PROVE KeysInv'
<1>0. KeysInv /\ FileInv /\ PlaceInv /\ MigTypes
  BY DEF MigInv
<1>1. CASE StartPrepare
  BY <1>0, <1>1 DEF StartPrepare, RestSame, Goto, disk, past, KeysInv, KeysKept, KeysOf, Apart, FileInv,
     MigTypes, PlaceInv, MemType, Files, Moved, Steps, Late, Dropping, NoMem, Movable, AnySmall, Schema,
     Saved
<1>2. CASE BackupOpen
  BY <1>0, <1>2 DEF BackupOpen, RestSame, Goto, past, KeysInv, KeysKept, KeysOf, Apart, FileInv, MigTypes,
     PlaceInv, MemType, Files, Moved, Steps, Late, Dropping, NoMem, Movable, AnySmall, Schema, Saved
<1>3. CASE BackupDone
  BY <1>0, <1>3 DEF BackupDone, RestSame, past, KeysInv, KeysKept, KeysOf, Apart, FileInv, MigTypes,
     PlaceInv, MemType, Files, Moved, Steps, Late, Dropping, NoMem, Movable, AnySmall, Schema, Saved
<1>4. CASE BackupRename
  BY <1>0, <1>4 DEF BackupRename, RestSame, Goto, past, KeysInv, KeysKept, KeysOf, Apart, FileInv,
     MigTypes, PlaceInv, MemType, Files, Moved, Steps, Late, Dropping, NoMem, Movable, AnySmall, Schema,
     Saved
<1>5. CASE BackupFails
  BY <1>0, <1>5, MigrationBounds DEF BackupFails, Goto, Fault, past, KeysInv, KeysKept, KeysOf, Apart,
     FileInv, MigTypes, PlaceInv, MemType, Files, Moved, Steps, Late, Dropping, NoMem, Movable, AnySmall,
     Schema, Saved
<1>6. CASE LoadV1
  BY <1>0, <1>6 DEF LoadV1, RestSame, Goto, disk, past, KeysInv, KeysKept, KeysOf, Apart, FileInv,
     MigTypes, PlaceInv, MemType, Files, Moved, Steps, Late, Dropping, NoMem, Movable, AnySmall, Schema,
     Saved
<1>7. CASE SaveSeeded
  BY <1>0, <1>7 DEF SaveSeeded, RestSame, Goto, past, KeysInv, KeysKept, KeysOf, Apart, FileInv, MigTypes,
     PlaceInv, MemType, Files, Moved, Steps, Late, Dropping, NoMem, Movable, AnySmall, Schema, Saved
<1>8. CASE SeedFails
  BY <1>0, <1>8, MigrationBounds DEF SeedFails, Goto, Fault, disk, past, KeysInv, KeysKept, KeysOf, Apart,
     FileInv, MigTypes, PlaceInv, MemType, Files, Moved, Steps, Late, Dropping, NoMem, Movable, AnySmall,
     Schema, Saved
<1>9. CASE LoadV2
  BY <1>0, <1>9 DEF LoadV2, RestSame, Goto, disk, past, KeysInv, KeysKept, KeysOf, Apart, FileInv,
     MigTypes, PlaceInv, MemType, Files, Moved, Steps, Late, Dropping, NoMem, Movable, AnySmall, Schema,
     Saved
<1>10. CASE Relayout
  BY <1>0, <1>10 DEF Relayout, RestSame, Goto, disk, past, KeysInv, KeysKept, KeysOf, Apart, FileInv,
     MigTypes, PlaceInv, MemType, Files, Moved, Steps, Late, Dropping, NoMem, Movable, AnySmall, Schema,
     Saved
<1>11. CASE MoveFile
  <2>1. at = "move" /\ UNCHANGED <<cfg, bak, orig, paired, at, mem, faults>>
    BY <1>11 DEF MoveFile, RestSame, past
  <2>2. PICK f \in Moved : /\ top[f] # NoFile /\ sub[f] = NoFile /\ f \notin mem.tried
                           /\ top' = [top EXCEPT ![f] = NoFile]
                           /\ sub' = [sub EXCEPT ![f] = top[f]]
    BY <1>11 DEF MoveFile, Movable
  <2>3. mem.tried # {} => faults > 0
    BY <1>0 DEF PlaceInv
  <2>4. KeysOf(top') \cup KeysOf(sub') = KeysOf(top) \cup KeysOf(sub)
    BY <1>0, <2>2 DEF KeysOf, MigTypes, Files, Moved
  <2>5. KeysKept'
    BY <1>0, <2>1, <2>4 DEF KeysInv, KeysKept
  <2>6. cfg.schema \in 2..6 => bak.v2 # NoFile
    BY <1>0, <2>1 DEF PlaceInv
  <2>7. QED
    BY <1>0, <2>1, <2>2, <2>5, <2>6 DEF KeysInv, Apart, MigTypes, Files, Moved, Dropping, Late, FileInv
<1>12. CASE MoveFails
  BY <1>0, <1>12, MigrationBounds DEF MoveFails, Fault, disk, past, KeysInv, KeysKept, KeysOf, Apart,
     FileInv, MigTypes, PlaceInv, MemType, Files, Moved, Steps, Late, Dropping, NoMem, Movable, AnySmall,
     Schema, Saved
<1>13. CASE RelayoutDone
  BY <1>0, <1>13 DEF RelayoutDone, Goto, KeysInv, KeysKept, KeysOf, Apart, FileInv, MigTypes, PlaceInv,
     MemType, Files, Moved, Steps, Late, Dropping, NoMem, Movable, AnySmall, Schema, Saved
<1>14. CASE CopyProfiles
  BY <1>0, <1>14 DEF CopyProfiles, RestSame, Goto, past, KeysInv, KeysKept, KeysOf, Apart, FileInv,
     MigTypes, PlaceInv, MemType, Files, Moved, Steps, Late, Dropping, NoMem, Movable, AnySmall, Schema,
     Saved
<1>15. CASE DropForgotten
  BY <1>0, <1>15, Forgetting DEF KeysInv, KeysKept, KeysOf, Apart, FileInv, MigTypes, PlaceInv, MemType,
     Files, Moved, Steps, Late, Dropping, NoMem, Movable, AnySmall, Schema, Saved
<1>16. CASE DropSave
  BY <1>0, <1>16 DEF DropSave, RestSame, Goto, past, KeysInv, KeysKept, KeysOf, Apart, FileInv, MigTypes,
     PlaceInv, MemType, Files, Moved, Steps, Late, Dropping, NoMem, Movable, AnySmall, Schema, Saved
<1>17. CASE DropKeys
  BY <1>0, <1>17, NoSuchFile DEF DropKeys, RestSame, Goto, past, KeysInv, KeysKept, KeysOf, Apart,
     FileInv, MigTypes, PlaceInv, MemType, Files, Moved, Steps, Late, Dropping, NoMem, Movable, AnySmall,
     Schema, Saved
<1>18. CASE DropCodecs
  BY <1>0, <1>18 DEF DropCodecs, RestSame, Goto, past, KeysInv, KeysKept, KeysOf, Apart, FileInv,
     MigTypes, PlaceInv, MemType, Files, Moved, Steps, Late, Dropping, NoMem, Movable, AnySmall, Schema,
     Saved
<1>19. CASE DropFails
  BY <1>0, <1>19, MigrationBounds DEF DropFails, Goto, Fault, disk, past, KeysInv, KeysKept, KeysOf,
     Apart, FileInv, MigTypes, PlaceInv, MemType, Files, Moved, Steps, Late, Dropping, NoMem, Movable,
     AnySmall, Schema, Saved
<1>20. CASE SaveSettings
  BY <1>0, <1>20 DEF SaveSettings, RestSame, Goto, past, KeysInv, KeysKept, KeysOf, Apart, FileInv,
     MigTypes, PlaceInv, MemType, Files, Moved, Steps, Late, Dropping, NoMem, Movable, AnySmall, Schema,
     Saved
<1>21. CASE SaveFails
  BY <1>0, <1>21, MigrationBounds DEF SaveFails, Goto, Fault, disk, past, KeysInv, KeysKept, KeysOf,
     Apart, FileInv, MigTypes, PlaceInv, MemType, Files, Moved, Steps, Late, Dropping, NoMem, Movable,
     AnySmall, Schema, Saved
<1>22. CASE MoveLooseFirmware
  BY <1>0, <1>22 DEF MoveLooseFirmware, RestSame, Goto, past, KeysInv, KeysKept, KeysOf, Apart, FileInv,
     MigTypes, PlaceInv, MemType, Files, Moved, Steps, Late, Dropping, NoMem, Movable, AnySmall, Schema,
     Saved
<1>23. CASE Consolidate
  BY <1>0, <1>23 DEF Consolidate, RestSame, Goto, OpenProfilesCopy, past, KeysInv, KeysKept, KeysOf,
     Apart, FileInv, MigTypes, PlaceInv, MemType, Files, Moved, Steps, Late, Dropping, NoMem, Movable,
     AnySmall, Schema, Saved
<1>24. CASE FoldSave
  BY <1>0, <1>24 DEF FoldSave, RestSame, Goto, past, KeysInv, KeysKept, KeysOf, Apart, FileInv, MigTypes,
     PlaceInv, MemType, Files, Moved, Steps, Late, Dropping, NoMem, Movable, AnySmall, Schema, Saved
<1>25. CASE FoldFails
  BY <1>0, <1>25, MigrationBounds DEF FoldFails, Goto, Fault, disk, past, KeysInv, KeysKept, KeysOf,
     Apart, FileInv, MigTypes, PlaceInv, MemType, Files, Moved, Steps, Late, Dropping, NoMem, Movable,
     AnySmall, Schema, Saved
<1>26. CASE ServiceSaves
  BY <1>0, <1>26 DEF ServiceSaves, RestSame, past, KeysInv, KeysKept, KeysOf, Apart, FileInv, MigTypes,
     PlaceInv, MemType, Files, Moved, Steps, Late, Dropping, NoMem, Movable, AnySmall, Schema, Saved
<1>27. CASE Quit
  BY <1>0, <1>27 DEF Quit, RestSame, Goto, disk, past, KeysInv, KeysKept, KeysOf, Apart, FileInv,
     MigTypes, PlaceInv, MemType, Files, Moved, Steps, Late, Dropping, NoMem, Movable, AnySmall, Schema,
     Saved
<1>28. CASE Kill
  BY <1>0, <1>28, MigrationBounds DEF Kill, Goto, disk, KeysInv, KeysKept, KeysOf, Apart, FileInv,
     MigTypes, PlaceInv, MemType, Files, Moved, Steps, Late, Dropping, NoMem, Movable, AnySmall, Schema,
     Saved
<1>29. ASSUME NEW d \in Dev, ServicePairs(d) PROVE KeysInv'
  BY <1>0, <1>29, NoSuchFile DEF ServicePairs, KeysInv, KeysKept, KeysOf, Apart, FileInv, MigTypes,
     PlaceInv, MemType, Files, Moved, Steps, Late, Dropping, NoMem, Movable, AnySmall, Schema, Saved
<1>30. QED
  BY <1>1, <1>2, <1>3, <1>4, <1>5, <1>6, <1>7, <1>8, <1>9, <1>10, <1>11, <1>12, <1>13, <1>14, <1>15,
     <1>16, <1>17, <1>18, <1>19, <1>20, <1>21, <1>22, <1>23, <1>24, <1>25, <1>26, <1>27, <1>28, <1>29 DEF
     MigrationNext

\* Each step keeps the types
LEMMA MigTypesStep == ASSUME MigInv, MigrationNext PROVE MigTypes'
<1>0. MigTypes
  BY DEF MigInv
<1>1. CASE StartPrepare
  <2> DEFINE v1 == IF cfg.schema # 0 THEN cfg.schema < 2
                   ELSE prof # {} \/ \E f \in {"devices", "keys"} : top[f] # NoFile
  <2>1. v1 \in BOOLEAN /\ cfg.schema \in 0..Schema
    <3>1. cfg.schema \in 0..Schema
      BY <1>0 DEF MigTypes, Config
    <3>2. (cfg.schema < 2) \in BOOLEAN
      BY <3>1 DEF Schema
    <3>3. (prof # {} \/ \E f \in {"devices", "keys"} : top[f] # NoFile) \in BOOLEAN
      BY Zenon
    <3>4. QED
      BY <3>1, <3>2, <3>3, Zenon
  <2>2. /\ mem' = [NoMem EXCEPT !.before = cfg.schema, !.v1 = v1]
        /\ at' \in {"backup1", "load1", "load2", "firmware"}
        /\ UNCHANGED <<disk, past, faults, kills>>
    BY <1>1 DEF StartPrepare, RestSame, Goto
  <2> HIDE DEF v1
  <2>3. mem' \in MemType
    BY <2>1, <2>2 DEF NoMem, MemType
  <2>4. QED
    BY <1>0, <2>2, <2>3 DEF MigTypes, disk, past, Steps, Late
<1>2. CASE BackupOpen
  BY <1>0, <1>2 DEF BackupOpen, RestSame, Goto, past, MigTypes, Steps, Late, Dropping
<1>3. CASE BackupDone
  BY <1>0, <1>3 DEF BackupDone, RestSame, past, MigTypes, Content, Folder
<1>4. CASE BackupRename
  BY <1>0, <1>4 DEF BackupRename, RestSame, Goto, past, MigTypes, Steps, Late, Dropping
<1>5. CASE BackupFails
  BY <1>0, <1>5, MigrationBounds DEF BackupFails, Goto, Fault, past, MigTypes, Steps, Late, Dropping
<1>6. CASE LoadV1
  <2>0. (~Chosen(prof)) \in BOOLEAN
    BY Zenon DEF Chosen
  <2>1. (~Chosen(prof)) \in BOOLEAN /\ cfg.volumes \in SUBSET Dev
    BY <1>0, <2>0 DEF MigTypes, Config
  <2>2. mem' \in MemType
    BY <1>0, <1>6, <2>1 DEF LoadV1, MigTypes, MemType
  <2>3. QED
    BY <1>0, <1>6, <2>2 DEF LoadV1, RestSame, Goto, disk, past, MigTypes, Steps
<1>7. CASE SaveSeeded
  <2>1. Seeded \in SUBSET Profile
    <3>1. \A p \in Profile : [p EXCEPT !.sized = TRUE] \in Profile
      BY DEF Profile
    <3>2. QED
      BY <1>0, <3>1, Zenon DEF Seeded, MigTypes
  <2>2. QED
    BY <1>0, <1>7, <2>1 DEF SaveSeeded, RestSame, Goto, past, MigTypes, Steps
<1>8. CASE SeedFails
  BY <1>0, <1>8, MigrationBounds DEF SeedFails, Goto, Fault, disk, past, MigTypes, Steps, Late, Dropping
<1>9. CASE LoadV2
  <2> DEFINE auto == IF mem.before < 5 THEN ~Chosen(prof) ELSE cfg.auto
  <2>0. (~Chosen(prof)) \in BOOLEAN
    BY Zenon DEF Chosen
  <2>1. auto \in BOOLEAN /\ cfg.volumes \in SUBSET Dev
    BY <1>0, <2>0 DEF MigTypes, Config
  <2>2. mem' = [mem EXCEPT !.auto = auto, !.volumes = cfg.volumes]
    BY <1>9 DEF LoadV2
  <2> HIDE DEF auto
  <2>3. mem' \in MemType
    BY <1>0, <2>1, <2>2 DEF MigTypes, MemType
  <2>4. QED
    BY <1>0, <1>9, <2>3 DEF LoadV2, RestSame, Goto, disk, past, MigTypes, Steps
<1>10. CASE Relayout
  BY <1>0, <1>10 DEF Relayout, RestSame, Goto, disk, past, MigTypes, Steps, Late, Dropping
<1>11. CASE MoveFile
  <2>1. top' \in Files /\ sub' \in Files
    BY <1>0, <1>11 DEF MoveFile, Movable, MigTypes, Files
  <2>2. QED
    BY <1>0, <1>11, <2>1 DEF MoveFile, RestSame, past, MigTypes
<1>12. CASE MoveFails
  <2>1. mem' \in MemType
    BY <1>0, <1>12 DEF MoveFails, Movable, MigTypes, MemType
  <2>2. QED
    BY <1>0, <1>12, <2>1, MigrationBounds DEF MoveFails, Fault, disk, past, MigTypes
<1>13. CASE RelayoutDone
  BY <1>0, <1>13 DEF RelayoutDone, Goto, MigTypes, Steps, Late, Dropping
<1>14. CASE CopyProfiles
  BY <1>0, <1>14 DEF CopyProfiles, RestSame, Goto, past, MigTypes, Steps, Dropping, Late
<1>15. CASE DropForgotten
  <2>1. mem' \in MemType
    BY <1>0, <1>15, Forgetting DEF MigTypes, MemType
  <2>2. at' \in Steps /\ bak' \in [v1 : Folder \cup {NoFile}, v2 : Folder \cup {NoFile},
                                   prof : (SUBSET Profile) \cup {NoFile, HalfFile}]
    BY <1>0, <1>15, Forgetting DEF MigTypes, Steps, Dropping
  <2>3. QED
    BY <1>0, <1>15, <2>1, <2>2, Forgetting DEF MigTypes
<1>16. CASE DropSave
  <2>1. mem' \in MemType
    BY <1>0, <1>16 DEF DropSave, MigTypes, MemType
  <2>2. QED
    BY <1>0, <1>16, <2>1 DEF DropSave, RestSame, Goto, past, MigTypes, Steps, Dropping
<1>17. CASE DropKeys
  <2>1. mem' \in MemType /\ at' \in Steps
    BY <1>0, <1>17 DEF DropKeys, Goto, MigTypes, MemType, Steps, Dropping
  <2>2. sub' \in Files
    BY <1>0, <1>17 DEF DropKeys, MigTypes, Files, Moved
  <2>3. QED
    BY <1>0, <1>17, <2>1, <2>2 DEF DropKeys, RestSame, past, MigTypes
<1>18. CASE DropCodecs
  <2>1. sub' \in Files
    BY <1>0, <1>18 DEF DropCodecs, MigTypes, Files, Moved
  <2>2. QED
    BY <1>0, <1>18, <2>1 DEF DropCodecs, RestSame, Goto, past, MigTypes, Steps
<1>19. CASE DropFails
  <2>1. mem' \in MemType
    BY <1>0, <1>19 DEF DropFails, MigTypes, MemType
  <2>2. QED
    BY <1>0, <1>19, <2>1, MigrationBounds DEF DropFails, Fault, Goto, disk, past, MigTypes, Steps
<1>20. CASE SaveSettings
  <2>1. cfg' \in Config
    BY <1>0, <1>20 DEF SaveSettings, Saved, MigTypes, MemType, Config, Schema
  <2>2. QED
    BY <1>0, <1>20, <2>1 DEF SaveSettings, RestSame, Goto, past, MigTypes, Steps, Late
<1>21. CASE SaveFails
  BY <1>0, <1>21, MigrationBounds DEF SaveFails, Goto, Fault, disk, past, MigTypes, Steps, Late, Dropping
<1>22. CASE MoveLooseFirmware
  BY <1>0, <1>22 DEF MoveLooseFirmware, RestSame, Goto, past, MigTypes, Steps, Late, Dropping
<1>23. CASE Consolidate
  <2>1. at' \in Steps /\ bak' \in [v1 : Folder \cup {NoFile}, v2 : Folder \cup {NoFile},
                                   prof : (SUBSET Profile) \cup {NoFile, HalfFile}]
    BY <1>0, <1>23 DEF Consolidate, OpenProfilesCopy, Goto, MigTypes, Steps, Late
  <2>2. QED
    BY <1>0, <1>23, <2>1 DEF Consolidate, RestSame, past, MigTypes
<1>24. CASE FoldSave
  <2>1. \A list \in Folds : list \in SUBSET Profile
    BY <1>0, FoldsTyped DEF MigTypes
  <2>2. QED
    BY <1>0, <1>24, <2>1 DEF FoldSave, RestSame, Goto, past, MigTypes, Steps, Late
<1>25. CASE FoldFails
  BY <1>0, <1>25, MigrationBounds DEF FoldFails, Goto, Fault, disk, past, MigTypes, Steps, Late, Dropping
<1>26. CASE ServiceSaves
  <2>1. cfg' \in Config
    BY <1>0, <1>26 DEF ServiceSaves, Saved, MigTypes, Config, Schema
  <2>2. QED
    BY <1>0, <1>26, <2>1 DEF ServiceSaves, RestSame, past, MigTypes
<1>27. CASE Quit
  BY <1>0, <1>27 DEF Quit, RestSame, Goto, disk, past, MigTypes, Steps, Late, Dropping
<1>28. CASE Kill
  <2>1. mem' \in MemType
    BY <1>28 DEF Kill, NoMem, MemType, Schema
  <2>2. cut' \in BOOLEAN
    BY <1>0, <1>28 DEF Kill, MigTypes
  <2>3. QED
    BY <1>0, <1>28, <2>1, <2>2, MigrationBounds DEF Kill, Goto, disk, MigTypes, Steps
<1>29. ASSUME NEW d \in Dev, ServicePairs(d) PROVE MigTypes'
  <2>1. sub' \in Files
    BY <1>0, <1>29 DEF ServicePairs, MigTypes, Files, Moved
  <2>2. QED
    BY <1>0, <1>29, <2>1 DEF ServicePairs, MigTypes
<1>30. QED
  BY <1>1, <1>2, <1>3, <1>4, <1>5, <1>6, <1>7, <1>8, <1>9, <1>10, <1>11, <1>12, <1>13, <1>14, <1>15,
     <1>16, <1>17, <1>18, <1>19, <1>20, <1>21, <1>22, <1>23, <1>24, <1>25, <1>26, <1>27, <1>28, <1>29 DEF
     MigrationNext

\* Under Before, only some steps are taken, and they leave the settings alone
BeforeNext ==
    \/ StartPrepare \/ BackupOpen \/ BackupDone \/ BackupRename
    \/ LoadV1 \/ SaveSeeded \/ LoadV2
    \/ Relayout \/ MoveFile \/ RelayoutDone
    \/ CopyProfiles \/ DropForgotten \/ DropSave \/ DropKeys \/ DropCodecs
    \/ Kill

\* Without a failing write, none of the steps is a failure
LEMMA NoFaults ==
    ASSUME MigInv, MigrationNext, faults' = 0
    PROVE  /\ faults = 0 /\ orig' = orig
           /\ ~BackupFails /\ ~SeedFails /\ ~MoveFails /\ ~DropFails /\ ~SaveFails /\ ~FoldFails
<1>1. faults \in Nat
  BY MigrationBounds DEF MigInv, MigTypes
<1>2. orig' = orig
  BY DEF MigrationNext, disk, past, RestSame, StartPrepare, BackupOpen, BackupDone, BackupRename, BackupFails,
         LoadV1, SaveSeeded, SeedFails, LoadV2, Relayout, MoveFile, MoveFails, RelayoutDone, CopyProfiles,
         DropForgotten, DropSave, DropKeys, DropCodecs, DropFails, SaveSettings, SaveFails, MoveLooseFirmware,
         Consolidate, FoldSave, FoldFails, ServiceSaves, Quit, Kill, ServicePairs
<1>3. ~BackupFails /\ ~SeedFails /\ ~MoveFails /\ ~DropFails /\ ~SaveFails /\ ~FoldFails
  BY <1>1 DEF BackupFails, SeedFails, MoveFails, DropFails, SaveFails, FoldFails, Fault
<1>4. faults = 0
  BY <1>3 DEF MigrationNext, disk, past, RestSame, StartPrepare, BackupOpen, BackupDone, BackupRename,
         LoadV1, SaveSeeded, LoadV2, Relayout, MoveFile, RelayoutDone, CopyProfiles,
         DropForgotten, DropSave, DropKeys, DropCodecs, SaveSettings, MoveLooseFirmware,
         Consolidate, FoldSave, ServiceSaves, Quit, Kill, ServicePairs
<1>5. QED
  BY <1>2, <1>3, <1>4

\* Up to the save, a start without failures is somewhere in prepare
LEMMA BeforeSteps ==
    ASSUME MigInv, MigrationNext, Before'
    PROVE  /\ BeforeNext /\ Before /\ cfg' = cfg /\ orig' = orig /\ cfg = orig.cfg /\ cfg.schema \in {1, 4, 6}
           /\ Placed /\ OldCopied /\ CodecsInv /\ TracesInv /\ faults = 0 /\ faults' = 0
<1>1. faults' = 0 /\ faults = 0 /\ orig' = orig
  BY NoFaults DEF Before
<1>2. ~BackupFails /\ ~SeedFails /\ ~MoveFails /\ ~DropFails /\ ~SaveFails /\ ~FoldFails
  BY NoFaults DEF Before
<1>3. ~SaveSettings /\ ~ServiceSaves
  BY DEF SaveSettings, ServiceSaves, Saved, Before
<1>4. cfg' = cfg
  BY <1>2, <1>3, <1>1 DEF MigrationNext, disk, past, RestSame, StartPrepare, BackupOpen, BackupDone,
     BackupRename, LoadV1, SaveSeeded,
           LoadV2, Relayout, MoveFile, RelayoutDone, CopyProfiles, DropForgotten, DropSave,
           DropKeys, DropCodecs, MoveLooseFirmware, Consolidate, FoldSave,
           Quit, Kill, ServicePairs
<1>5. Before
  BY <1>1, <1>4 DEF Before
<1>6. Placed /\ OldCopied /\ CodecsInv /\ TracesInv
  BY <1>5 DEF MigInv, BeforeInv
<1>7. cfg = orig.cfg /\ cfg.schema \in {1, 4, 6}
  BY <1>5 DEF Before, MigInv, PlaceInv, Schema
<1>8. BeforeNext
  BY <1>2, <1>3, <1>6 DEF MigrationNext, BeforeNext, Placed, Late, MoveLooseFirmware, Consolidate,
     FoldSave, Quit, ServicePairs
<1>9. QED
  BY <1>1, <1>4, <1>5, <1>6, <1>7, <1>8

\* Each profile is there with its packet size
LEMMA SeedOf ==
    ASSUME MigTypes
    PROVE  \A r \in prof : \E p \in Seeded : r.dev = p.dev /\ r.codec = p.codec
<1> DEFINE seed(r) == IF cfg.legacy THEN [r EXCEPT !.sized = TRUE] ELSE r
<1>1. ASSUME NEW r \in prof PROVE seed(r) \in Seeded /\ seed(r).dev = r.dev /\ seed(r).codec = r.codec
  BY DEF Seeded, MigTypes, Profile
<1>2. QED
  BY <1>1

\* What Auto-select has to be is about the old version's profiles alone
LEMMA DecidedSame == ASSUME UNCHANGED orig, mem'.auto = mem.auto PROVE Decided(mem.auto)' <=> Decided(mem.auto)
  BY DEF Decided, Saved0, Chosen

\* A step that leaves the profiles alone keeps what is known of the codecs
LEMMA CodecsSame ==
    ASSUME CodecsInv, UNCHANGED <<prof, orig>>, mem'.auto = mem.auto, at' \in DecidedAt => at \in DecidedAt
    PROVE  CodecsInv'
<1>1. (at' \in DecidedAt => Decided(mem.auto)')
  BY DecidedSame DEF CodecsInv
<1>2. QED
  BY <1>1 DEF CodecsInv, Saved0, DecidedAt, Dropping

\* Both loads decide Auto-select from the profiles
LEMMA DecidedWell ==
    ASSUME CodecsInv, UNCHANGED orig, orig.cfg.schema < 5 => mem'.auto = ~Chosen(prof)
    PROVE  Decided(mem.auto)'
<1>1. Chosen({p \in orig.prof : p.dev \in Saved0}) => Chosen(prof)
  <2>1. ASSUME NEW q \in orig.prof, q.dev \in Saved0, q.codec # "auto" PROVE Chosen(prof)
    <3>1. PICK p \in prof : p.dev = q.dev /\ p.codec = q.codec
      BY <2>1 DEF CodecsInv
    <3>2. QED
      BY <2>1, <3>1 DEF Chosen
  <2>2. QED
    BY <2>1 DEF Chosen
<1>2. ~Chosen(orig.prof) => ~Chosen(prof)
  <2>1. ASSUME NEW p \in prof, p.codec # "auto" PROVE Chosen(orig.prof)
    <3>1. PICK q \in orig.prof : q.dev = p.dev /\ q.codec = p.codec
      BY <2>1 DEF CodecsInv
    <3>2. QED
      BY <2>1, <3>1 DEF Chosen
  <2>2. QED
    BY <2>1 DEF Chosen
<1>3. QED
  BY <1>1, <1>2 DEF Decided, Saved0, Chosen

\* Up to the save, no file is in two places or in none
LEMMA PlacedStep == ASSUME MigInv, MigrationNext, Before' PROVE Placed'
<1>0. /\ Placed /\ FileInv /\ PlaceInv /\ MigTypes /\ Before
      /\ cfg' = cfg /\ orig' = orig /\ cfg = orig.cfg /\ cfg.schema \in {1, 4, 6} /\ faults = 0
  BY BeforeSteps DEF MigInv
<1>1. CASE StartPrepare
  BY <1>0, <1>1 DEF StartPrepare, RestSame, Goto, disk, past, Placed, FileInv, PlaceInv, MigTypes, Files,
     Moved, Schema, Saved0, Movable, Steps, Late, Dropping, NoMem, Before
<1>2. CASE BackupOpen
  BY <1>0, <1>2 DEF BackupOpen, RestSame, Goto, past, Placed, FileInv, PlaceInv, MigTypes, Files, Moved,
     Schema, Saved0, Movable, Steps, Late, Dropping, NoMem, Before
<1>3. CASE BackupDone
  BY <1>0, <1>3 DEF BackupDone, RestSame, past, Placed, FileInv, PlaceInv, MigTypes, Files, Moved, Schema,
     Saved0, Movable, Steps, Late, Dropping, NoMem, Before
<1>4. CASE BackupRename
  BY <1>0, <1>4 DEF BackupRename, RestSame, Goto, past, Placed, FileInv, PlaceInv, MigTypes, Files, Moved,
     Schema, Saved0, Movable, Steps, Late, Dropping, NoMem, Before
<1>5. CASE LoadV1
  BY <1>0, <1>5 DEF LoadV1, RestSame, Goto, disk, past, Placed, FileInv, PlaceInv, MigTypes, Files, Moved,
     Schema, Saved0, Movable, Steps, Late, Dropping, NoMem, Before
<1>6. CASE SaveSeeded
  BY <1>0, <1>6 DEF SaveSeeded, RestSame, Goto, past, Placed, FileInv, PlaceInv, MigTypes, Files, Moved,
     Schema, Saved0, Movable, Steps, Late, Dropping, NoMem, Before
<1>7. CASE LoadV2
  BY <1>0, <1>7 DEF LoadV2, RestSame, Goto, disk, past, Placed, FileInv, PlaceInv, MigTypes, Files, Moved,
     Schema, Saved0, Movable, Steps, Late, Dropping, NoMem, Before
<1>8. CASE Relayout
  BY <1>0, <1>8 DEF Relayout, RestSame, Goto, disk, past, Placed, FileInv, PlaceInv, MigTypes, Files,
     Moved, Schema, Saved0, Movable, Steps, Late, Dropping, NoMem, Before
<1>9. CASE MoveFile
  BY <1>0, <1>9 DEF MoveFile, RestSame, past, Placed, FileInv, PlaceInv, MigTypes, Files, Moved, Schema,
     Saved0, Movable, Steps, Late, Dropping, NoMem, Before
<1>10. CASE RelayoutDone
  BY <1>0, <1>10 DEF RelayoutDone, Goto, Placed, FileInv, PlaceInv, MigTypes, Files, Moved, Schema,
     Saved0, Movable, Steps, Late, Dropping, NoMem, Before
<1>11. CASE CopyProfiles
  BY <1>0, <1>11 DEF CopyProfiles, RestSame, Goto, past, Placed, FileInv, PlaceInv, MigTypes, Files,
     Moved, Schema, Saved0, Movable, Steps, Late, Dropping, NoMem, Before
<1>12. CASE DropForgotten
  BY <1>0, <1>12, Forgetting DEF Placed, FileInv, PlaceInv, MigTypes, Files, Moved, Schema, Saved0,
     Movable, Steps, Late, Dropping, NoMem, Before
<1>13. CASE DropSave
  BY <1>0, <1>13 DEF DropSave, RestSame, Goto, past, Placed, FileInv, PlaceInv, MigTypes, Files, Moved,
     Schema, Saved0, Movable, Steps, Late, Dropping, NoMem, Before
<1>14. CASE DropKeys
  BY <1>0, <1>14, NoSuchFile DEF DropKeys, RestSame, Goto, past, Placed, FileInv, PlaceInv, MigTypes,
     Files, Moved, Schema, Saved0, Movable, Steps, Late, Dropping, NoMem, Before
<1>15. CASE DropCodecs
  BY <1>0, <1>15, NoSuchFile DEF DropCodecs, RestSame, Goto, past, Placed, FileInv, PlaceInv, MigTypes,
     Files, Moved, Schema, Saved0, Movable, Steps, Late, Dropping, NoMem, Before
<1>16. CASE Kill
  BY <1>0, <1>16, MigrationBounds DEF Kill, Goto, disk, Placed, FileInv, PlaceInv, MigTypes, Files, Moved,
     Schema, Saved0, Movable, Steps, Late, Dropping, NoMem, Before
<1>17. QED
  BY BeforeSteps, <1>1, <1>2, <1>3, <1>4, <1>5, <1>6, <1>7, <1>8, <1>9, <1>10, <1>11, <1>12, <1>13, <1>14,
     <1>15, <1>16 DEF BeforeNext

\* v1's folder is copied before it is changed
LEMMA OldCopiedStep == ASSUME MigInv, MigrationNext, Before' PROVE OldCopied'
<1>0. /\ OldCopied /\ PlaceInv /\ MigTypes /\ ProfInv /\ Before
      /\ cfg' = cfg /\ orig' = orig /\ cfg = orig.cfg /\ cfg.schema \in {1, 4, 6} /\ faults = 0
  BY BeforeSteps DEF MigInv
<1>1. CASE StartPrepare
  BY <1>0, <1>1 DEF StartPrepare, RestSame, Goto, disk, past, OldCopied, PlaceInv, MigTypes, Config,
     Folder, Content, AllSized, MemType, Schema, Steps, Late, Dropping, NoMem, Before
<1>2. CASE BackupOpen
  BY <1>0, <1>2 DEF BackupOpen, RestSame, Goto, past, OldCopied, PlaceInv, MigTypes, Config, Folder,
     Content, AllSized, MemType, Schema, Steps, Late, Dropping, NoMem, Before
<1>3. CASE BackupDone
  BY <1>0, <1>3 DEF BackupDone, RestSame, past, OldCopied, PlaceInv, MigTypes, Config, Folder, Content,
     AllSized, MemType, Schema, Steps, Late, Dropping, NoMem, Before
<1>4. CASE BackupRename
  <2>1. CASE at = "copy1"
    <3>1. tmp = Content /\ bak.v1 = NoFile /\ cfg.schema < 2
      BY <1>0, <1>4, <2>1 DEF BackupRename, PlaceInv
    <3>2. cfg.schema = 1
      BY <1>0, <3>1
    <3>3. Content = orig
      <4>1. prof = orig.prof /\ top = orig.files /\ loose = orig.loose
        BY <1>0, <3>1, <3>2 DEF OldCopied, ProfInv
      <4>2. QED
        BY <1>0, <4>1 DEF Content, MigTypes, Folder
    <3>4. bak'.v1 = Content /\ at' = "load1" /\ UNCHANGED <<prof, top, loose>>
      BY <1>0, <1>4, <2>1, <3>1 DEF BackupRename, Goto, MigTypes
    <3>5. QED
      BY <1>0, <3>1, <3>2, <3>3, <3>4 DEF OldCopied
  <2>2. CASE at = "copy2"
    BY <1>0, <1>4, <2>2 DEF BackupRename, RestSame, past, Goto, MigTypes, OldCopied, AllSized
  <2>3. QED
    BY <1>4, <2>1, <2>2 DEF BackupRename
<1>5. CASE LoadV1
  <2>1. at = "load1" /\ UNCHANGED <<cfg, prof, top, loose, bak>> /\ bak.v1 # NoFile
        /\ at' \in {"seed", "layout"} /\ (at' = "layout" => Seeded = prof)
    BY <1>0, <1>5 DEF LoadV1, RestSame, Goto, disk, PlaceInv
  <2>2. Seeded = prof => AllSized
    BY <1>0 DEF Seeded, AllSized, MigTypes, Profile
  <2>3. QED
    BY <1>0, <2>1, <2>2 DEF OldCopied, AllSized
<1>6. CASE SaveSeeded
  <2>1. at = "seed" /\ UNCHANGED <<cfg, top, loose, bak>> /\ bak.v1 # NoFile
        /\ at' = "layout" /\ prof' = Seeded
    BY <1>0, <1>6 DEF SaveSeeded, RestSame, Goto, PlaceInv
  <2>2. AllSized'
    BY <1>0, <2>1 DEF Seeded, AllSized, MigTypes, Profile
  <2>3. QED
    BY <1>0, <2>1, <2>2 DEF OldCopied
<1>7. CASE LoadV2
  BY <1>0, <1>7 DEF LoadV2, RestSame, Goto, disk, past, OldCopied, PlaceInv, MigTypes, Config, Folder,
     Content, AllSized, MemType, Schema, Steps, Late, Dropping, NoMem, Before
<1>8. CASE Relayout
  BY <1>0, <1>8 DEF Relayout, RestSame, Goto, disk, past, OldCopied, PlaceInv, MigTypes, Config, Folder,
     Content, AllSized, MemType, Schema, Steps, Late, Dropping, NoMem, Before
<1>9. CASE MoveFile
  BY <1>0, <1>9 DEF MoveFile, RestSame, past, OldCopied, PlaceInv, MigTypes, Config, Folder, Content,
     AllSized, MemType, Schema, Steps, Late, Dropping, NoMem, Before
<1>10. CASE RelayoutDone
  BY <1>0, <1>10 DEF RelayoutDone, Goto, OldCopied, PlaceInv, MigTypes, Config, Folder, Content, AllSized,
     MemType, Schema, Steps, Late, Dropping, NoMem, Before
<1>11. CASE CopyProfiles
  BY <1>0, <1>11 DEF CopyProfiles, RestSame, Goto, past, OldCopied, PlaceInv, MigTypes, Config, Folder,
     Content, AllSized, MemType, Schema, Steps, Late, Dropping, NoMem, Before
<1>12. CASE DropForgotten
  BY <1>0, <1>12, Forgetting DEF OldCopied, PlaceInv, MigTypes, Config, Folder, Content, AllSized,
     MemType, Schema, Steps, Late, Dropping, NoMem, Before
<1>13. CASE DropSave
  BY <1>0, <1>13 DEF DropSave, RestSame, Goto, past, OldCopied, PlaceInv, MigTypes, Config, Folder,
     Content, AllSized, MemType, Schema, Steps, Late, Dropping, NoMem, Before
<1>14. CASE DropKeys
  BY <1>0, <1>14 DEF DropKeys, RestSame, Goto, past, OldCopied, PlaceInv, MigTypes, Config, Folder,
     Content, AllSized, MemType, Schema, Steps, Late, Dropping, NoMem, Before
<1>15. CASE DropCodecs
  BY <1>0, <1>15 DEF DropCodecs, RestSame, Goto, past, OldCopied, PlaceInv, MigTypes, Config, Folder,
     Content, AllSized, MemType, Schema, Steps, Late, Dropping, NoMem, Before
<1>16. CASE Kill
  BY <1>0, <1>16, MigrationBounds DEF Kill, Goto, disk, OldCopied, PlaceInv, MigTypes, Config, Folder,
     Content, AllSized, MemType, Schema, Steps, Late, Dropping, NoMem, Before
<1>17. QED
  BY BeforeSteps, <1>1, <1>2, <1>3, <1>4, <1>5, <1>6, <1>7, <1>8, <1>9, <1>10, <1>11, <1>12, <1>13, <1>14,
     <1>15, <1>16 DEF BeforeNext

\* The codecs that were chosen decide Auto-select
LEMMA CodecsInvStep == ASSUME MigInv, MigrationNext, Before' PROVE CodecsInv'
<1>0. /\ CodecsInv /\ Placed /\ PlaceInv /\ MigTypes /\ Before
      /\ cfg' = cfg /\ orig' = orig /\ cfg = orig.cfg /\ cfg.schema \in {1, 4, 6} /\ faults = 0
  BY BeforeSteps DEF MigInv
<1>1. CASE StartPrepare
  <2>1. UNCHANGED <<prof, orig>> /\ at' \notin DecidedAt
    BY <1>1 DEF StartPrepare, RestSame, Goto, disk, past, DecidedAt, Dropping
  <2>2. QED
    BY <1>0, <2>1 DEF CodecsInv, Saved0, DecidedAt, Dropping
<1>2. CASE BackupOpen
  <2>1. UNCHANGED <<prof, orig>> /\ mem'.auto = mem.auto
    BY <1>0, <1>2 DEF BackupOpen, RestSame, Goto, disk, past, MigTypes, MemType
  <2>2. at' \in DecidedAt => at \in DecidedAt
    BY <1>0, <1>2 DEF BackupOpen, RestSame, Goto, disk, past, DecidedAt, Dropping, PlaceInv
  <2>3. QED
    BY <1>0, <2>1, <2>2, CodecsSame
<1>3. CASE BackupDone
  <2>1. UNCHANGED <<prof, orig>> /\ mem'.auto = mem.auto
    BY <1>0, <1>3 DEF BackupDone, RestSame, Goto, disk, past, MigTypes, MemType
  <2>2. at' \in DecidedAt => at \in DecidedAt
    BY <1>0, <1>3 DEF BackupDone, RestSame, Goto, disk, past, DecidedAt, Dropping, PlaceInv
  <2>3. QED
    BY <1>0, <2>1, <2>2, CodecsSame
<1>4. CASE BackupRename
  <2>1. UNCHANGED <<prof, orig>> /\ mem'.auto = mem.auto
    BY <1>0, <1>4 DEF BackupRename, RestSame, Goto, disk, past, MigTypes, MemType
  <2>2. at' \in DecidedAt => at \in DecidedAt
    BY <1>0, <1>4 DEF BackupRename, RestSame, Goto, disk, past, DecidedAt, Dropping, PlaceInv
  <2>3. QED
    BY <1>0, <2>1, <2>2, CodecsSame
<1>5. CASE LoadV1
  <2>1. UNCHANGED <<prof, orig>>
    BY <1>5 DEF LoadV1, RestSame, disk, past
  <2>2. orig.cfg.schema < 5 => mem'.auto = ~Chosen(prof)
    BY <1>0, <1>5 DEF LoadV1, MigTypes, MemType, PlaceInv, Steps, Late, Schema
  <2>3. Decided(mem.auto)'
    BY <1>0, <2>1, <2>2, DecidedWell
  <2>4. QED
    BY <1>0, <2>1, <2>3 DEF CodecsInv, Saved0
<1>6. CASE SaveSeeded
  <2>1. at = "seed" /\ UNCHANGED <<orig, mem>> /\ prof' = Seeded
    BY <1>6 DEF SaveSeeded, RestSame, past
  <2>2. \A p \in Seeded : \E r \in prof : r.dev = p.dev /\ r.codec = p.codec
    BY <1>0 DEF Seeded, MigTypes, Profile
  <2>3. \A r \in prof : \E p \in Seeded : r.dev = p.dev /\ r.codec = p.codec
    BY <1>0, SeedOf
  <2>4. Decided(mem.auto)'
    BY <1>0, <2>1, DecidedSame DEF CodecsInv, DecidedAt
  <2>5. /\ \A p \in prof' : \E q \in orig.prof : q.dev = p.dev /\ q.codec = p.codec
        /\ \A q \in orig.prof : q.dev \in Saved0 => \E p \in prof' : p.dev = q.dev /\ p.codec = q.codec
    <3>1. ASSUME NEW p \in prof' PROVE \E q \in orig.prof : q.dev = p.dev /\ q.codec = p.codec
      BY <1>0, <2>1, <2>2, <3>1 DEF CodecsInv
    <3>2. ASSUME NEW q \in orig.prof, q.dev \in Saved0
          PROVE  \E p \in prof' : p.dev = q.dev /\ p.codec = q.codec
      <4>1. PICK r \in prof : r.dev = q.dev /\ r.codec = q.codec
        BY <1>0, <3>2 DEF CodecsInv
      <4>2. QED
        BY <2>1, <2>3, <4>1
    <3>3. QED
      BY <3>1, <3>2
  <2>6. QED
    BY <2>1, <2>4, <2>5 DEF CodecsInv, Saved0
<1>7. CASE LoadV2
  <2>1. UNCHANGED <<prof, orig>>
    BY <1>7 DEF LoadV2, RestSame, disk, past
  <2>2. orig.cfg.schema < 5 => mem'.auto = ~Chosen(prof)
    BY <1>0, <1>7 DEF LoadV2, MigTypes, MemType, PlaceInv, Steps, Late, Schema
  <2>3. Decided(mem.auto)'
    BY <1>0, <2>1, <2>2, DecidedWell
  <2>4. QED
    BY <1>0, <2>1, <2>3 DEF CodecsInv, Saved0
<1>8. CASE Relayout
  <2>1. UNCHANGED <<prof, orig>> /\ mem'.auto = mem.auto
    BY <1>0, <1>8 DEF Relayout, RestSame, Goto, disk, past, MigTypes, MemType
  <2>2. at' \in DecidedAt => at \in DecidedAt
    BY <1>0, <1>8 DEF Relayout, RestSame, Goto, disk, past, DecidedAt, Dropping, PlaceInv
  <2>3. QED
    BY <1>0, <2>1, <2>2, CodecsSame
<1>9. CASE MoveFile
  <2>1. UNCHANGED <<prof, orig>> /\ mem'.auto = mem.auto
    BY <1>0, <1>9 DEF MoveFile, RestSame, Goto, disk, past, MigTypes, MemType
  <2>2. at' \in DecidedAt => at \in DecidedAt
    BY <1>0, <1>9 DEF MoveFile, RestSame, Goto, disk, past, DecidedAt, Dropping, PlaceInv
  <2>3. QED
    BY <1>0, <2>1, <2>2, CodecsSame
<1>10. CASE RelayoutDone
  <2>1. UNCHANGED <<prof, orig>> /\ mem'.auto = mem.auto
    BY <1>0, <1>10 DEF RelayoutDone, RestSame, Goto, disk, past, MigTypes, MemType
  <2>2. at' \in DecidedAt => at \in DecidedAt
    BY <1>0, <1>10 DEF RelayoutDone, RestSame, Goto, disk, past, DecidedAt, Dropping, PlaceInv
  <2>3. QED
    BY <1>0, <2>1, <2>2, CodecsSame
<1>11. CASE CopyProfiles
  <2>1. UNCHANGED <<prof, orig>> /\ mem'.auto = mem.auto
    BY <1>0, <1>11 DEF CopyProfiles, RestSame, Goto, disk, past, MigTypes, MemType
  <2>2. at' \in DecidedAt => at \in DecidedAt
    BY <1>0, <1>11 DEF CopyProfiles, RestSame, Goto, disk, past, DecidedAt, Dropping, PlaceInv
  <2>3. QED
    BY <1>0, <2>1, <2>2, CodecsSame
<1>12. CASE DropForgotten
  <2>1. UNCHANGED <<prof, orig>> /\ mem'.auto = mem.auto
    BY <1>0, <1>12, Forgetting DEF MigTypes, MemType
  <2>2. at \in DecidedAt
    BY <1>0, <1>12, Forgetting DEF DecidedAt, Dropping
  <2>3. QED
    BY <1>0, <2>1, <2>2, CodecsSame
<1>13. CASE DropSave
  <2>1. at = "dropSave" /\ UNCHANGED orig /\ prof' = prof \ Forgotten /\ mem'.auto = mem.auto
    BY <1>0, <1>13 DEF DropSave, RestSame, past, MigTypes, MemType
  <2>2. sub["devices"] = Saved0
    BY <1>0, <2>1 DEF Placed, Dropping, Moved
  <2>3. Decided(mem.auto)'
    BY <1>0, <2>1, DecidedSame DEF CodecsInv, DecidedAt, Dropping
  <2>4. QED
    BY <1>0, <2>1, <2>2, <2>3 DEF CodecsInv, Saved0, Forgotten
<1>14. CASE DropKeys
  <2>1. UNCHANGED <<prof, orig>> /\ mem'.auto = mem.auto
    BY <1>0, <1>14 DEF DropKeys, RestSame, Goto, disk, past, MigTypes, MemType
  <2>2. at' \in DecidedAt => at \in DecidedAt
    BY <1>0, <1>14 DEF DropKeys, RestSame, Goto, disk, past, DecidedAt, Dropping, PlaceInv
  <2>3. QED
    BY <1>0, <2>1, <2>2, CodecsSame
<1>15. CASE DropCodecs
  <2>1. UNCHANGED <<prof, orig>> /\ mem'.auto = mem.auto
    BY <1>0, <1>15 DEF DropCodecs, RestSame, Goto, disk, past, MigTypes, MemType
  <2>2. at' \in DecidedAt => at \in DecidedAt
    BY <1>0, <1>15 DEF DropCodecs, RestSame, Goto, disk, past, DecidedAt, Dropping, PlaceInv
  <2>3. QED
    BY <1>0, <2>1, <2>2, CodecsSame
<1>16. CASE Kill
  <2>1. UNCHANGED <<prof, orig>> /\ at' \notin DecidedAt
    BY <1>0, <1>16 DEF Kill, Goto, disk, DecidedAt, Dropping
  <2>2. QED
    BY <1>0, <2>1 DEF CodecsInv, Saved0, DecidedAt, Dropping
<1>17. QED
  BY BeforeSteps, <1>1, <1>2, <1>3, <1>4, <1>5, <1>6, <1>7, <1>8, <1>9, <1>10, <1>11, <1>12, <1>13, <1>14,
     <1>15, <1>16 DEF BeforeNext

\* What drop_forgotten has removed, up to each of its writes
LEMMA TracesInvStep == ASSUME MigInv, MigrationNext, Before' PROVE TracesInv'
<1>0. /\ TracesInv /\ Placed /\ PlaceInv /\ FileInv /\ MigTypes /\ Before
      /\ cfg' = cfg /\ orig' = orig /\ cfg = orig.cfg /\ cfg.schema \in {1, 4, 6} /\ faults = 0
  BY BeforeSteps DEF MigInv
<1>1. CASE StartPrepare
  BY <1>0, <1>1 DEF StartPrepare, RestSame, Goto, disk, past, TracesInv, DevsKept, Forgot, Saved0,
     PlaceInv, MigTypes, MemType, Files, Moved, Steps, Late, Dropping, NoMem, Before
<1>2. CASE BackupOpen
  BY <1>0, <1>2 DEF BackupOpen, RestSame, Goto, past, TracesInv, DevsKept, Forgot, Saved0, PlaceInv,
     MigTypes, MemType, Files, Moved, Steps, Late, Dropping, NoMem, Before
<1>3. CASE BackupDone
  BY <1>0, <1>3 DEF BackupDone, RestSame, past, TracesInv, DevsKept, Forgot, Saved0, PlaceInv, MigTypes,
     MemType, Files, Moved, Steps, Late, Dropping, NoMem, Before
<1>4. CASE BackupRename
  BY <1>0, <1>4 DEF BackupRename, RestSame, Goto, past, TracesInv, DevsKept, Forgot, Saved0, PlaceInv,
     MigTypes, MemType, Files, Moved, Steps, Late, Dropping, NoMem, Before
<1>5. CASE LoadV1
  BY <1>0, <1>5 DEF LoadV1, RestSame, Goto, disk, past, TracesInv, DevsKept, Forgot, Saved0, PlaceInv,
     MigTypes, MemType, Files, Moved, Steps, Late, Dropping, NoMem, Before
<1>6. CASE SaveSeeded
  <2>1. at = "seed" /\ at' = "layout" /\ UNCHANGED <<cfg, orig, mem, sub, cut>> /\ prof' = Seeded
    BY <1>6 DEF SaveSeeded, RestSame, Goto, past
  <2>2. {p.dev : p \in Seeded} = {p.dev : p \in prof}
    <3>1. \A p \in Seeded : \E r \in prof : r.dev = p.dev
      BY <1>0 DEF Seeded, MigTypes, Profile
    <3>2. \A r \in prof : \E p \in Seeded : r.dev = p.dev
      BY <1>0, SeedOf
    <3>3. QED
      BY <3>1, <3>2
  <2>3. ~cut => DevsKept'
    BY <1>0, <2>1, <2>2 DEF TracesInv, DevsKept
  <2>4. QED
    BY <1>0, <2>1, <2>3 DEF TracesInv, Dropping
<1>7. CASE LoadV2
  BY <1>0, <1>7 DEF LoadV2, RestSame, Goto, disk, past, TracesInv, DevsKept, Forgot, Saved0, PlaceInv,
     MigTypes, MemType, Files, Moved, Steps, Late, Dropping, NoMem, Before
<1>8. CASE Relayout
  BY <1>0, <1>8 DEF Relayout, RestSame, Goto, disk, past, TracesInv, DevsKept, Forgot, Saved0, PlaceInv,
     MigTypes, MemType, Files, Moved, Steps, Late, Dropping, NoMem, Before
<1>9. CASE MoveFile
  BY <1>0, <1>9 DEF MoveFile, RestSame, past, TracesInv, DevsKept, Forgot, Saved0, PlaceInv, MigTypes,
     MemType, Files, Moved, Steps, Late, Dropping, NoMem, Before
<1>10. CASE RelayoutDone
  <2>1. /\ at = "move" /\ mem.before = cfg.schema /\ mem.v1 = (cfg.schema < 2) /\ mem.gone = {}
        /\ UNCHANGED <<cfg, prof, sub, orig, mem, cut>>
        /\ at' = IF mem.v1 THEN IF mem.before # 0 THEN "save" ELSE "firmware"
                 ELSE IF mem.before < 7 THEN "drop" ELSE "save"
    BY <1>0, <1>10 DEF RelayoutDone, Goto, PlaceInv, Steps, Late, TracesInv
  <2>2. at' \in {"drop", "save"} /\ (at' = "save" => cfg.schema = 1)
    <3>1. CASE cfg.schema = 1
      BY <2>1, <3>1
    <3>2. CASE cfg.schema \in {4, 6}
      <4>1. (cfg.schema < 2) = FALSE /\ mem.before < 7
        BY <2>1, <3>2
      <4>2. mem.v1 = FALSE
        BY <2>1, <4>1, Zenon
      <4>3. at' = "drop"
        BY <2>1, <4>1, <4>2, Zenon
      <4>4. QED
        BY <4>3
    <3>3. QED
      BY <1>0, <3>1, <3>2
  <2>3. ~cut => DevsKept /\ DevsKept'
    BY <1>0, <2>1 DEF TracesInv, DevsKept
  <2>4. QED
    BY <2>1, <2>2, <2>3 DEF TracesInv, Dropping
<1>11. CASE CopyProfiles
  BY <1>0, <1>11 DEF CopyProfiles, RestSame, Goto, past, TracesInv, DevsKept, Forgot, Saved0, PlaceInv,
     MigTypes, MemType, Files, Moved, Steps, Late, Dropping, NoMem, Before
<1>12. CASE DropForgotten
  <2>1. at = "drop" /\ UNCHANGED <<cfg, prof, sub, orig, cut>> /\ sub["devices"] = Saved0 /\ mem.gone = {}
    BY <1>0, <1>12, Forgetting DEF Placed, TracesInv, Dropping, Moved
  <2>2. ~cut => DevsKept /\ DevsKept'
    BY <1>0, <2>1 DEF TracesInv, DevsKept
  <2>3. ~cut => {p.dev : p \in Forgotten} = Forgot
    BY <2>1, <2>2 DEF DevsKept, Forgot, Forgotten
  <2>4. CASE at' = "save" /\ UNCHANGED mem /\ Forgotten = {}
    <3>1. ~cut => Forgot = {}
      BY <2>3, <2>4
    <3>2. Forgot' = Forgot /\ mem'.gone = {}
      BY <2>1, <2>4 DEF Forgot, Saved0
    <3>3. QED
      BY <2>1, <2>2, <2>4, <3>1, <3>2 DEF TracesInv, Dropping
  <2>5. CASE /\ mem' = [mem EXCEPT !.gone = {p.dev : p \in Forgotten}, !.left = {p.dev : p \in Forgotten}]
             /\ at' \in {"dropCopy", "dropSave"} /\ Forgotten # {}
    <3>1. mem'.gone = {p.dev : p \in Forgotten} /\ mem'.left = mem'.gone /\ mem'.gone # {}
      BY <1>0, <2>5 DEF MigTypes, MemType
    <3>2. ~cut => mem'.gone = Forgot'
      BY <2>1, <2>3, <3>1 DEF Forgot, Saved0
    <3>3. QED
      BY <2>1, <2>2, <2>5, <3>1, <3>2 DEF TracesInv, Dropping
  <2>6. sub["devices"] # NoFile
    BY <1>0, <2>1 DEF Placed, Dropping, Moved
  <2>7. QED
    BY <2>4, <2>5, <2>6, <1>12 DEF DropForgotten, OpenProfilesCopy, Goto
<1>13. CASE DropSave
  BY <1>0, <1>13 DEF DropSave, RestSame, Goto, past, TracesInv, DevsKept, Forgot, Saved0, PlaceInv,
     MigTypes, MemType, Files, Moved, Steps, Late, Dropping, NoMem, Before
<1>14. CASE DropKeys
  <2>1. PICK d \in mem.left :
           /\ at = "dropKeys" /\ UNCHANGED <<cfg, prof, orig, cut>>
           /\ sub' = IF sub["keys"] = NoFile THEN sub ELSE [sub EXCEPT !["keys"] = @ \ {d}]
           /\ mem' = [mem EXCEPT !.left = @ \ {d}]
           /\ at' = IF mem.left = {d} THEN "dropCodecs" ELSE "dropKeys"
    BY <1>14 DEF DropKeys, RestSame, past, Goto
  <2>2. /\ mem'.left = mem.left \ {d} /\ mem'.gone = mem.gone /\ mem'.volumes = mem.volumes
        /\ mem.gone # {}
    BY <1>0, <2>1 DEF MigTypes, MemType, TracesInv, Dropping
  <2>3. sub["keys"] # NoFile /\ sub'["keys"] = sub["keys"] \ {d}
    BY <1>0, <2>1 DEF Placed, Dropping, Moved, MigTypes, Files
  <2>4. Forgot' = Forgot
    BY <2>1 DEF Forgot, Saved0
  <2>5. CASE at' = "dropKeys"
    BY <1>0, <2>1, <2>2, <2>3, <2>4, <2>5 DEF TracesInv, Dropping
  <2>6. CASE at' = "dropCodecs" /\ mem'.left = {}
    BY <1>0, <2>1, <2>2, <2>3, <2>4, <2>6 DEF TracesInv, Dropping
  <2>7. QED
    BY <2>1, <2>2, <2>5, <2>6
<1>15. CASE DropCodecs
  BY <1>0, <1>15 DEF DropCodecs, RestSame, Goto, past, TracesInv, DevsKept, Forgot, Saved0, PlaceInv,
     MigTypes, MemType, Files, Moved, Steps, Late, Dropping, NoMem, Before
<1>16. CASE Kill
  BY <1>0, <1>16, MigrationBounds DEF Kill, Goto, disk, TracesInv, DevsKept, Forgot, Saved0, PlaceInv,
     MigTypes, MemType, Files, Moved, Steps, Late, Dropping, NoMem, Before
<1>17. QED
  BY BeforeSteps, <1>1, <1>2, <1>3, <1>4, <1>5, <1>6, <1>7, <1>8, <1>9, <1>10, <1>11, <1>12, <1>13, <1>14,
     <1>15, <1>16 DEF BeforeNext

\* What is done with a profile's packet size stays
LEMMA FoldsSized ==
    ASSUME prof \in SUBSET Profile, \A p \in prof : p.sized
    PROVE  \A list \in Folds : \A p \in list : p.sized
<1> DEFINE Of(d) == {p \in prof : p.dev = d}
           all(k) == k.others \cup (({p.codec : p \in Of(k.dev)} \cup UNION {p.others : p \in Of(k.dev)})
                                    \ {"auto", k.codec})
           Fold(k) == [k EXCEPT !.others = all(k)]
<1>1. ASSUME NEW k \in prof PROVE Fold(k).sized
  <2> HIDE DEF all
  <2>1. QED
    BY DEF Profile
<1>2. \A list \in Folds : \E keeper \in [{p.dev : p \in prof} -> prof] : list = {Fold(keeper[d]) : d \in DOMAIN keeper}
  BY DEF Folds
<1> HIDE DEF Fold
<1>3. ASSUME NEW keeper \in [{p.dev : p \in prof} -> prof]
      PROVE  \A p \in {Fold(keeper[d]) : d \in DOMAIN keeper} : p.sized
  BY <1>1
<1>4. QED
  BY <1>2, <1>3

\* The parts of MigratedWhole
Whole ==
    /\ laid /\ \A f \in Moved : top[f] = NoFile /\ sub[f] # NoFile
    /\ orig.cfg.schema = 1 => bak.v1 = orig
    /\ AllSized
    /\ Decided(cfg.auto)
    /\ orig.cfg.schema \in 2..6 /\ ~cut =>
          (Forgot \ paired) \cap (cfg.volumes \cup sub["keys"] \cup sub["codecs"]) = {}

LEMMA WholeIsWhole ==
    /\ MigratedWhole <=> (After => Whole)
    /\ MigratedWhole' <=> (After' => Whole')
<1>1. {p.dev : p \in orig.prof} \ (Saved0 \cup paired) = Forgot \ paired
  BY DEF Forgot
<1>2. ({p.dev : p \in orig.prof} \ (Saved0 \cup paired) = Forgot \ paired)'
  BY DEF Forgot
<1>3. QED
  BY <1>1, <1>2 DEF MigratedWhole, After, Whole, AllSized, Decided, Saved0, Schema

\* settings.json is saved at the end of the first start
LEMMA WholeAtSave ==
    ASSUME MigInv, MigrationNext, SaveSettings, Before, orig' = orig
    PROVE  Whole' /\ at' \in Late
<1>0. /\ MigTypes /\ PlaceInv /\ Placed /\ OldCopied /\ CodecsInv /\ TracesInv
      /\ cfg = orig.cfg /\ cfg.schema \in {1, 4, 6}
  BY DEF MigInv, BeforeInv, Before, PlaceInv, Schema
<1>1. /\ at = "save" /\ at' = "firmware"
      /\ cfg'.auto = mem.auto /\ cfg'.volumes = mem.volumes
      /\ UNCHANGED <<prof, top, sub, bak, orig, paired, laid, cut>>
  BY DEF SaveSettings, Saved, Goto, RestSame, past
<1>2. Forgot' = Forgot /\ (AllSized <=> AllSized')
  BY <1>1 DEF Forgot, Saved0, AllSized
<1>3. Decided(cfg.auto)'
  BY <1>0, <1>1 DEF CodecsInv, DecidedAt, Decided, Saved0, Chosen
<1>4. laid /\ \A f \in Moved : top[f] = NoFile /\ sub[f] # NoFile
  BY <1>0, <1>1 DEF Placed
<1>5. (orig.cfg.schema = 1 => bak.v1 = orig) /\ AllSized
  BY <1>0, <1>1 DEF OldCopied, AllSized
<1>6. orig.cfg.schema \in 2..6 /\ ~cut => (Forgot \ paired) \cap (mem.volumes \cup sub["keys"] \cup sub["codecs"]) = {}
  BY <1>0, <1>1 DEF TracesInv
<1>7. QED
  BY <1>1, <1>2, <1>3, <1>4, <1>5, <1>6 DEF Whole, Late

\* Afterwards the profiles are folded, the device of a pairing is taken up, and
\* nothing else of it changes
LEMMA WholeStays ==
    ASSUME Whole, UNCHANGED <<cfg, top, sub, orig, paired, laid, cut>>, bak'.v1 = bak.v1, AllSized'
    PROVE  Whole'
<1>1. Forgot' = Forgot /\ (Decided(cfg.auto)' <=> Decided(cfg.auto))
  BY DEF Forgot, Saved0, Decided, Chosen
<1>2. QED
  BY <1>1 DEF Whole

\* Once the current schema is written, the folder is whole and stays so
LEMMA AfterInvStep == ASSUME MigInv, MigrationNext PROVE AfterInv'
<1>1. SUFFICES ASSUME After' PROVE Whole' /\ at' \in Late \cup {"off"}
  BY WholeIsWhole DEF AfterInv
<1>2. /\ faults = 0 /\ orig' = orig /\ orig.cfg.schema \in 1..Schema - 1
      /\ ~BackupFails /\ ~SeedFails /\ ~MoveFails /\ ~DropFails /\ ~SaveFails /\ ~FoldFails
  BY <1>1, NoFaults DEF After
<1>3. CASE Before
  <2>1. Placed /\ cfg.schema # Schema
    BY <1>3 DEF MigInv, BeforeInv, Before
  <2>2. CASE SaveSettings
    BY <1>2, <1>3, <2>2, WholeAtSave
  <2>3. CASE ~SaveSettings
    <3>1. ~ServiceSaves
      BY <2>1 DEF ServiceSaves, Placed, Late
    <3>2. cfg' = cfg
      BY <1>2, <2>3, <3>1 DEF MigrationNext, disk, past, RestSame, StartPrepare, BackupOpen, BackupDone,
         BackupRename, LoadV1, SaveSeeded, LoadV2, Relayout, MoveFile, RelayoutDone, CopyProfiles, DropForgotten,
         DropSave, DropKeys, DropCodecs, MoveLooseFirmware, Consolidate, FoldSave, Quit, Kill, ServicePairs
    <3>3. QED
      BY <1>1, <2>1, <3>2 DEF After
  <2>4. QED
    BY <2>2, <2>3
<1>4. CASE ~Before
  <2>1. After /\ Whole /\ at \in Late \cup {"off"} /\ cfg.schema = Schema /\ MigTypes
    BY <1>2, <1>4, WholeIsWhole DEF Before, After, MigInv, AfterInv
  <2>2. CASE StartPrepare
    <3>1. UNCHANGED <<cfg, prof, top, sub, orig, paired, laid, cut, bak>> /\ at' = "firmware"
      BY <2>1, <2>2 DEF StartPrepare, Goto, RestSame, disk, past, Schema
    <3>2. QED
      BY <2>1, <3>1, WholeStays DEF Whole, AllSized, Late
  <2>3. CASE MoveLooseFirmware \/ Consolidate
    <3>1. UNCHANGED <<cfg, prof, top, sub, orig, paired, laid, cut>> /\ bak'.v1 = bak.v1
          /\ at' \in {"fold", "run", "foldCopy", "foldSave"}
      BY <2>1, <2>3 DEF MoveLooseFirmware, Consolidate, OpenProfilesCopy, Goto, RestSame, past, MigTypes
    <3>2. QED
      BY <2>1, <3>1, WholeStays DEF Whole, AllSized, Late
  <2>4. CASE CopyProfiles
    <3>1. UNCHANGED <<cfg, prof, top, sub, orig, paired, laid, cut>> /\ bak'.v1 = bak.v1 /\ at' = "foldSave"
      BY <2>1, <2>4 DEF CopyProfiles, Goto, RestSame, past, MigTypes, Late
    <3>2. QED
      BY <2>1, <3>1, WholeStays DEF Whole, AllSized, Late
  <2>5. CASE FoldSave
    <3>1. UNCHANGED <<cfg, top, sub, orig, paired, laid, cut, bak>> /\ at' = "run" /\ prof' \in Folds
      BY <2>5 DEF FoldSave, Goto, RestSame, past
    <3>2. AllSized'
      BY <2>1, <3>1, FoldsSized DEF Whole, AllSized, MigTypes
    <3>3. QED
      BY <2>1, <3>1, <3>2, WholeStays DEF Late
  <2>6. CASE Quit \/ Kill
    <3>1. UNCHANGED <<cfg, prof, top, sub, orig, paired, laid, cut, bak>> /\ at' = "off"
      BY <2>1, <2>6 DEF Quit, Kill, Goto, RestSame, disk, past, Late, MigTypes
    <3>2. QED
      BY <2>1, <3>1, WholeStays DEF Whole, AllSized
  <2>7. ASSUME NEW d \in Dev, ServicePairs(d) PROVE Whole' /\ at' \in Late \cup {"off"}
    <3>1. /\ UNCHANGED <<cfg, prof, top, orig, laid, cut, bak, at>> /\ paired' = paired \cup {d}
          /\ sub' = [f \in Moved |-> IF f = "codecs" THEN sub[f]
                             ELSE IF sub[f] = NoFile THEN {d} ELSE sub[f] \cup {d}]
      BY <2>7 DEF ServicePairs
    <3>2. /\ sub["keys"] # NoFile /\ sub'["keys"] = sub["keys"] \cup {d} /\ sub'["codecs"] = sub["codecs"]
          /\ \A f \in Moved : sub'[f] # NoFile
      <4>1. \A f \in Moved : sub[f] # NoFile /\ sub[f] \in SUBSET Dev
        BY <2>1 DEF Whole, MigTypes, Files
      <4>2. QED
        BY <3>1, <4>1, NoSuchFile DEF Moved
    <3>3. Forgot' = Forgot /\ (Decided(cfg.auto)' <=> Decided(cfg.auto)) /\ (AllSized <=> AllSized')
      BY <3>1 DEF Forgot, Saved0, Decided, Chosen, AllSized
    <3>4. QED
      BY <2>1, <3>1, <3>2, <3>3 DEF Whole
  <2>8. ~ServiceSaves /\ ~BackupOpen /\ ~BackupDone /\ ~BackupRename /\ ~LoadV1 /\ ~SaveSeeded /\ ~LoadV2
        /\ ~Relayout /\ ~MoveFile /\ ~RelayoutDone /\ ~DropForgotten /\ ~DropSave /\ ~DropKeys /\ ~DropCodecs
        /\ ~SaveSettings
    BY <2>1 DEF Late, ServiceSaves, BackupOpen, BackupDone, BackupRename, LoadV1, SaveSeeded, LoadV2, Relayout,
                MoveFile, RelayoutDone, DropForgotten, DropSave, DropKeys, DropCodecs, SaveSettings
  <2>9. QED
    BY <1>2, <2>2, <2>3, <2>4, <2>5, <2>6, <2>7, <2>8 DEF MigrationNext
<1>5. QED
  BY <1>3, <1>4

\* What an old version leaves is a folder, and no file of it is missing
LEMMA OldFolder == ASSUME NEW first \in OldFolders PROVE
    /\ first \in Folder /\ first.cfg.schema \in {0, 1, 4, 6} /\ (first.cfg.legacy => first.cfg.schema = 1)
    /\ \A f \in Moved : first.files[f] \in SUBSET Dev
    /\ first # NoFile /\ first.prof # NoFile /\ \A f \in Moved : first.files[f] # NoFile
<1>1. /\ first.cfg \in OldConfigs /\ first.prof \in OldProfiles /\ first.files \in OldFiles /\ first.loose = TRUE
      /\ first = [cfg |-> first.cfg, prof |-> first.prof, files |-> first.files, loose |-> first.loose]
  BY DEF OldFolders
<1>2. first.cfg \in Config /\ first.cfg.schema \in {0, 1, 4, 6} /\ (first.cfg.legacy => first.cfg.schema = 1)
  BY <1>1 DEF OldConfigs
<1>3. first.prof \in SUBSET Profile
  <2>1. PICK d \in Dev, e \in Dev, c \in {"auto", "aac"}, k \in {"auto", "ldac"} :
           first.prof = {Plain(d, c), Plain(e, k)}
    BY <1>1 DEF OldProfiles
  <2>2. Plain(d, c) \in Profile /\ Plain(e, k) \in Profile
    BY DEF Plain, Profile, Codec
  <2>3. QED
    BY <2>1, <2>2
<1>4. first.files \in [Moved -> SUBSET Dev]
  BY <1>1 DEF OldFiles, Moved
<1>5. first \in Folder
  BY <1>1, <1>2, <1>3, <1>4 DEF Folder, Files
<1>6. QED
  BY <1>2, <1>4, <1>5, NoSuchFile

\* The first start finds a folder of an old version
LEMMA MigInitial == ASSUME MigrationInit PROVE MigInv
<1>1. /\ orig \in Folder /\ orig.cfg.schema \in {0, 1, 4, 6} /\ (orig.cfg.legacy => orig.cfg.schema = 1)
      /\ \A f \in Moved : orig.files[f] \in SUBSET Dev /\ orig.files[f] # NoFile
      /\ orig # NoFile /\ orig.prof # NoFile
      /\ cfg = orig.cfg /\ prof = orig.prof /\ top = orig.files /\ loose = orig.loose
  BY OldFolder DEF MigrationInit
<1>2. MigTypes
  <2>1. cfg \in Config /\ prof \in SUBSET Profile /\ top \in Files /\ loose \in BOOLEAN
    BY <1>1 DEF Folder
  <2>2. sub \in Files /\ mem \in MemType
    BY DEF MigrationInit, Files, NoMem, MemType, Schema
  <2>3. bak \in [v1 : Folder \cup {NoFile}, v2 : Folder \cup {NoFile}, prof : (SUBSET Profile) \cup {NoFile, HalfFile}]
    BY DEF MigrationInit
  <2>4. faults \in 0..MaxFailed /\ kills \in 0..MaxKilled
    BY MigrationBounds DEF MigrationInit
  <2>5. QED
    BY <1>1, <2>1, <2>2, <2>3, <2>4 DEF MigrationInit, MigTypes, Steps
<1>3. PlaceInv
  BY <1>1 DEF MigrationInit, PlaceInv, NoMem, Steps, Late, Dropping, Schema
<1>4. ProfInv
  BY <1>1 DEF MigrationInit, ProfInv, Kept, InCopy
<1>5. FileInv
  BY <1>1 DEF MigrationInit, FileInv, Moved, Dropping
<1>6. KeysInv
  BY <1>1 DEF MigrationInit, KeysInv, KeysKept, KeysOf, Apart, Moved, Late, Dropping
<1>7. Placed
  BY <1>1 DEF MigrationInit, Placed, Late, Dropping, Moved
<1>8. OldCopied
  BY <1>1 DEF MigrationInit, OldCopied
<1>9. CodecsInv
  BY <1>1 DEF MigrationInit, CodecsInv, DecidedAt, Dropping
<1>10. TracesInv
  BY <1>1 DEF MigrationInit, TracesInv, DevsKept, NoMem, Dropping
<1>11. AfterInv
  BY <1>1 DEF MigrationInit, AfterInv, After, Schema
<1>12. QED
  BY <1>2, <1>3, <1>4, <1>5, <1>6, <1>7, <1>8, <1>9, <1>10, <1>11 DEF MigInv, BeforeInv

\* A stuttering step keeps all of it
LEMMA MigStays == ASSUME MigInv, UNCHANGED migrationVars PROVE MigInv'
<1>1. MigTypes' /\ PlaceInv' /\ FileInv'
  BY DEF MigInv, migrationVars, MigTypes, PlaceInv, FileInv, Content
<1>2. ProfInv' /\ KeysInv'
  BY DEF MigInv, migrationVars, ProfInv, Kept, InCopy, KeysInv, Apart, KeysKept, KeysOf
<1>3. BeforeInv'
  BY DEF MigInv, migrationVars, BeforeInv, Before, Placed, OldCopied, AllSized, CodecsInv, Decided,
     Chosen, Saved0,
         TracesInv, DevsKept, Forgot
<1>4. AfterInv'
  <2>1. After' => Whole /\ at \in Late \cup {"off"}
    BY WholeIsWhole DEF MigInv, AfterInv, After, migrationVars
  <2>2. (After' => Whole') /\ (After' => at' \in Late \cup {"off"})
    BY <2>1, WholeStays DEF migrationVars, Whole, AllSized
  <2>3. QED
    BY <2>2, WholeIsWhole DEF AfterInv
<1>5. QED
  BY <1>1, <1>2, <1>3, <1>4 DEF MigInv

\* What the invariant says of the four promises of the migration
LEMMA MigInvSafe == ASSUME MigInv PROVE MigrationSafe
<1>1. MigrationTypeOK
  BY DEF MigInv, MigTypes, MigrationTypeOK, Config, Files
<1>2. ProfilesRecoverable
  BY DEF MigInv, ProfInv, Kept, InCopy, ProfilesRecoverable
<1>3. KeysKept
  BY DEF MigInv, KeysInv
<1>4. MigratedWhole
  BY WholeIsWhole DEF MigInv, AfterInv
<1>5. QED
  BY <1>1, <1>2, <1>3, <1>4 DEF MigrationSafe

\* Whichever writes fail and wherever the program is killed: the profiles of the
\* old version can be had again, no key of a saved or a new device is lost, and
\* without failures the folder that says the current schema was migrated whole
\* (migrate.rs, prepare_settings; link_keys.rs).
THEOREM MigrationSafeAlways == MigrationSpec => []MigrationSafe
<1>1. MigrationInit => MigInv
  BY MigInitial
<1>2. MigInv /\ [MigrationNext]_migrationVars => MigInv'
  <2>1. ASSUME MigInv, MigrationNext PROVE MigInv'
    <3>1. BeforeInv'
      BY <2>1, PlacedStep, OldCopiedStep, CodecsInvStep, TracesInvStep DEF BeforeInv
    <3>2. QED
      BY <2>1, <3>1, MigTypesStep, PlaceInvStep, ProfInvStep, FileInvStep, KeysInvStep, AfterInvStep DEF MigInv
  <2>2. QED
    BY <2>1, MigStays
<1>3. MigInv => MigrationSafe
  BY MigInvSafe
<1>4. QED
  BY <1>1, <1>2, <1>3, PTL DEF MigrationSpec
=============================================================================
