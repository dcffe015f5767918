----------------------------- MODULE FolderMove -----------------------------
(***************************************************************************)
(* The settings folder of 2.0.x (%APPDATA%\A2DPWB, `old`) becomes          *)
(* %APPDATA%\BlueCaster (`new`): config_dir and move_old_folder of         *)
(* paths.rs, called by the core (main.rs, and again in resident.rs once it *)
(* has stopped the old programs) and by the window, which may start        *)
(* together.  Either may be killed at any point; a rename or a copy may    *)
(* fail.  The old program (a 2.0.x core or v1) writes to `old` until it    *)
(* has exited.                                                             *)
(*                                                                         *)
(* A file's content is the number of the write that made it; one file      *)
(* stands for every file beside settings.json.                             *)
(***************************************************************************)
EXTENDS Integers, FiniteSets

CONSTANTS
    MaxWrites,      \* how often the old program writes its files
    MaxTrouble      \* how many renames and copies fail, and processes die

ASSUME FolderBounds == MaxWrites \in Nat /\ MaxTrouble \in Nat

File == {"settings", "keys"}
Process == {"core", "ui"}

Absent == 0
Part == -1      \* a copy that is not complete
NewOne == -2       \* written by the core of this version

VARIABLES
    oldApp,     \* a 2.0.x core or v1 runs
    ownMutex,   \* the core of this version holds its mutex (core_mutex_name)
    old, new,   \* the folders: [there, has]
    proc,       \* each process: where it is, the files of its loop still to
                \* come, its own copy, the content it is writing
    newest,     \* the newest content of each file the old program wrote
    under,      \* history: a move began while the old program ran
    torn,       \* history: the merge of a file was cut short
    trouble

folderVars == <<oldApp, ownMutex, old, new, proc, newest, under, torn, trouble>>

NoFiles == [f \in File |-> Absent]
Empty == [there |-> FALSE, has |-> NoFiles]
Has(dir, f) == dir.has[f] # Absent
FilesOf(dir) == {f \in File : Has(dir, f)}

\* A program that was not started, and one that starts
Idle == [at |-> "off", todo |-> {}, tmp |-> NoFiles, file |-> "keys", content |-> Absent,
         again |-> FALSE]

FolderInit ==
    /\ oldApp \in BOOLEAN /\ ownMutex = FALSE
    /\ \E settings \in {Absent, 1} : newest = [f \in File |-> IF f = "settings" THEN settings ELSE 1]
    /\ old = [there |-> TRUE, has |-> newest]
    /\ new = Empty
    /\ proc = [p \in Process |-> Idle]
    /\ under = FALSE /\ torn = FALSE /\ trouble = 0

ToStep(p, to) == proc' = [proc EXCEPT ![p].at = to]
Keeps == UNCHANGED <<oldApp, ownMutex, newest>>
Trouble == trouble < MaxTrouble /\ trouble' = trouble + 1

----------------------------------------------------------------------------
(* The old program.                                                        *)

\* It writes into its folder, which may be gone
OldWrites(f) ==
    /\ oldApp /\ newest[f] <= MaxWrites
    /\ newest' = [newest EXCEPT ![f] = @ + 1]
    /\ old' = IF old.there THEN [old EXCEPT !.has[f] = newest'[f]] ELSE old
    /\ UNCHANGED <<oldApp, ownMutex, new, proc, under, torn, trouble>>

OldExits ==
    /\ oldApp /\ oldApp' = FALSE
    /\ UNCHANGED <<ownMutex, old, new, proc, newest, under, torn, trouble>>

----------------------------------------------------------------------------
(* move_old_folder                                                         *)

\* old_app_runs: not when a core of this version holds its mutex
OldAppRuns == ~ownMutex /\ oldApp

StartProcess(p) ==
    /\ proc[p].at = "off"
    /\ proc' = [proc EXCEPT ![p] = [Idle EXCEPT !.at = "check"]]
    /\ UNCHANGED <<old, new, under, torn, trouble>> /\ Keeps

CheckOld(p) ==
    /\ proc[p].at = "check"
    /\ ToStep(p, IF ~old.there \/ OldAppRuns THEN "mkdir" ELSE "look")
    /\ under' = (under \/ (old.there /\ ~OldAppRuns /\ oldApp))
    /\ UNCHANGED <<old, new, torn, trouble>> /\ Keeps

\* A folder with its own settings.json is left as it is; one without is merged
LookNew(p) ==
    /\ proc[p].at = "look"
    /\ proc' = [proc EXCEPT ![p].at = IF ~new.there THEN "rename"
                                      ELSE IF Has(new, "settings") THEN "mkdir" ELSE "merge",
                            ![p].todo = FilesOf(old) \ {"settings"}]
    /\ UNCHANGED <<old, new, under, torn, trouble>> /\ Keeps

RenameOld(p) ==
    /\ proc[p].at = "rename" /\ old.there /\ ~new.there
    /\ new' = old /\ old' = Empty
    /\ ToStep(p, "mkdir")
    /\ UNCHANGED <<under, torn, trouble>> /\ Keeps

\* The rename fails: the other process was first, or a file is ownMutex open
RenameFails(p) ==
    /\ proc[p].at = "rename"
    /\ IF new.there \/ ~old.there THEN UNCHANGED trouble ELSE Trouble
    /\ proc' = [proc EXCEPT ![p].at = IF new.there THEN "mkdir" ELSE "copy", ![p].todo = FilesOf(old),
                            ![p].tmp = NoFiles]
    /\ UNCHANGED <<old, new, under, torn>> /\ Keeps

\* copy_folder: into a folder of the process' own, file by file
CopyFile(p) ==
    /\ proc[p].at = "copy"
    /\ \E f \in proc[p].todo :
          /\ Has(old, f)
          /\ proc' = [proc EXCEPT ![p].todo = @ \ {f}, ![p].tmp[f] = old.has[f]]
    /\ UNCHANGED <<old, new, under, torn, trouble>> /\ Keeps

\* A file that is gone (the other process deletes), or a disk that is full
CopyFails(p) ==
    /\ proc[p].at = "copy"
    /\ IF \E f \in proc[p].todo : ~Has(old, f) THEN UNCHANGED trouble ELSE Trouble
    /\ ToStep(p, "mkdir")
    /\ UNCHANGED <<old, new, under, torn>> /\ Keeps

\* mutant: the copy is assembled in the new folder itself
PublishCopyEarly(p) ==
    /\ proc[p].at = "copy"
    /\ IF new.there THEN ToStep(p, "mkdir") /\ UNCHANGED new
       ELSE /\ new' = [there |-> TRUE, has |-> proc[p].tmp]
            /\ ToStep(p, "delete")
    /\ UNCHANGED <<old, under, torn, trouble>> /\ Keeps

PublishCopy(p) ==
    /\ proc[p].at = "copy" /\ proc[p].todo = {}
    /\ IF new.there THEN ToStep(p, "mkdir") /\ UNCHANGED new
       ELSE /\ new' = [there |-> TRUE, has |-> proc[p].tmp]
            /\ ToStep(p, "delete")
    /\ UNCHANGED <<old, under, torn, trouble>> /\ Keeps

\* remove_dir_all(old), file by file
DeleteOld(p) ==
    /\ proc[p].at = "delete"
    /\ \/ \E f \in FilesOf(old) : old' = [old EXCEPT !.has[f] = Absent] /\ UNCHANGED proc
       \/ FilesOf(old) = {} /\ old' = Empty /\ ToStep(p, "mkdir")
    /\ UNCHANGED <<new, under, torn, trouble>> /\ Keeps

DeleteFails(p) ==
    /\ proc[p].at = "delete" /\ Trouble /\ ToStep(p, "mkdir")
    /\ UNCHANGED <<old, new, under, torn>> /\ Keeps

\* merge_folders: what `new` lacks, settings.json last.  The check of a file
\* and its copy are two steps; the copy makes the file and then fills it.
MergeCheck(p) ==
    /\ proc[p].at = "merge" /\ proc[p].todo # {}
    /\ \E f \in proc[p].todo :
          proc' = [proc EXCEPT ![p].todo = @ \ {f}, ![p].file = f,
                               ![p].at = IF Has(new, f) THEN "merge" ELSE "open"]
    /\ UNCHANGED <<old, new, under, torn, trouble>> /\ Keeps

MergeSettings(p) ==
    /\ proc[p].at = "merge" /\ proc[p].todo = {}
    /\ proc' = [proc EXCEPT ![p].file = "settings",
                    ![p].at = IF Has(old, "settings") /\ ~Has(new, "settings") THEN "open" ELSE "delete"]
    /\ UNCHANGED <<old, new, under, torn, trouble>> /\ Keeps

MergeOpen(p) ==
    /\ proc[p].at = "open" /\ Has(old, proc[p].file)
    /\ new' = [new EXCEPT !.has[proc[p].file] = Part]
    /\ proc' = [proc EXCEPT ![p].at = "fill", ![p].content = old.has[proc[p].file]]
    /\ UNCHANGED <<old, under, torn, trouble>> /\ Keeps

MergeFill(p) ==
    /\ proc[p].at = "fill"
    /\ new' = [new EXCEPT !.has[proc[p].file] = proc[p].content]
    /\ ToStep(p, IF proc[p].file = "settings" THEN "delete" ELSE "merge")
    /\ UNCHANGED <<old, under, torn, trouble>> /\ Keeps

\* A file of `old` is gone (the other process deletes it), or the copy fails:
\* Windows removes the part (external: CopyFileEx)
MergeFails(p) ==
    /\ proc[p].at \in {"open", "fill"}
    /\ IF proc[p].at = "open" /\ ~Has(old, proc[p].file) THEN UNCHANGED trouble ELSE Trouble
    /\ new' = IF proc[p].at = "fill" THEN [new EXCEPT !.has[proc[p].file] = Absent] ELSE new
    /\ torn' = (torn \/ proc[p].at = "fill")
    /\ ToStep(p, "mkdir")
    /\ UNCHANGED <<old, under>> /\ Keeps

----------------------------------------------------------------------------
(* The processes around it.                                                *)

\* config_dir makes the folder; the window and the core then log into it
MakeDir(p) ==
    /\ proc[p].at = "mkdir"
    /\ new' = [new EXCEPT !.there = TRUE]
    /\ ToStep(p, IF p = "ui" THEN "up" ELSE IF proc[p].again THEN "service" ELSE "run")
    /\ UNCHANGED <<old, under, torn, trouble>> /\ Keeps

\* resident::run: the mutex, then the wait for the old program, which has
\* exited or was waited for in vain, then config_dir again
TakeMutex ==
    /\ proc["core"].at = "run" /\ ~ownMutex
    /\ ownMutex' = TRUE /\ ToStep("core", "replace")
    /\ UNCHANGED <<oldApp, old, new, newest, under, torn, trouble>>

ReplaceOld ==
    /\ proc["core"].at = "replace"
    /\ proc' = [proc EXCEPT !["core"].at = "check", !["core"].again = TRUE]
    /\ UNCHANGED <<old, new, under, torn, trouble>> /\ Keeps

\* The service saves its settings
SaveOwn ==
    /\ proc["core"].at = "service"
    /\ new' = [new EXCEPT !.has["settings"] = IF @ = Absent THEN NewOne ELSE @]
    /\ ToStep("core", "up")
    /\ UNCHANGED <<old, under, torn, trouble>> /\ Keeps

\* A process ends, or is killed on its way
ProcessEnds(p) ==
    /\ proc[p].at # "off"
    /\ IF proc[p].at = "up" THEN UNCHANGED trouble ELSE Trouble
    /\ torn' = (torn \/ proc[p].at = "fill")
    /\ proc' = [proc EXCEPT ![p] = Idle]
    /\ ownMutex' = (ownMutex /\ p # "core")
    /\ UNCHANGED <<oldApp, old, new, newest, under>>

----------------------------------------------------------------------------
MoveOldFolder(p) ==
    \/ CheckOld(p) \/ LookNew(p) \/ RenameOld(p) \/ RenameFails(p)
    \/ CopyFile(p) \/ CopyFails(p) \/ PublishCopy(p) \/ DeleteOld(p) \/ DeleteFails(p)
    \/ MergeCheck(p) \/ MergeSettings(p) \/ MergeOpen(p) \/ MergeFill(p) \/ MergeFails(p)

FolderNext ==
    \/ OldExits \/ \E f \in File : OldWrites(f)
    \/ \E p \in Process : StartProcess(p) \/ MoveOldFolder(p) \/ MakeDir(p) \/ ProcessEnds(p)
    \/ TakeMutex \/ ReplaceOld \/ SaveOwn

FolderSpec == FolderInit /\ [][FolderNext]_folderVars

----------------------------------------------------------------------------
(* Properties.                                                             *)

FolderTypeOK ==
    /\ {oldApp, ownMutex, under, torn} \subseteq BOOLEAN
    /\ \A dir \in {old, new} : dir.there \in BOOLEAN /\ \A f \in File : dir.has[f] \in NewOne..MaxWrites + 1
    /\ \A f \in File : Has(old, f) => old.there
    /\ \A f \in File : old.has[f] >= 0 /\ newest[f] \in 0..MaxWrites + 1
    /\ \A p \in Process : proc[p].todo \subseteq File
    /\ ownMutex => proc["core"].at # "off"

\* The newest of a file is in one of the folders, or being written
Somewhere(f) ==
    \/ old.has[f] = newest[f] \/ new.has[f] = newest[f]
    \/ \E p \in Process : proc[p].at = "fill" /\ proc[p].file = f /\ proc[p].content = newest[f]

\* move_old_folder: whatever the core and the window do at the same time,
\* whichever step fails and wherever they are killed, the settings and the
\* pairings of the old program are not lost.  Two cases aside: the old program
\* still ran, and the merge of a file was cut short (the next start, or the
\* other process, takes the part for the file).  And where a step failed in the
\* core while the window merged, the settings may be the core's new ones.
NoPairingLost ==
    ~under /\ ~torn =>
        \A f \in File : newest[f] # Absent =>
            Somewhere(f) \/ (f = "settings" /\ trouble > 0 /\ new.has[f] = NewOne)

\* "Not while a 2.0.x core or v1 runs": no process begins to move the folder
\* under a program that writes to it (paths.rs, move_old_folder).
\* It does not hold: once the core of this version holds its mutex, the window
\* and the core's second config_dir no longer look for the old program, which
\* may still be running.
NotUnderOldApp == ~under

\* What the run checks
FolderSafe == FolderTypeOK /\ NoPairingLost
=============================================================================
