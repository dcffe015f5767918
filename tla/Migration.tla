----------------------------- MODULE Migration -----------------------------
(***************************************************************************)
(* The settings folder of v1 or 2.0.x is brought to the current schema at  *)
(* the first start: migrate.rs (prepare, relayout, drop_forgotten,         *)
(* consolidate_profiles), and the settings and pairings the service writes *)
(* once it runs.  Every write and every move is a step of its own: any of  *)
(* them may fail, and the process may be killed between any two.           *)
(*                                                                         *)
(* Of settings.json the model keeps the schema, the setting that schema 5  *)
(* takes from the profiles (auto_codec; volume_sync of schema 6 is taken   *)
(* the same way), the old packet size and the devices' volumes.  Names,    *)
(* log files and le_audio_experimental are left out.                       *)
(***************************************************************************)
EXTENDS Integers, FiniteSets

CONSTANTS
    Dev,            \* devices
    NoFile, HalfFile,   \* a file that is not there, a copy that was cut short
    MaxFailed,      \* how many writes and moves fail
    MaxKilled       \* how often the process is killed

ASSUME MigrationBounds == MaxFailed \in Nat /\ MaxKilled \in Nat /\ IsFiniteSet(Dev)

Schema == 8         \* SCHEMA_VERSION and LAYOUT_SCHEMA
Moved == {"devices", "codecs", "keys"}
Codec == {"auto", "aac", "ldac"}
Profile == [dev : Dev, codec : Codec, sized : BOOLEAN, others : SUBSET Codec]
Config == [schema : 0..Schema, auto : BOOLEAN, legacy : BOOLEAN, volumes : SUBSET Dev]

Plain(d, c) == [dev |-> d, codec |-> c, sized |-> FALSE, others |-> {}]

\* What an old version can leave behind
OldConfigs == {c \in Config : c.schema \in {0, 1, 4, 6} /\ c.auto /\ c.volumes = Dev /\ (c.legacy => c.schema = 1)}
OldProfiles == {{Plain(d, c), Plain(e, k)} : d \in Dev, e \in Dev, c \in {"auto", "aac"}, k \in {"auto", "ldac"}}
OldFiles == {[f \in Moved |-> IF f = "devices" THEN saved ELSE Dev] : saved \in (SUBSET Dev) \ {{}}}
OldFolders == [cfg : OldConfigs, prof : OldProfiles, files : OldFiles, loose : {TRUE}]

\* A file that is not there is no list of devices, no profiles, no folder and
\* no part of a copy
ASSUME NoSuchFile ==
    /\ \A list \in SUBSET Dev : list # NoFile
    /\ \A old \in OldFolders : old # NoFile /\ old.prof # NoFile
    /\ NoFile # HalfFile

VARIABLES
    cfg,            \* settings.json; schema 0: no file
    prof,           \* profiles.json, a set of profiles
    top, sub,       \* the files in their old and their new place
    loose,          \* a firmware file lies at the top of the folder
    bak,            \* backup\v1, backup\v2, profiles-before-codecs.json
    tmp,            \* where a backup is assembled
    at, mem,        \* where prepare is, and what it holds in memory
    orig,           \* history: the folder before the first start
    paired,         \* history: devices the service paired
    laid, cut,      \* history: the sub folders were made; killed while the
                    \* traces of forgotten devices were being removed
    faults, kills

migrationVars == <<cfg, prof, top, sub, loose, bak, tmp, at, mem, orig, paired, laid, cut,
                   faults, kills>>
disk == <<cfg, prof, top, sub, loose, bak, tmp>>
past == <<orig, paired, laid, cut>>

NoMem == [before |-> 0, v1 |-> FALSE, auto |-> TRUE, volumes |-> {},
          tried |-> {}, gone |-> {}, left |-> {}]

\* The files of a folder, as a backup keeps them
Content == [cfg |-> cfg, prof |-> prof, files |-> top, loose |-> loose]

MigrationInit ==
    /\ orig \in OldFolders /\ cfg = orig.cfg /\ prof = orig.prof /\ top = orig.files /\ loose = orig.loose
    /\ sub = [f \in Moved |-> NoFile]
    /\ bak = [v1 |-> NoFile, v2 |-> NoFile, prof |-> NoFile] /\ tmp = NoFile
    /\ at = "off" /\ mem = NoMem
    /\ paired = {} /\ laid = FALSE /\ cut = FALSE
    /\ faults = 0 /\ kills = 0

RestSame == UNCHANGED <<past, faults, kills>>
Goto(a) == at' = a
Fault == faults < MaxFailed /\ faults' = faults + 1

----------------------------------------------------------------------------
(* prepare_settings: what there is to do.                                  *)

Chosen(list) == \E p \in list : p.codec # "auto"

\* Where a folder of 2.0.x goes on, and one of v1
StartPrepare ==
    /\ at = "off"
    /\ LET v1 == IF cfg.schema # 0 THEN cfg.schema < 2
                 ELSE prof # {} \/ \E f \in {"devices", "keys"} : top[f] # NoFile
       IN  /\ mem' = [NoMem EXCEPT !.before = cfg.schema, !.v1 = v1]
           /\ Goto(IF v1 THEN IF bak.v1 = NoFile THEN "backup1" ELSE "load1"
                   ELSE IF cfg.schema \in 1..Schema - 1 THEN "load2" ELSE "firmware")
    /\ UNCHANGED disk /\ RestSame

----------------------------------------------------------------------------
(* backup_to: assembled beside, renamed when complete.                     *)

\* remove_dir_all(tmp), then the first file of the copy
BackupOpen ==
    /\ at \in {"backup1", "backup2"}
    /\ tmp' = HalfFile
    /\ Goto(IF at = "backup1" THEN "copy1" ELSE "copy2")
    /\ UNCHANGED <<cfg, prof, top, sub, loose, bak, mem>> /\ RestSame

BackupDone ==
    /\ at \in {"copy1", "copy2"} /\ tmp = HalfFile
    /\ tmp' = Content
    /\ UNCHANGED <<cfg, prof, top, sub, loose, bak, at, mem>> /\ RestSame

BackupRename ==
    /\ at \in {"copy1", "copy2"} /\ tmp \notin {NoFile, HalfFile}
    /\ bak' = IF at = "copy1" THEN [bak EXCEPT !.v1 = tmp] ELSE [bak EXCEPT !.v2 = tmp]
    /\ tmp' = NoFile
    /\ Goto(IF at = "copy1" THEN "load1" ELSE "move")
    /\ UNCHANGED <<cfg, prof, top, sub, loose, mem>> /\ RestSame

\* The start goes on without the migration
BackupFails ==
    /\ at \in {"backup1", "backup2", "copy1", "copy2"} /\ Fault
    /\ tmp' = NoFile
    /\ Goto("firmware")
    /\ UNCHANGED <<cfg, prof, top, sub, loose, bak, mem, past, kills>>

----------------------------------------------------------------------------
(* The values of the new schema, in memory until settings.json is saved.   *)

\* The profiles get the packet size that was a setting
Seeded == {IF cfg.legacy THEN [p EXCEPT !.sized = TRUE] ELSE p : p \in prof}

LoadV1 ==
    /\ at = "load1"
    /\ mem' = [mem EXCEPT !.auto = ~Chosen(prof), !.volumes = cfg.volumes]
    /\ Goto(IF Seeded # prof THEN "seed" ELSE "layout")
    /\ UNCHANGED disk /\ RestSame

SaveSeeded ==
    /\ at = "seed"
    /\ prof' = Seeded /\ Goto("layout")
    /\ UNCHANGED <<cfg, top, sub, loose, bak, tmp, mem>> /\ RestSame

SeedFails ==
    /\ at = "seed" /\ Fault /\ Goto("firmware")
    /\ UNCHANGED <<disk, mem, past, kills>>

LoadV2 ==
    /\ at = "load2"
    /\ mem' = [mem EXCEPT !.auto = IF mem.before < 5 THEN ~Chosen(prof) ELSE cfg.auto,
                          !.volumes = cfg.volumes]
    /\ Goto("layout")
    /\ UNCHANGED disk /\ RestSame

----------------------------------------------------------------------------
(* relayout                                                                *)

AnySmall == cfg.schema # 0 \/ prof # {} \/ \E f \in Moved : top[f] # NoFile

Relayout ==
    /\ at = "layout"
    /\ Goto(IF AnySmall /\ bak.v2 = NoFile THEN "backup2" ELSE "move")
    /\ UNCHANGED <<disk, mem>> /\ RestSame

\* move_if_free of the next file
Movable == {f \in Moved : top[f] # NoFile /\ sub[f] = NoFile} \ mem.tried

\* mutant: what is in the new place already is replaced
MoveFileOver ==
    /\ at = "move"
    /\ \E f \in {g \in Moved : top[g] # NoFile} \ mem.tried :
          /\ top' = [top EXCEPT ![f] = NoFile]
          /\ sub' = [sub EXCEPT ![f] = top[f]]
    /\ UNCHANGED <<cfg, prof, loose, bak, tmp, at, mem>> /\ RestSame

MoveFile ==
    /\ at = "move"
    /\ \E f \in Movable :
          /\ top' = [top EXCEPT ![f] = NoFile]
          /\ sub' = [sub EXCEPT ![f] = top[f]]
    /\ UNCHANGED <<cfg, prof, loose, bak, tmp, at, mem>> /\ RestSame

\* A file that cannot be moved is left where it is 
MoveFails ==
    /\ at = "move" /\ Fault
    /\ \E f \in Movable : mem' = [mem EXCEPT !.tried = @ \cup {f}]
    /\ UNCHANGED <<disk, at, past, kills>>

RelayoutDone ==
    /\ at = "move" /\ Movable = {}
    /\ loose' = FALSE
    /\ laid' = TRUE
    /\ Goto(IF mem.v1 THEN IF mem.before # 0 THEN "save" ELSE "firmware"
            ELSE IF mem.before < 7 THEN "drop" ELSE "save")
    /\ UNCHANGED <<cfg, prof, top, sub, bak, tmp, mem, orig, paired, cut, faults, kills>>

----------------------------------------------------------------------------
(* The copy of profiles.json that drop_forgotten and consolidate_profiles  *)
(* make once, in its own place.                                            *)

OpenProfilesCopy(copying, saving) ==
    /\ bak' = IF bak.prof = NoFile THEN [bak EXCEPT !.prof = HalfFile] ELSE bak
    /\ Goto(IF bak.prof = NoFile THEN copying ELSE saving)

CopyProfiles ==
    /\ at \in {"dropCopy", "foldCopy"}
    /\ bak' = [bak EXCEPT !.prof = prof]
    /\ Goto(IF at = "dropCopy" THEN "dropSave" ELSE "foldSave")
    /\ UNCHANGED <<cfg, prof, top, sub, loose, tmp, mem>> /\ RestSame

----------------------------------------------------------------------------
(* drop_forgotten: the profiles of devices that are not saved any more.    *)

Forgotten == {p \in prof : p.dev \notin sub["devices"]}

\* Without the saved devices' file nothing says what was forgotten
DropForgotten ==
    /\ at = "drop"
    /\ IF sub["devices"] = NoFile \/ Forgotten = {}
       THEN Goto("save") /\ UNCHANGED <<bak, mem>>
       ELSE /\ OpenProfilesCopy("dropCopy", "dropSave")
            /\ LET gone == {p.dev : p \in Forgotten}
               IN  mem' = [mem EXCEPT !.gone = gone, !.left = gone]
    /\ UNCHANGED <<cfg, prof, top, sub, loose, tmp>> /\ RestSame

DropSave ==
    /\ at = "dropSave"
    /\ prof' = prof \ Forgotten
    /\ mem' = [mem EXCEPT !.volumes = @ \ mem.gone]
    /\ Goto("dropKeys")
    /\ UNCHANGED <<cfg, top, sub, loose, bak, tmp>> /\ RestSame

\* link_keys::forget writes the file for each device
DropKeys ==
    /\ at = "dropKeys"
    /\ \E d \in mem.left :
          /\ sub' = IF sub["keys"] = NoFile THEN sub ELSE [sub EXCEPT !["keys"] = @ \ {d}]
          /\ mem' = [mem EXCEPT !.left = @ \ {d}]
          /\ Goto(IF mem.left = {d} THEN "dropCodecs" ELSE "dropKeys")
    /\ UNCHANGED <<cfg, prof, top, loose, bak, tmp>> /\ RestSame

DropCodecs ==
    /\ at = "dropCodecs"
    /\ sub' = [sub EXCEPT !["codecs"] = IF @ = NoFile THEN {} ELSE @ \ mem.gone]
    /\ Goto("save")
    /\ UNCHANGED <<cfg, prof, top, loose, bak, tmp, mem>> /\ RestSame

\* The copy or the save of the profiles fails: they stay, and so do their traces
DropFails ==
    /\ at \in {"drop", "dropCopy", "dropSave"} /\ Fault
    /\ mem' = [mem EXCEPT !.gone = {}, !.left = {}]
    /\ Goto("save")
    /\ UNCHANGED <<disk, past, kills>>

----------------------------------------------------------------------------
(* Settings::save always writes the current schema.                        *)

Saved(auto, volumes) == [schema |-> Schema, auto |-> auto, legacy |-> FALSE, volumes |-> volumes]

SaveSettings ==
    /\ at = "save"
    /\ cfg' = Saved(mem.auto, mem.volumes)
    /\ Goto("firmware")
    /\ UNCHANGED <<prof, top, sub, loose, bak, tmp, mem>> /\ RestSame

SaveFails ==
    /\ at = "save" /\ Fault /\ Goto("firmware")
    /\ UNCHANGED <<disk, mem, past, kills>>

----------------------------------------------------------------------------
(* The rest of prepare, whatever became of the settings.                   *)

MoveLooseFirmware ==
    /\ at = "firmware"
    /\ loose' = FALSE /\ Goto("fold")
    /\ UNCHANGED <<cfg, prof, top, sub, bak, tmp, mem>> /\ RestSame

\* consolidate: one profile for each device, the one that was streamed last
\* (any of them); it takes the codecs of the others
Folds ==
    LET Of(d) == {p \in prof : p.dev = d}
        Fold(k) == [k EXCEPT !.others =
                       @ \cup (({p.codec : p \in Of(k.dev)} \cup UNION {p.others : p \in Of(k.dev)})
                               \ {"auto", k.codec})]
    IN  {{Fold(keeper[d]) : d \in DOMAIN keeper} :
            keeper \in {k \in [{p.dev : p \in prof} -> prof] : \A d \in DOMAIN k : k[d].dev = d}}

OnePerDevice(list) == \A p, q \in list : p.dev = q.dev => p = q

\* consolidate_profiles
Consolidate ==
    /\ at = "fold"
    /\ IF OnePerDevice(prof) THEN Goto("run") /\ UNCHANGED bak
       ELSE OpenProfilesCopy("foldCopy", "foldSave")
    /\ UNCHANGED <<cfg, prof, top, sub, loose, tmp, mem>> /\ RestSame

FoldSave ==
    /\ at = "foldSave"
    /\ \E list \in Folds : prof' = list
    /\ Goto("run")
    /\ UNCHANGED <<cfg, top, sub, loose, bak, tmp, mem>> /\ RestSame

FoldFails ==
    /\ at \in {"fold", "foldCopy", "foldSave"} /\ ~OnePerDevice(prof) /\ Fault
    /\ Goto("run")
    /\ UNCHANGED <<disk, mem, past, kills>>

----------------------------------------------------------------------------
(* The service runs on what it loaded.                                     *)

\* Any setting is saved (watch_vb_cable at the first start, set_active_profile)
ServiceSaves ==
    /\ at = "run" /\ cfg.schema # Schema
    /\ cfg' = Saved(cfg.auto, cfg.volumes)
    /\ UNCHANGED <<prof, top, sub, loose, bak, tmp, at, mem>> /\ RestSame

\* A device is paired and saved: both files are written in the new place
ServicePairs(d) ==
    /\ at = "run" /\ d \notin paired
    /\ sub' = [f \in Moved |-> IF f = "codecs" THEN sub[f]
                             ELSE IF sub[f] = NoFile THEN {d} ELSE sub[f] \cup {d}]
    /\ paired' = paired \cup {d}
    /\ UNCHANGED <<cfg, prof, top, loose, bak, tmp, at, mem, orig, laid, cut, faults, kills>>

Quit ==
    /\ at = "run"
    /\ Goto("off")
    /\ UNCHANGED <<disk, mem>> /\ RestSame

Kill ==
    /\ at \notin {"off", "run"} /\ kills < MaxKilled
    /\ kills' = kills + 1
    /\ cut' = (cut \/ at \in {"dropKeys", "dropCodecs"} \/ (at = "save" /\ mem.gone # {}))
    /\ Goto("off") /\ mem' = NoMem
    /\ UNCHANGED <<disk, orig, paired, laid, faults>>

----------------------------------------------------------------------------
MigrationNext ==
    \/ StartPrepare \/ BackupOpen \/ BackupDone \/ BackupRename \/ BackupFails
    \/ LoadV1 \/ SaveSeeded \/ SeedFails \/ LoadV2
    \/ Relayout \/ MoveFile \/ MoveFails \/ RelayoutDone
    \/ CopyProfiles \/ DropForgotten \/ DropSave \/ DropKeys \/ DropCodecs \/ DropFails
    \/ SaveSettings \/ SaveFails
    \/ MoveLooseFirmware \/ Consolidate \/ FoldSave \/ FoldFails
    \/ ServiceSaves \/ Quit \/ Kill
    \/ \E d \in Dev : ServicePairs(d)

MigrationSpec == MigrationInit /\ [][MigrationNext]_migrationVars

----------------------------------------------------------------------------
(* Properties.                                                             *)

MigrationTypeOK ==
    /\ cfg.schema \in 0..Schema /\ cfg.volumes \subseteq Dev
    /\ prof \subseteq Profile
    /\ \A f \in Moved, dir \in {top, sub} : dir[f] # NoFile => dir[f] \subseteq Dev
    /\ faults \in 0..MaxFailed /\ kills \in 0..MaxKilled

\* The profiles as the old version left them can always be had again: from
\* profiles.json or from one of the three copies, whichever of them could not
\* be made (prepare).  Except where the program was killed while it copied
\* profiles.json: the next start takes the part for the copy.
ProfilesRecoverable ==
    bak.prof # HalfFile =>
        \/ orig.prof \in {prof, bak.prof}
        \/ \E copy \in {bak.v1, bak.v2} : copy # NoFile /\ copy.prof = orig.prof

KeysOf(dir) == IF dir["keys"] = NoFile THEN {} ELSE dir["keys"]

\* No start loses a pairing made meanwhile, and none the pairing of a device
\* that is saved: what is in the new place is not replaced by what is in the
\* old one, and drop_forgotten takes only the devices that are not saved.  (Two
\* failures are too many: when neither the devices' file could be moved nor the
\* settings be saved, a device saved meanwhile begins a new devices' file, and
\* the next start takes every other device for forgotten.)
KeysKept ==
    LET keys == KeysOf(top) \cup KeysOf(sub)
    IN  /\ paired \subseteq keys
        /\ faults <= 1 => orig.files["keys"] \cap orig.files["devices"] \subseteq keys

\* Without a failing write, however often the program is killed on its way: a
\* folder whose settings say the current schema has every file in its new
\* place, the copy of v1's folder is the folder as v1 left it, the profiles
\* have the packet size that was a setting, Auto-select is off when a saved
\* device has its codec chosen and on when no profile had, and nothing is left
\* of forgotten devices (unless it was killed while it removed that).
MigratedWhole ==
    faults = 0 /\ cfg.schema = Schema /\ orig.cfg.schema \in 1..Schema - 1 =>
        LET saved == orig.files["devices"]
            gone == {p.dev : p \in orig.prof} \ (saved \cup paired)
        IN  /\ laid /\ \A f \in Moved : top[f] = NoFile /\ sub[f] # NoFile
            /\ orig.cfg.schema = 1 => bak.v1 = orig
            /\ orig.cfg.legacy => \A p \in prof : p.sized
            /\ orig.cfg.schema < 5 =>
                  /\ Chosen({p \in orig.prof : p.dev \in saved}) => ~cfg.auto
                  /\ ~Chosen(orig.prof) => cfg.auto
            /\ orig.cfg.schema \in 2..6 /\ ~cut =>
                  gone \cap (cfg.volumes \cup sub["keys"] \cup sub["codecs"]) = {}

MigrationSafe == MigrationTypeOK /\ ProfilesRecoverable /\ KeysKept /\ MigratedWhole

\* "the schema is written only once they are done" (migrate.rs, upgrade_v2):
\* a folder of the current schema has its sub folders.  It does not hold: after
\* a backup that failed the service saves its settings, which writes the
\* current schema, and the files stay in their old place for good.
SchemaAfterLayout == cfg.schema = Schema /\ orig.cfg.schema # 0 => laid
=============================================================================
