------------------------------ MODULE InPlace -------------------------------
(***************************************************************************)
(* In-place editing: the file loop of main, run_in_place and atomic_write  *)
(* of src/main.rs, over a file system that may lose power.                 *)
(*                                                                         *)
(* The content of an inode is a version number, one more for each edit, or *)
(* Torn.  What the process sees (names, temps, data, mode) is told apart   *)
(* from what is on disk (dnames, dtemps, ddata, dmode): directory entries  *)
(* get there when the file system commits them, all changes up to some     *)
(* moment together; of the bytes and the permissions of an inode only      *)
(* sync_all makes sure that they are there.                                *)
(***************************************************************************)
EXTENDS Integers, Sequences, FiniteSets

CONSTANTS
  Paths,      (* The files.                                                *)
  Commands,   (* The argument lists tried: sequences of paths.             *)
  MaxRuns,    (* Bound on how often the command is run.                    *)
  Absent, Torn, Private   (* No inode; half-written bytes; mode 0600.      *)

ASSUME InPlaceAssumption ==
  /\ IsFiniteSet(Paths) /\ MaxRuns \in Nat \ {0}
  /\ Commands \subseteq Seq(Paths) \ {<<>>}
  /\ Absent \notin Nat /\ Torn \notin Nat /\ Private \notin Paths

VARIABLES
  files,    (* The arguments.                                              *)
  backup,   (* Whether -i has an extension.                                *)
  runs,     (* How often the command was started.                          *)
  next,     (* Index of the argument in work.                              *)
  pc,       (* The system call run_in_place is about to make.              *)
  src,      (* The version that was mapped and edited.                     *)
  tmp,      (* The inode of the temporary file.                            *)
  names,    (* names[<<p, "file">>], names[<<p, "bak">>]: inode or Absent. *)
  temps,    (* Inodes that have a name of a temporary file.                *)
  data, mode,          (* Bytes and permissions of each inode ever made.   *)
  dnames, dtemps,      (* The directory on disk.                           *)
  ddata, dmode,        (* The inodes as they were last made durable.       *)
  before,   (* History: version of p when its processing began.            *)
  off,      (* History: whether the power was ever lost.                   *)
  unsynced  (* History: paths replaced without the sync of the directory.  *)

process == <<files, backup, runs, next>>
storage == <<names, temps, data, mode>>
disk    == <<dnames, dtemps, ddata, dmode>>
history == <<before, off, unsynced>>
vars == <<process, pc, src, tmp, storage, disk, history>>

-----------------------------------------------------------------------------
Path == files[next]
File(p) == <<p, "file">>
Bak(p)  == <<p, "bak">>
Content(name) == IF names[name] = Absent THEN Absent ELSE data[names[name]]

Inodes == DOMAIN data
(* A new inode, with the mode of the creating call and no bytes on disk.   *)
NewInode(content, perm) ==
  /\ data' = Append(data, content)
  /\ mode' = Append(mode, perm)
  /\ ddata' = Append(ddata, Torn)
  /\ dmode' = Append(dmode, perm)
Fresh == Len(data) + 1

Steps == {"loop", "open", "drive", "backup", "copy", "metadata", "create", "write", "chmod",
          "fsync", "rename", "dirsync"}
Running == pc \in Steps

(* Inode number i, for i up to the number of paths, is path i's original.  *)
Init ==
  /\ files \in Commands
  /\ backup \in BOOLEAN
  /\ runs = 1 /\ next = 1 /\ src = 0 /\ tmp = Absent
  /\ pc = "loop"
  /\ \E number \in [Paths -> 1..Cardinality(Paths)] :
       /\ \A p, q \in Paths : p # q => number[p] # number[q]
       /\ \A i \in 1..Cardinality(Paths) : \E p \in Paths : number[p] = i
       /\ names = [n \in Paths \X {"file", "bak"} |->
                     IF n[2] = "file" THEN number[n[1]] ELSE Absent]
       /\ mode = [i \in 1..Cardinality(Paths) |-> CHOOSE p \in Paths : number[p] = i]
  /\ data = [i \in 1..Cardinality(Paths) |-> 0]
  /\ temps = {} /\ dnames = names /\ dtemps = {} /\ ddata = data /\ dmode = mode
  /\ before = [p \in Paths |-> 0] /\ off = FALSE /\ unsynced = {}

Goto(step) == pc' = step
NextFile   == Goto("loop") /\ next' = next + 1

-----------------------------------------------------------------------------
(* The operators named Mutant... are faulty variants of the definition that *)
(* follows them.  The specification does not use them: put in its place,   *)
(* each one makes a property fail, which shows what the property is for.   *)
MutantLoop ==
  /\ pc = "loop"
  /\ Goto(IF next < Len(files) THEN "open" ELSE "done")
  /\ UNCHANGED <<process, src, tmp, storage, disk, history>>

(* The file loop of main: the next argument, or the end.                   *)
Loop ==
  /\ pc = "loop"
  /\ Goto(IF next <= Len(files) THEN "open" ELSE "done")
  /\ UNCHANGED <<process, src, tmp, storage, disk, history>>

(* MmapSource::open.                                                       *)
Open ==
  /\ pc = "open"
  /\ src' = Content(File(Path))
  /\ before' = [before EXCEPT ![Path] = Content(File(Path))]
  /\ Goto("drive")
  /\ UNCHANGED <<process, tmp, storage, disk, off, unsynced>>

(* drive: no mutation leaves the file untouched; an awk fault ends main.   *)
(* Which it is depends on the content just mapped: a program that edits a  *)
(* file may find nothing to edit in what it made of it, or edit it again.  *)
Drive ==
  /\ pc = "drive"
  /\ \/ NextFile
     \/ Goto(IF backup THEN "backup" ELSE "metadata") /\ UNCHANGED next
     \/ Goto("failed") /\ UNCHANGED next
  /\ UNCHANGED <<files, backup, runs, src, tmp, storage, disk, history>>

(* std::fs::copy opens the backup for writing, which truncates an older    *)
(* one in place, and then copies the bytes.  Nothing syncs them.           *)
BackupOpen ==
  /\ pc = "backup"
  /\ IF names[Bak(Path)] = Absent
     THEN /\ NewInode(Torn, mode[names[File(Path)]])
          /\ names' = [names EXCEPT ![Bak(Path)] = Fresh]
     ELSE /\ data' = [data EXCEPT ![names[Bak(Path)]] = Torn]
          /\ UNCHANGED <<mode, names, ddata, dmode>>
  /\ Goto("copy")
  /\ UNCHANGED <<process, src, tmp, temps, dnames, dtemps, history>>

MutantBackupCopy ==
  /\ pc = "copy"
  /\ Goto("metadata")
  /\ UNCHANGED <<process, src, tmp, storage, disk, history>>

BackupCopy ==
  /\ pc = "copy"
  /\ data' = [data EXCEPT ![names[Bak(Path)]] = Content(File(Path))]
  /\ mode' = [mode EXCEPT ![names[Bak(Path)]] = mode[names[File(Path)]]]
  /\ Goto("metadata")
  /\ UNCHANGED <<process, src, tmp, names, temps, disk, history>>

-----------------------------------------------------------------------------
(* atomic_write.                                                           *)

Metadata ==
  /\ pc = "metadata"
  /\ Goto("create")
  /\ UNCHANGED <<process, src, tmp, storage, disk, history>>

(* NamedTempFile::new_in the directory of the file.                        *)
Create ==
  /\ pc = "create"
  /\ NewInode(Torn, Private)
  /\ tmp' = Fresh
  /\ temps' = temps \cup {Fresh}
  /\ Goto("write")
  /\ UNCHANGED <<process, src, names, dnames, dtemps, history>>

(* write_all takes any number of write(2) calls: the last one completes    *)
(* the bytes.                                                              *)
WriteAll ==
  /\ pc = "write"
  /\ data' = [data EXCEPT ![tmp] = src + 1]
  /\ Goto("chmod")
  /\ UNCHANGED <<process, src, tmp, names, temps, mode, disk, history>>

Chmod ==
  /\ pc = "chmod"
  /\ mode' = [mode EXCEPT ![tmp] = mode[names[File(Path)]]]
  /\ Goto("fsync")
  /\ UNCHANGED <<process, src, tmp, names, temps, data, disk, history>>

MutantFsync ==
  /\ pc = "fsync"
  /\ Goto("rename")
  /\ UNCHANGED <<process, src, tmp, storage, disk, history>>

MutantSyncData ==
  /\ pc = "fsync"
  /\ ddata' = [ddata EXCEPT ![tmp] = data[tmp]]
  /\ Goto("rename")
  /\ UNCHANGED <<process, src, tmp, storage, dnames, dtemps, dmode, history>>

(* sync_all: the bytes and, unlike sync_data, the permissions.             *)
Fsync ==
  /\ pc = "fsync"
  /\ ddata' = [ddata EXCEPT ![tmp] = data[tmp]]
  /\ dmode' = [dmode EXCEPT ![tmp] = mode[tmp]]
  /\ Goto("rename")
  /\ UNCHANGED <<process, src, tmp, storage, dnames, dtemps, history>>

(* persist: rename(2) over the file.                                       *)
Rename ==
  /\ pc = "rename"
  /\ names' = [names EXCEPT ![File(Path)] = tmp]
  /\ temps' = temps \ {tmp}
  /\ tmp' = Absent
  /\ Goto("dirsync")
  /\ UNCHANGED <<process, src, data, mode, disk, history>>

(* A replacement goes without the sync of its directory if the process     *)
(* does not get past that call, or the directory cannot be opened.         *)
Missed == IF pc = "dirsync" THEN unsynced \cup {Path} ELSE unsynced

MutantDirSync ==
  /\ pc = "dirsync"
  /\ NextFile
  /\ UNCHANGED <<files, backup, runs, src, tmp, storage, disk, history>>

(* The directory is synced if it can be opened, and silently not if not.   *)
DirSync ==
  /\ pc = "dirsync"
  /\ \/ dnames' = names /\ dtemps' = temps /\ unsynced' = unsynced \ {Path}
     \/ UNCHANGED <<dnames, dtemps>> /\ unsynced' = Missed
  /\ NextFile
  /\ UNCHANGED <<files, backup, runs, src, tmp, storage, ddata, dmode, before, off>>

MutantStepFails ==
  /\ Running /\ pc \notin {"loop", "drive"}
  /\ tmp' = Absent
  /\ unsynced' = Missed
  /\ Goto("failed")
  /\ UNCHANGED <<process, src, storage, disk, before, off>>

(* Any of the calls may fail; ? returns to main, which stops at the first  *)
(* failing file.  Dropping the NamedTempFile unlinks it.                   *)
StepFails ==
  /\ Running /\ pc \notin {"loop", "drive"}
  /\ temps' = temps \ {tmp}
  /\ tmp' = Absent
  /\ unsynced' = Missed
  /\ Goto("failed")
  /\ UNCHANGED <<process, src, names, data, mode, disk, before, off>>

-----------------------------------------------------------------------------
(* The environment.                                                        *)

(* The process is killed: no destructor runs.                              *)
Kill ==
  /\ Running
  /\ tmp' = Absent
  /\ unsynced' = Missed
  /\ Goto("killed")
  /\ UNCHANGED <<process, src, storage, disk, before, off>>

(* The file system commits the directory in the background.                *)
Commit ==
  /\ <<dnames, dtemps>> # <<names, temps>>
  /\ dnames' = names /\ dtemps' = temps
  /\ UNCHANGED <<process, pc, src, tmp, storage, ddata, dmode, history>>

(* The machine stops and comes up again with the directory on disk.  An    *)
(* inode has its present bytes, those last made durable or, as when only a *)
(* part of the others arrived, any other; its permissions, which are       *)
(* written apart from the bytes, are the present or the durable ones.      *)
PowerLoss ==
  /\ ~ off
  /\ \E old, torn \in SUBSET {i \in Inodes : data[i] # ddata[i]} :
       data' = [i \in Inodes |-> IF i \in torn THEN Torn
                                 ELSE IF i \in old THEN ddata[i] ELSE data[i]]
  /\ \E old \in SUBSET {i \in Inodes : mode[i] # dmode[i]} :
       mode' = [i \in Inodes |-> IF i \in old THEN dmode[i] ELSE mode[i]]
  /\ names' = dnames /\ temps' = dtemps
  /\ ddata' = data' /\ dmode' = mode'
  /\ off' = TRUE /\ tmp' = Absent /\ unsynced' = {}
  /\ Goto("off")
  /\ UNCHANGED <<process, src, dnames, dtemps, before>>

(* The user runs the same command again.                                   *)
Rerun ==
  /\ ~ Running /\ runs < MaxRuns
  /\ runs' = runs + 1 /\ next' = 1
  /\ Goto("loop")
  /\ UNCHANGED <<files, backup, src, tmp, storage, disk, history>>

Next ==
  \/ Loop \/ Open \/ Drive \/ BackupOpen \/ BackupCopy
  \/ Metadata \/ Create \/ WriteAll \/ Chmod \/ Fsync \/ Rename \/ DirSync
  \/ StepFails \/ Kill \/ Commit \/ PowerLoss \/ Rerun

Spec == Init /\ [][Next]_vars

-----------------------------------------------------------------------------
(* Properties.                                                             *)

(* Every variable stays in its domain, and every name is that of an inode. *)
TypeOK ==
  /\ pc \in Steps \cup {"done", "failed", "killed", "off"}
  /\ runs \in 1..MaxRuns
  /\ next \in 1..(Len(files) + 1)
  /\ data \in Seq(Nat \cup {Torn})
  /\ mode \in Seq(Paths \cup {Private})
  /\ ddata \in Seq(Nat \cup {Torn})
  /\ dmode \in Seq(Paths \cup {Private})
  /\ Len(mode) = Len(data) /\ Len(ddata) = Len(data) /\ Len(dmode) = Len(data)
  /\ \A p \in Paths : names[File(p)] \in Inodes /\ names[Bak(p)] \in Inodes \cup {Absent}
  /\ tmp \in Inodes \cup {Absent}
  /\ tmp # Absent <=> pc \in {"write", "chmod", "fsync", "rename"}

(* Comment of atomic_write: a crash can never truncate the original.  No   *)
(* failure, kill or power loss, at whatever step, leaves a destination     *)
(* half-written, and none would if the power were lost now.                *)
DestinationWhole ==
  \A p \in Paths :
    /\ Content(File(p)) \in Nat
    /\ data[dnames[File(p)]] \in Nat
    /\ ddata[dnames[File(p)]] = data[dnames[File(p)]]

(* man/se.1:520: "The original file mode is preserved".  It is at every    *)
(* moment, and would be if the power were lost now: what is renamed over   *)
(* the file got its permissions before it was synced, and the sync takes   *)
(* in more than the bytes.                                                 *)
PermissionsKept ==
  \A p \in Paths :
    /\ mode[names[File(p)]] = p
    /\ mode[dnames[File(p)]] = p /\ dmode[dnames[File(p)]] = p

(* cli.rs:7-8: "the original is backed up first".  As long as the machine  *)
(* stays up, what a file held when its processing began can be read under  *)
(* its name or the name of its backup, at every step and after any failure *)
(* or kill.                                                                *)
BackupBeforeReplace ==
  backup /\ ~ off =>
    \A p \in Paths : before[p] \in {Content(File(p)), Content(Bak(p))}

(* The same, even if the power was lost.                                   *)
BackupSurvivesPowerLoss ==
  backup => \A p \in Paths : before[p] \in {Content(File(p)), Content(Bak(p))}

(* Only a kill or a power loss leaves a temporary file behind, and one run *)
(* at most one: a run that ends by itself, failing or not, removes its own.*)
TempsRemoved ==
  Cardinality(temps) <= IF pc \in {"done", "failed"} THEN runs - 1 ELSE runs

(* When the command has succeeded, a power loss takes back no replacement, *)
(* whichever run made it, but of a path whose last one went without its    *)
(* directory sync.  Such a one may be of an earlier run that was stopped   *)
(* between the rename and the sync: a run that finds nothing more to edit  *)
(* succeeds without a sync (main.rs:173-175).                              *)
DurableWhenDone ==
  pc = "done" => \A p \in Paths \ unsynced : dnames[File(p)] = names[File(p)]

(* The versions seen through the names, and through the durable names, are *)
(* those of AtomicFiles: run_in_place implements an atomic replacement.    *)
Atomic == INSTANCE AtomicFiles WITH
  version <- [p \in Paths |-> Content(File(p))],
  durable <- [p \in Paths |-> data[dnames[File(p)]]],
  next    <- IF ~ Running THEN 1 ELSE IF pc = "dirsync" THEN next + 1 ELSE next,
  status  <- IF Running THEN "running" ELSE pc
AtomicSpec == Atomic!Spec
=============================================================================
