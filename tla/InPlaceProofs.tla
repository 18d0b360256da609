---------------------------- MODULE InPlaceProofs ----------------------------
(***************************************************************************)
(* Proofs about InPlace, for any finite set of files, any list of          *)
(* arguments and any number of runs.                                       *)
(*                                                                         *)
(* What is promised of the files holds because no step writes to an inode  *)
(* that a file's name leads to, now or after a power loss (Separate), and  *)
(* because what is renamed over a file is complete, has its permissions    *)
(* and is on disk (TmpReady).                                              *)
(***************************************************************************)
EXTENDS InPlace, FiniteSetTheorems, TLAPS

Names == Paths \X {"file", "bak"}

Types ==
  /\ files \in Seq(Paths)
  /\ runs \in 1..MaxRuns
  /\ next \in Nat /\ 1 <= next /\ next <= Len(files) + 1
  /\ pc \in Steps \cup {"done", "failed", "killed", "off"}
  /\ names \in [Names -> Nat \cup {Absent}]
  /\ dnames \in [Names -> Nat \cup {Absent}]
  /\ before \in [Paths -> Nat]

(* What is known of an inode is kept for the same inodes.                  *)
Disk ==
  /\ data \in Seq(Nat \cup {Torn})
  /\ mode \in Seq(Paths \cup {Private})
  /\ ddata \in Seq(Nat \cup {Torn})
  /\ dmode \in Seq(Paths \cup {Private})
  /\ Len(mode) = Len(data) /\ Len(ddata) = Len(data) /\ Len(dmode) = Len(data)

NamesLead ==
  /\ \A p \in Paths : names[File(p)] \in Inodes /\ dnames[File(p)] \in Inodes
  /\ \A p \in Paths : names[Bak(p)] \in Inodes \cup {Absent} /\ dnames[Bak(p)] \in Inodes \cup {Absent}
  /\ tmp \in Inodes \cup {Absent}
  /\ tmp # Absent <=> pc \in {"write", "chmod", "fsync", "rename"}
  /\ pc = "copy" => names[Bak(Path)] # Absent

(* The inodes that are written to, those of backups and of the temporary   *)
(* file, are not those of files.                                           *)
Separate ==
  /\ \A p, q \in Paths :
       /\ names[Bak(p)] # names[File(q)] /\ names[Bak(p)] # dnames[File(q)]
       /\ dnames[Bak(p)] # names[File(q)] /\ dnames[Bak(p)] # dnames[File(q)]
  /\ tmp # Absent => \A p \in Paths :
       /\ tmp # names[File(p)] /\ tmp # dnames[File(p)]
       /\ tmp # names[Bak(p)] /\ tmp # dnames[Bak(p)]

(* What a file's name leads to is whole and has the permissions of the     *)
(* file, and both are on disk.                                             *)
Good(i, p) == data[i] \in Nat /\ ddata[i] = data[i] /\ mode[i] = p /\ dmode[i] = p
Whole == \A p \in Paths : Good(names[File(p)], p) /\ Good(dnames[File(p)], p)

(* The state of the temporary file, from the mapping to the rename.        *)
Working == {"drive", "backup", "copy", "metadata", "create", "write", "chmod", "fsync", "rename"}
TmpReady ==
  /\ pc \in Steps \ {"loop"} => next <= Len(files)
  /\ pc \in Working => src = data[names[File(Path)]]
  /\ pc \in {"chmod", "fsync", "rename"} => data[tmp] = src + 1
  /\ pc \in {"fsync", "rename"} => mode[tmp] = Path
  /\ pc = "rename" => ddata[tmp] = data[tmp] /\ dmode[tmp] = mode[tmp]

(* As long as the machine stays up no two files share a backup, and the    *)
(* backup is complete before the rest begins.                              *)
BackupsApart ==
  ~ off => \A p, q \in Paths : p # q /\ names[Bak(p)] # Absent => names[Bak(p)] # names[Bak(q)]
BackupDone ==
  ~ off =>
    /\ pc \in Working => before[Path] = src
    /\ backup /\ pc \in {"metadata", "create", "write", "chmod", "fsync", "rename"} =>
         Content(Bak(Path)) = before[Path]

(* A replacement that is not yet durable is the one just made, or one that *)
(* went without the sync of its directory.                                 *)
Settling ==
  \A p \in Paths :
    dnames[File(p)] # names[File(p)] => p \in unsynced \/ (pc = "dirsync" /\ p = Path)

IInv == Types /\ Disk /\ NamesLead /\ Separate /\ Whole /\ TmpReady
        /\ BackupsApart /\ BackupDone /\ BackupBeforeReplace /\ Settling

-----------------------------------------------------------------------------
(* Facts about the data.                                                   *)

(* The two names of a path, and those of different paths, are different.   *)
LEMMA Keys ==
  ASSUME NEW p \in Paths, NEW q \in Paths
  PROVE  /\ File(p) \in Names /\ Bak(p) \in Names
         /\ File(p) # Bak(q)
         /\ File(p) = File(q) => p = q
         /\ Bak(p) = Bak(q) => p = q
  BY DEF File, Bak, Names

(* Overwriting an element of a sequence, and adding one.                   *)
LEMMA SeqUpdate ==
  ASSUME NEW S, NEW s \in Seq(S), NEW i \in DOMAIN s, NEW x \in S
  PROVE  /\ [s EXCEPT ![i] = x] \in Seq(S)
         /\ Len([s EXCEPT ![i] = x]) = Len(s) /\ DOMAIN [s EXCEPT ![i] = x] = DOMAIN s
         /\ [s EXCEPT ![i] = x][i] = x
         /\ \A j \in DOMAIN s : j # i => [s EXCEPT ![i] = x][j] = s[j]
  OBVIOUS

LEMMA SeqGrow ==
  ASSUME NEW S, NEW s \in Seq(S), NEW x \in S
  PROVE  /\ Append(s, x) \in Seq(S)
         /\ Len(Append(s, x)) = Len(s) + 1 /\ DOMAIN Append(s, x) = 1..(Len(s) + 1)
         /\ \A j \in DOMAIN s : Append(s, x)[j] = s[j]
  OBVIOUS

(* The argument in work is a path.                                         *)
LEMMA PathInPaths ==
  ASSUME Types, next <= Len(files)
  PROVE  Path \in Paths /\ next \in DOMAIN files
  BY DEF Types, Path

(* The inodes are numbered from 1.                                         *)
LEMMA InodeNumbers ==
  ASSUME Disk
  PROVE  /\ Inodes = 1..Len(data) /\ Len(data) \in Nat
         /\ DOMAIN mode = Inodes /\ DOMAIN ddata = Inodes /\ DOMAIN dmode = Inodes
         /\ Fresh = Len(data) + 1 /\ Fresh \notin Inodes /\ Fresh \in Nat
  BY DEF Disk, Inodes, Fresh

-----------------------------------------------------------------------------
(* Steps that write to one inode.                                          *)

(* Every inode but w is left alone.                                        *)
Others(w) ==
  \A j \in Inodes : j # w =>
    data'[j] = data[j] /\ mode'[j] = mode[j] /\ ddata'[j] = ddata[j] /\ dmode'[j] = dmode[j]

(* What a reader of the files sees, and would see after a power loss.      *)
Kept ==
  \A p \in Paths :
    /\ Content(File(p))' = Content(File(p))
    /\ data'[dnames'[File(p)]] = data[dnames[File(p)]]

(* Writing to one inode: its bytes, its permissions, and a sync of both.   *)
LEMMA DataWrite ==
  ASSUME Disk, NEW i \in Inodes, NEW x \in Nat \cup {Torn}, data' = [data EXCEPT ![i] = x]
  PROVE  /\ data' \in Seq(Nat \cup {Torn}) /\ Len(data') = Len(data) /\ DOMAIN data' = Inodes
         /\ data'[i] = x
         /\ \A j \in Inodes : j # i => data'[j] = data[j]
  BY SeqUpdate DEF Disk, Inodes

LEMMA ModeWrite ==
  ASSUME Disk, NEW i \in Inodes, NEW x \in Paths \cup {Private}, mode' = [mode EXCEPT ![i] = x]
  PROVE  /\ mode' \in Seq(Paths \cup {Private}) /\ Len(mode') = Len(mode)
         /\ mode'[i] = x
         /\ \A j \in Inodes : j # i => mode'[j] = mode[j]
  BY SeqUpdate, InodeNumbers DEF Disk

LEMMA SyncWrite ==
  ASSUME Disk, NEW i \in Inodes,
         ddata' = [ddata EXCEPT ![i] = data[i]], dmode' = [dmode EXCEPT ![i] = mode[i]]
  PROVE  /\ ddata' \in Seq(Nat \cup {Torn}) /\ Len(ddata') = Len(ddata)
         /\ dmode' \in Seq(Paths \cup {Private}) /\ Len(dmode') = Len(dmode)
         /\ ddata'[i] = data[i] /\ dmode'[i] = mode[i]
         /\ \A j \in Inodes : j # i => ddata'[j] = ddata[j] /\ dmode'[j] = dmode[j]
  <1>1. data[i] \in Nat \cup {Torn} /\ mode[i] \in Paths \cup {Private}
    BY InodeNumbers DEF Disk
  <1>2. /\ ddata' \in Seq(Nat \cup {Torn}) /\ Len(ddata') = Len(ddata) /\ ddata'[i] = data[i]
        /\ \A j \in Inodes : j # i => ddata'[j] = ddata[j]
    BY <1>1, SeqUpdate, InodeNumbers DEF Disk
  <1>3. /\ dmode' \in Seq(Paths \cup {Private}) /\ Len(dmode') = Len(dmode) /\ dmode'[i] = mode[i]
        /\ \A j \in Inodes : j # i => dmode'[j] = dmode[j]
    BY <1>1, SeqUpdate, InodeNumbers DEF Disk
  <1>. QED
    BY <1>2, <1>3

(* Making an inode.                                                        *)
LEMMA InodeMade ==
  ASSUME Disk, NEW c \in Nat \cup {Torn}, NEW m \in Paths \cup {Private}, NewInode(c, m)
  PROVE  Disk' /\ Inodes' = Inodes \cup {Fresh} /\ Others(Fresh)
  <1>1. /\ data' \in Seq(Nat \cup {Torn}) /\ Len(data') = Len(data) + 1
        /\ DOMAIN data' = 1..(Len(data) + 1) /\ \A j \in DOMAIN data : data'[j] = data[j]
    BY SeqGrow DEF Disk, NewInode
  <1>2. /\ mode' \in Seq(Paths \cup {Private}) /\ Len(mode') = Len(mode) + 1
        /\ \A j \in DOMAIN mode : mode'[j] = mode[j]
    BY SeqGrow DEF Disk, NewInode
  <1>3. /\ ddata' \in Seq(Nat \cup {Torn}) /\ Len(ddata') = Len(ddata) + 1
        /\ \A j \in DOMAIN ddata : ddata'[j] = ddata[j]
    BY SeqGrow DEF Disk, NewInode
  <1>3a. /\ dmode' \in Seq(Paths \cup {Private}) /\ Len(dmode') = Len(dmode) + 1
         /\ \A j \in DOMAIN dmode : dmode'[j] = dmode[j]
    BY SeqGrow DEF Disk, NewInode
  <1>4. Disk'
    BY <1>1, <1>2, <1>3, <1>3a DEF Disk
  <1>5. Inodes' = Inodes \cup {Fresh}
    <2>1. Inodes' = 1..(Len(data) + 1)
      BY <1>1 DEF Inodes
    <2>. QED
      BY <2>1, InodeNumbers
  <1>6. Others(Fresh)
    BY <1>1, <1>2, <1>3, <1>3a, InodeNumbers DEF Others
  <1>. QED
    BY <1>4, <1>5, <1>6

(* A step that writes to an inode no file leads to leaves the files whole. *)
LEMMA WholeKept ==
  ASSUME NamesLead, Whole, NEW w, Others(w),
         \A p \in Paths : names'[File(p)] = names[File(p)] /\ dnames'[File(p)] = dnames[File(p)],
         \A p \in Paths : names[File(p)] # w /\ dnames[File(p)] # w
  PROVE  Whole'
  BY DEF NamesLead, Whole, Good, Others

(* What a name shows changes only if its inode does.                       *)
LEMMA ContentKept ==
  ASSUME NEW w, Others(w), NEW n, names'[n] = names[n],
         names[n] # Absent => names[n] \in Inodes /\ names[n] # w
  PROVE  Content(n)' = Content(n)
  BY DEF Others, Content

-----------------------------------------------------------------------------
(* Every step keeps the invariant.                                         *)

LEMMA LoopKeeps == ASSUME IInv, Loop PROVE IInv'
  <1>. USE InPlaceAssumption DEF Loop, Goto, process, storage, disk, history
  <1>a. Types /\ Disk /\ NamesLead /\ Separate /\ Whole /\ TmpReady
        /\ BackupsApart /\ BackupDone /\ BackupBeforeReplace /\ Settling
    BY DEF IInv
  <1>1. Types'
    BY <1>a, PathInPaths, InodeNumbers, Keys DEF Types, Steps, Path, Inodes
  <1>2. Disk'
    BY <1>a, PathInPaths, InodeNumbers, Keys DEF Disk, Path, Inodes
  <1>3. NamesLead'
    BY <1>a, PathInPaths, InodeNumbers, Keys DEF NamesLead, Path, Inodes
  <1>4. Separate'
    BY <1>a, PathInPaths, InodeNumbers, Keys DEF Separate, NamesLead, Path, Inodes
  <1>5. Whole'
    BY <1>a, PathInPaths, InodeNumbers, Keys DEF Whole, Good, Path, Inodes
  <1>6. TmpReady'
    BY <1>a, PathInPaths, InodeNumbers, Keys DEF TmpReady, Working, Steps, NamesLead, Path, Inodes
  <1>7. BackupsApart'
    BY <1>a, PathInPaths, InodeNumbers, Keys DEF BackupsApart, Path, Inodes
  <1>8. BackupDone'
    BY <1>a, PathInPaths, InodeNumbers, Keys DEF BackupDone, Working, Content, Steps, Path, Inodes
  <1>9. BackupBeforeReplace'
    BY <1>a, PathInPaths, InodeNumbers, Keys DEF BackupBeforeReplace, Content, Path, Inodes
  <1>10. Settling'
    BY <1>a DEF Settling
  <1>. QED
    BY <1>1, <1>2, <1>3, <1>4, <1>5, <1>6, <1>7, <1>8, <1>9, <1>10 DEF IInv

LEMMA OpenKeeps == ASSUME IInv, Open PROVE IInv'
  <1>. USE InPlaceAssumption DEF Open, Goto, process, storage, disk, history
  <1>a. Types /\ Disk /\ NamesLead /\ Separate /\ Whole /\ TmpReady
        /\ BackupsApart /\ BackupDone /\ BackupBeforeReplace /\ Settling
    BY DEF IInv
  <1>b. Path \in Paths /\ Content(File(Path)) \in Nat /\ Content(File(Path)) = data[names[File(Path)]]
    BY <1>a, PathInPaths, InodeNumbers DEF TmpReady, Steps, Whole, Good, Content, NamesLead
  <1>1. Types'
    BY <1>a, <1>b DEF Types, Steps
  <1>2. Disk'
    BY <1>a, PathInPaths, InodeNumbers, Keys DEF Disk, Path, Inodes
  <1>3. NamesLead'
    BY <1>a, PathInPaths, InodeNumbers, Keys DEF NamesLead, Path, Inodes
  <1>4. Separate'
    BY <1>a, PathInPaths, InodeNumbers, Keys DEF Separate, NamesLead, Path, Inodes
  <1>5. Whole'
    BY <1>a, PathInPaths, InodeNumbers, Keys DEF Whole, Good, Path, Inodes
  <1>6. TmpReady'
    BY <1>a, PathInPaths, InodeNumbers, Keys DEF TmpReady, Working, Steps, NamesLead, Content, Path, Inodes
  <1>7. BackupsApart'
    BY <1>a, PathInPaths, InodeNumbers, Keys DEF BackupsApart, Path, Inodes
  <1>8. BackupDone'
    BY <1>a, <1>b DEF BackupDone, Working, Path, Types
  <1>9. BackupBeforeReplace'
    BY <1>a, <1>b DEF BackupBeforeReplace, Content, Types
  <1>10. Settling'
    BY <1>a DEF Settling, Running, Steps, Path
  <1>. QED
    BY <1>1, <1>2, <1>3, <1>4, <1>5, <1>6, <1>7, <1>8, <1>9, <1>10 DEF IInv

LEMMA DriveKeeps == ASSUME IInv, Drive PROVE IInv'
  <1>. USE InPlaceAssumption DEF Drive, Goto, NextFile, process, storage, disk, history
  <1>a. Types /\ Disk /\ NamesLead /\ Separate /\ Whole /\ TmpReady
        /\ BackupsApart /\ BackupDone /\ BackupBeforeReplace /\ Settling
    BY DEF IInv
  <1>1. Types'
    BY <1>a, PathInPaths, InodeNumbers, Keys DEF Types, Steps, TmpReady, Path, Inodes
  <1>2. Disk'
    BY <1>a, PathInPaths, InodeNumbers, Keys DEF Disk, Path, Inodes
  <1>3. NamesLead'
    BY <1>a, PathInPaths, InodeNumbers, Keys DEF NamesLead, Path, Inodes
  <1>4. Separate'
    BY <1>a, PathInPaths, InodeNumbers, Keys DEF Separate, NamesLead, Path, Inodes
  <1>5. Whole'
    BY <1>a, PathInPaths, InodeNumbers, Keys DEF Whole, Good, Path, Inodes
  <1>6. TmpReady'
    BY <1>a, PathInPaths, InodeNumbers, Keys DEF TmpReady, Working, Steps, NamesLead, Path, Inodes
  <1>7. BackupsApart'
    BY <1>a, PathInPaths, InodeNumbers, Keys DEF BackupsApart, Path, Inodes
  <1>8. BackupDone'
    BY <1>a, PathInPaths, InodeNumbers, Keys DEF BackupDone, Working, Content, Steps, Path, Inodes
  <1>9. BackupBeforeReplace'
    BY <1>a, PathInPaths, InodeNumbers, Keys DEF BackupBeforeReplace, Content, Path, Inodes
  <1>10. Settling'
    BY <1>a DEF Settling
  <1>. QED
    BY <1>1, <1>2, <1>3, <1>4, <1>5, <1>6, <1>7, <1>8, <1>9, <1>10 DEF IInv

LEMMA BackupOpenKeeps == ASSUME IInv, BackupOpen PROVE IInv' /\ Kept
  <1>. USE InPlaceAssumption DEF BackupOpen, Goto, process, storage, disk, history
  <1>a. Types /\ Disk /\ NamesLead /\ Separate /\ Whole /\ TmpReady
        /\ BackupsApart /\ BackupDone /\ BackupBeforeReplace /\ Settling
    BY DEF IInv
  <1>. DEFINE w == IF names[Bak(Path)] = Absent THEN Fresh ELSE names[Bak(Path)]
  <1>b. Path \in Paths /\ mode[names[File(Path)]] = Path
    BY <1>a, PathInPaths DEF TmpReady, Steps, Whole, Good
  <1>c. Disk' /\ Inodes' = Inodes \cup {w} /\ Others(w) /\ w # Absent
        /\ (w \in Inodes => w = names[Bak(Path)])
    <2>1. CASE names[Bak(Path)] = Absent
      <3>1. NewInode(Torn, mode[names[File(Path)]]) /\ w = Fresh
        BY <2>1
      <3>. QED
        BY <1>a, <1>b, <2>1, <3>1, InodeMade, InodeNumbers
    <2>2. CASE names[Bak(Path)] # Absent
      <3>1. w \in Inodes /\ w = names[Bak(Path)]
        BY <1>a, <1>b, <2>2 DEF NamesLead
      <3>. HIDE DEF w
      <3>2. data' = [data EXCEPT ![w] = Torn] /\ UNCHANGED <<mode, ddata, dmode>>
        BY <2>2, <3>1
      <3>3. Disk' /\ Inodes' = Inodes /\ Others(w)
        BY <1>a, <3>1, <3>2, DataWrite DEF Disk, Others, Inodes
      <3>. QED
        BY <1>a, <3>1, <3>3, InodeNumbers
    <2>. QED
      BY <2>1, <2>2
  <1>d. names' = [names EXCEPT ![Bak(Path)] = w] /\ w \in Nat
    <2>1. CASE names[Bak(Path)] = Absent
      BY <1>a, <2>1, InodeNumbers
    <2>2. CASE names[Bak(Path)] # Absent
      BY <1>a, <1>b, <2>2, InodeNumbers DEF NamesLead, Types
    <2>. QED
      BY <2>1, <2>2
  <1>. HIDE DEF w
  <1>e. /\ \A p \in Paths : names'[File(p)] = names[File(p)]
        /\ names'[Bak(Path)] = w
        /\ \A p \in Paths : p # Path => names'[Bak(p)] = names[Bak(p)]
    BY <1>a, <1>b, <1>d, Keys DEF Types
  <1>f. \A p \in Paths : names[File(p)] # w /\ dnames[File(p)] # w
    BY <1>a, <1>b, <1>c DEF Separate, NamesLead
  <1>g. \A p \in Paths : Content(File(p))' = Content(File(p))
    BY <1>a, <1>c, <1>e, <1>f, ContentKept DEF NamesLead
  <1>h. ~ off => \A p \in Paths : p # Path => names[Bak(p)] # w
    BY <1>a, <1>b, <1>c DEF BackupsApart, NamesLead
  <1>i. ~ off => \A p \in Paths : p # Path => Content(Bak(p))' = Content(Bak(p))
    BY <1>a, <1>c, <1>e, <1>h, ContentKept DEF NamesLead
  <1>j. tmp = Absent /\ tmp' = Absent
    BY <1>a DEF NamesLead
  <1>1. Types'
    BY <1>a, <1>d DEF Types, Steps
  <1>2. Disk'
    BY <1>c
  <1>3. NamesLead'
    BY <1>a, <1>b, <1>c, <1>e, <1>j DEF NamesLead, Path
  <1>4. Separate'
    BY <1>a, <1>b, <1>e, <1>f, <1>j DEF Separate
  <1>5. Whole'
    BY <1>a, <1>c, <1>e, <1>f, WholeKept
  <1>6. TmpReady'
    <2>1. data'[names[File(Path)]] = data[names[File(Path)]]
      BY <1>a, <1>b, <1>c, <1>f DEF Others, NamesLead
    <2>. QED
      BY <1>a, <1>b, <1>e, <2>1 DEF TmpReady, Working, Steps, Path
  <1>7. BackupsApart'
    BY <1>a, <1>b, <1>c, <1>e, <1>h DEF BackupsApart
  <1>8. BackupDone'
    BY <1>a DEF BackupDone, Working, Path
  <1>9. BackupBeforeReplace'
    <2>1. before[Path] = Content(File(Path)) \/ off
      BY <1>a, <1>b, InodeNumbers DEF BackupDone, TmpReady, Working, Content, NamesLead
    <2>. QED
      BY <1>a, <1>b, <1>g, <1>i, <2>1 DEF BackupBeforeReplace
  <1>10. Settling'
    BY <1>a, <1>e DEF Settling
  <1>11. Kept
    BY <1>a, <1>c, <1>f, <1>g DEF Kept, Others, NamesLead
  <1>. QED
    BY <1>11, <1>1, <1>2, <1>3, <1>4, <1>5, <1>6, <1>7, <1>8, <1>9, <1>10 DEF IInv

LEMMA BackupCopyKeeps == ASSUME IInv, BackupCopy PROVE IInv' /\ Kept
  <1>. USE InPlaceAssumption DEF BackupCopy, Goto, process, storage, disk, history
  <1>a. Types /\ Disk /\ NamesLead /\ Separate /\ Whole /\ TmpReady
        /\ BackupsApart /\ BackupDone /\ BackupBeforeReplace /\ Settling
    BY DEF IInv
  <1>. DEFINE w == names[Bak(Path)]
  <1>b. /\ Path \in Paths /\ w \in Inodes /\ w # Absent
        /\ Content(File(Path)) = src /\ src \in Nat /\ mode[names[File(Path)]] = Path
    <2>1. Path \in Paths
      BY <1>a, PathInPaths DEF TmpReady, Steps
    <2>2. w \in Inodes /\ w # Absent
      BY <1>a, <2>1 DEF NamesLead
    <2>3. Good(names[File(Path)], Path) /\ names[File(Path)] # Absent
      BY <1>a, <2>1, InodeNumbers DEF Whole, NamesLead
    <2>4. src = data[names[File(Path)]]
      BY <1>a DEF TmpReady, Working
    <2>. QED
      BY <2>1, <2>2, <2>3, <2>4 DEF Good, Content
  <1>. HIDE DEF w
  <1>c. /\ data' \in Seq(Nat \cup {Torn}) /\ Len(data') = Len(data) /\ data'[w] = src
        /\ \A j \in Inodes : j # w => data'[j] = data[j]
    <2>1. data' = [data EXCEPT ![w] = src]
      BY <1>b DEF w
    <2>. QED
      BY <1>a, <1>b, <2>1, DataWrite
  <1>d. /\ mode' \in Seq(Paths \cup {Private}) /\ Len(mode') = Len(mode)
        /\ \A j \in Inodes : j # w => mode'[j] = mode[j]
    <2>1. mode' = [mode EXCEPT ![w] = Path]
      BY <1>b DEF w
    <2>. QED
      BY <1>a, <1>b, <2>1, ModeWrite
  <1>e. Others(w)
    BY <1>c, <1>d DEF Others
  <1>f. \A p \in Paths : names[File(p)] # w /\ dnames[File(p)] # w
    BY <1>a, <1>b DEF Separate, w
  <1>g. \A p \in Paths : Content(File(p))' = Content(File(p))
    BY <1>a, <1>e, <1>f, ContentKept DEF NamesLead
  <1>h. ~ off => \A p \in Paths : p # Path => Content(Bak(p))' = Content(Bak(p))
    <2>1. ~ off => \A p \in Paths : p # Path => names[Bak(p)] # w
      BY <1>a, <1>b DEF BackupsApart, w
    <2>. QED
      BY <1>a, <1>e, <2>1, ContentKept DEF NamesLead
  <1>i. Content(Bak(Path))' = src
    BY <1>b, <1>c DEF Content, w, Path
  <1>1. Types'
    BY <1>a, PathInPaths, InodeNumbers, Keys DEF Types, Steps, Path, Inodes
  <1>2. Disk'
    BY <1>a, <1>c, <1>d DEF Disk
  <1>3. NamesLead'
    BY <1>a, PathInPaths, InodeNumbers, Keys DEF NamesLead, Path, Inodes
  <1>4. Separate'
    BY <1>a, PathInPaths, InodeNumbers, Keys DEF Separate, NamesLead, Path, Inodes
  <1>5. Whole'
    BY <1>a, <1>e, <1>f, WholeKept
  <1>6. TmpReady'
    BY <1>a, <1>b, <1>g DEF TmpReady, Working, Steps, Path, Content, NamesLead
  <1>7. BackupsApart'
    BY <1>a, PathInPaths, InodeNumbers, Keys DEF BackupsApart, Path, Inodes
  <1>8. BackupDone'
    BY <1>a, <1>i DEF BackupDone, Working, Path
  <1>9. BackupBeforeReplace'
    BY <1>a, <1>b, <1>g, <1>h, <1>i DEF BackupBeforeReplace, BackupDone, Working
  <1>10. Settling'
    BY <1>a DEF Settling, Running, Steps, Path
  <1>11. Kept
    BY <1>a, <1>e, <1>f, <1>g DEF Kept, Others, NamesLead
  <1>. QED
    BY <1>11, <1>1, <1>2, <1>3, <1>4, <1>5, <1>6, <1>7, <1>8, <1>9, <1>10 DEF IInv

LEMMA MetadataKeeps == ASSUME IInv, Metadata PROVE IInv'
  <1>. USE InPlaceAssumption DEF Metadata, Goto, process, storage, disk, history
  <1>a. Types /\ Disk /\ NamesLead /\ Separate /\ Whole /\ TmpReady
        /\ BackupsApart /\ BackupDone /\ BackupBeforeReplace /\ Settling
    BY DEF IInv
  <1>1. Types'
    BY <1>a, PathInPaths, InodeNumbers, Keys DEF Types, Steps, Path, Inodes
  <1>2. Disk'
    BY <1>a, PathInPaths, InodeNumbers, Keys DEF Disk, Path, Inodes
  <1>3. NamesLead'
    BY <1>a, PathInPaths, InodeNumbers, Keys DEF NamesLead, Path, Inodes
  <1>4. Separate'
    BY <1>a, PathInPaths, InodeNumbers, Keys DEF Separate, NamesLead, Path, Inodes
  <1>5. Whole'
    BY <1>a, PathInPaths, InodeNumbers, Keys DEF Whole, Good, Path, Inodes
  <1>6. TmpReady'
    BY <1>a, PathInPaths, InodeNumbers, Keys DEF TmpReady, Working, Steps, NamesLead, Path, Inodes
  <1>7. BackupsApart'
    BY <1>a, PathInPaths, InodeNumbers, Keys DEF BackupsApart, Path, Inodes
  <1>8. BackupDone'
    BY <1>a, PathInPaths, InodeNumbers, Keys DEF BackupDone, Working, Content, Steps, Path, Inodes
  <1>9. BackupBeforeReplace'
    BY <1>a, PathInPaths, InodeNumbers, Keys DEF BackupBeforeReplace, Content, Path, Inodes
  <1>10. Settling'
    BY <1>a DEF Settling, Running, Steps, Path
  <1>. QED
    BY <1>1, <1>2, <1>3, <1>4, <1>5, <1>6, <1>7, <1>8, <1>9, <1>10 DEF IInv

LEMMA CreateKeeps == ASSUME IInv, Create PROVE IInv' /\ Kept
  <1>. USE InPlaceAssumption DEF Create, Goto, process, storage, disk, history
  <1>a. Types /\ Disk /\ NamesLead /\ Separate /\ Whole /\ TmpReady
        /\ BackupsApart /\ BackupDone /\ BackupBeforeReplace /\ Settling
    BY DEF IInv
  <1>b. Path \in Paths
    BY <1>a, PathInPaths DEF TmpReady, Steps
  <1>c. Disk' /\ Inodes' = Inodes \cup {Fresh} /\ Others(Fresh)
    BY <1>a, InodeMade
  <1>d. Fresh \notin Inodes /\ Fresh \in Nat
    BY <1>a, InodeNumbers
  <1>e. \A p \in Paths : names[File(p)] # Fresh /\ dnames[File(p)] # Fresh
                        /\ names[Bak(p)] # Fresh /\ dnames[Bak(p)] # Fresh
    BY <1>a, <1>d DEF NamesLead
  <1>f. \A p \in Paths : Content(File(p))' = Content(File(p)) /\ Content(Bak(p))' = Content(Bak(p))
    <2>. TAKE p \in Paths
    <2>. QED
      BY <1>a, <1>c, <1>e, ContentKept DEF NamesLead
  <1>1. Types'
    BY <1>a, PathInPaths, InodeNumbers, Keys DEF Types, Steps, Path, Inodes
  <1>2. Disk'
    BY <1>c
  <1>3. NamesLead'
    BY <1>a, <1>c, <1>d DEF NamesLead, Path
  <1>4. Separate'
    BY <1>a, <1>e DEF Separate
  <1>5. Whole'
    BY <1>a, <1>c, <1>e, WholeKept
  <1>6. TmpReady'
    <2>1. data'[names[File(Path)]] = data[names[File(Path)]]
      BY <1>a, <1>b, <1>c, <1>e DEF Others, NamesLead
    <2>. QED
      BY <1>a, <2>1 DEF TmpReady, Working, Steps, Path
  <1>7. BackupsApart'
    BY <1>a, PathInPaths, InodeNumbers, Keys DEF BackupsApart, Path, Inodes
  <1>8. BackupDone'
    BY <1>a, <1>b, <1>f DEF BackupDone, Working, Path
  <1>9. BackupBeforeReplace'
    BY <1>a, <1>f DEF BackupBeforeReplace
  <1>10. Settling'
    BY <1>a DEF Settling, Running, Steps, Path
  <1>11. Kept
    BY <1>a, <1>c, <1>e, <1>f DEF Kept, Others, NamesLead
  <1>. QED
    BY <1>11, <1>1, <1>2, <1>3, <1>4, <1>5, <1>6, <1>7, <1>8, <1>9, <1>10 DEF IInv

LEMMA WriteAllKeeps == ASSUME IInv, WriteAll PROVE IInv' /\ Kept
  <1>. USE InPlaceAssumption DEF WriteAll, Goto, process, storage, disk, history
  <1>a. Types /\ Disk /\ NamesLead /\ Separate /\ Whole /\ TmpReady
        /\ BackupsApart /\ BackupDone /\ BackupBeforeReplace /\ Settling
    BY DEF IInv
  <1>b. tmp \in Inodes /\ tmp # Absent /\ Path \in Paths /\ src \in Nat
    BY <1>a, PathInPaths DEF NamesLead, TmpReady, Working, Steps, Whole, Good
  <1>c. /\ data' \in Seq(Nat \cup {Torn}) /\ Len(data') = Len(data) /\ data'[tmp] = src + 1
       /\ \A j \in Inodes : j # tmp => data'[j] = data[j]
    <2>1. src + 1 \in Nat \cup {Torn} /\ data' = [data EXCEPT ![tmp] = src + 1]
      BY <1>b
    <2>. QED
      BY <1>a, <1>b, <2>1, DataWrite
  <1>d. Others(tmp)
    BY <1>c DEF Others
  <1>e. \A p \in Paths : names[File(p)] # tmp /\ dnames[File(p)] # tmp /\ names[Bak(p)] # tmp
    BY <1>a, <1>b DEF Separate
  <1>f. \A p \in Paths : Content(File(p))' = Content(File(p)) /\ Content(Bak(p))' = Content(Bak(p))
    <2>. TAKE p \in Paths
    <2>. QED
      BY <1>a, <1>d, <1>e, ContentKept DEF NamesLead
  <1>1. Types'
    BY <1>a, PathInPaths, InodeNumbers, Keys DEF Types, Steps, Path, Inodes
  <1>2. Disk'
    BY <1>a, <1>c DEF Disk
  <1>3. NamesLead'
    BY <1>a, PathInPaths, InodeNumbers, Keys DEF NamesLead, Path, Inodes
  <1>4. Separate'
    BY <1>a, PathInPaths, InodeNumbers, Keys DEF Separate, NamesLead, Path, Inodes
  <1>5. Whole'
    BY <1>a, <1>d, <1>e, WholeKept
  <1>6. TmpReady'
    <2>1. data'[names[File(Path)]] = data[names[File(Path)]]
      BY <1>a, <1>b, <1>d, <1>e DEF Others, NamesLead
    <2>. QED
      BY <1>a, <1>c, <2>1 DEF TmpReady, Working, Steps, Path
  <1>7. BackupsApart'
    BY <1>a, PathInPaths, InodeNumbers, Keys DEF BackupsApart, Path, Inodes
  <1>8. BackupDone'
    BY <1>a, <1>b, <1>f DEF BackupDone, Working, Path
  <1>9. BackupBeforeReplace'
    BY <1>a, <1>f DEF BackupBeforeReplace
  <1>10. Settling'
    BY <1>a DEF Settling, Running, Steps, Path
  <1>11. Kept
    BY <1>a, <1>d, <1>e, <1>f DEF Kept, Others, NamesLead
  <1>. QED
    BY <1>11, <1>1, <1>2, <1>3, <1>4, <1>5, <1>6, <1>7, <1>8, <1>9, <1>10 DEF IInv

LEMMA ChmodKeeps == ASSUME IInv, Chmod PROVE IInv' /\ Kept
  <1>. USE InPlaceAssumption DEF Chmod, Goto, process, storage, disk, history
  <1>a. Types /\ Disk /\ NamesLead /\ Separate /\ Whole /\ TmpReady
        /\ BackupsApart /\ BackupDone /\ BackupBeforeReplace /\ Settling
    BY DEF IInv
  <1>b. tmp \in Inodes /\ tmp # Absent /\ Path \in Paths /\ src \in Nat
    BY <1>a, PathInPaths DEF NamesLead, TmpReady, Working, Steps, Whole, Good
  <1>c. /\ mode' \in Seq(Paths \cup {Private}) /\ Len(mode') = Len(mode) /\ mode'[tmp] = Path
       /\ \A j \in Inodes : j # tmp => mode'[j] = mode[j]
    <2>1. mode[names[File(Path)]] = Path
      BY <1>a, <1>b DEF Whole, Good
    <2>. QED
      BY <1>a, <1>b, <2>1, ModeWrite
  <1>d. Others(tmp)
    BY <1>c DEF Others
  <1>e. \A p \in Paths : names[File(p)] # tmp /\ dnames[File(p)] # tmp /\ names[Bak(p)] # tmp
    BY <1>a, <1>b DEF Separate
  <1>f. \A p \in Paths : Content(File(p))' = Content(File(p)) /\ Content(Bak(p))' = Content(Bak(p))
    <2>. TAKE p \in Paths
    <2>. QED
      BY <1>a, <1>d, <1>e, ContentKept DEF NamesLead
  <1>1. Types'
    BY <1>a, PathInPaths, InodeNumbers, Keys DEF Types, Steps, Path, Inodes
  <1>2. Disk'
    BY <1>a, <1>c DEF Disk
  <1>3. NamesLead'
    BY <1>a, PathInPaths, InodeNumbers, Keys DEF NamesLead, Path, Inodes
  <1>4. Separate'
    BY <1>a, PathInPaths, InodeNumbers, Keys DEF Separate, NamesLead, Path, Inodes
  <1>5. Whole'
    BY <1>a, <1>d, <1>e, WholeKept
  <1>6. TmpReady'
    BY <1>a, <1>c DEF TmpReady, Working, Steps, Path
  <1>7. BackupsApart'
    BY <1>a, PathInPaths, InodeNumbers, Keys DEF BackupsApart, Path, Inodes
  <1>8. BackupDone'
    BY <1>a, <1>b, <1>f DEF BackupDone, Working, Path
  <1>9. BackupBeforeReplace'
    BY <1>a, <1>f DEF BackupBeforeReplace
  <1>10. Settling'
    BY <1>a DEF Settling, Running, Steps, Path
  <1>11. Kept
    BY <1>a, <1>d, <1>e, <1>f DEF Kept, Others, NamesLead
  <1>. QED
    BY <1>11, <1>1, <1>2, <1>3, <1>4, <1>5, <1>6, <1>7, <1>8, <1>9, <1>10 DEF IInv

LEMMA FsyncKeeps == ASSUME IInv, Fsync PROVE IInv' /\ Kept
  <1>. USE InPlaceAssumption DEF Fsync, Goto, process, storage, disk, history
  <1>a. Types /\ Disk /\ NamesLead /\ Separate /\ Whole /\ TmpReady
        /\ BackupsApart /\ BackupDone /\ BackupBeforeReplace /\ Settling
    BY DEF IInv
  <1>b. tmp \in Inodes /\ tmp # Absent /\ Path \in Paths /\ src \in Nat
    BY <1>a, PathInPaths DEF NamesLead, TmpReady, Working, Steps, Whole, Good
  <1>c. /\ ddata' \in Seq(Nat \cup {Torn}) /\ Len(ddata') = Len(ddata)
        /\ dmode' \in Seq(Paths \cup {Private}) /\ Len(dmode') = Len(dmode)
        /\ ddata'[tmp] = data[tmp] /\ dmode'[tmp] = mode[tmp]
        /\ \A j \in Inodes : j # tmp => ddata'[j] = ddata[j] /\ dmode'[j] = dmode[j]
    BY <1>a, <1>b, SyncWrite
  <1>d. Others(tmp)
    BY <1>c DEF Others
  <1>e. \A p \in Paths : names[File(p)] # tmp /\ dnames[File(p)] # tmp /\ names[Bak(p)] # tmp
    BY <1>a, <1>b DEF Separate
  <1>f. \A p \in Paths : Content(File(p))' = Content(File(p)) /\ Content(Bak(p))' = Content(Bak(p))
    <2>. TAKE p \in Paths
    <2>. QED
      BY <1>a, <1>d, <1>e, ContentKept DEF NamesLead
  <1>1. Types'
    BY <1>a, PathInPaths, InodeNumbers, Keys DEF Types, Steps, Path, Inodes
  <1>2. Disk'
    BY <1>a, <1>c DEF Disk
  <1>3. NamesLead'
    BY <1>a, PathInPaths, InodeNumbers, Keys DEF NamesLead, Path, Inodes
  <1>4. Separate'
    BY <1>a, PathInPaths, InodeNumbers, Keys DEF Separate, NamesLead, Path, Inodes
  <1>5. Whole'
    BY <1>a, <1>d, <1>e, WholeKept
  <1>6. TmpReady'
    BY <1>a, <1>c DEF TmpReady, Working, Steps, Path
  <1>7. BackupsApart'
    BY <1>a, PathInPaths, InodeNumbers, Keys DEF BackupsApart, Path, Inodes
  <1>8. BackupDone'
    BY <1>a, <1>b, <1>f DEF BackupDone, Working, Path
  <1>9. BackupBeforeReplace'
    BY <1>a, <1>f DEF BackupBeforeReplace
  <1>10. Settling'
    BY <1>a DEF Settling, Running, Steps, Path
  <1>11. Kept
    BY <1>a, <1>d, <1>e, <1>f DEF Kept, Others, NamesLead
  <1>. QED
    BY <1>11, <1>1, <1>2, <1>3, <1>4, <1>5, <1>6, <1>7, <1>8, <1>9, <1>10 DEF IInv

LEMMA RenameKeeps == ASSUME IInv, Rename PROVE IInv'
  <1>. USE InPlaceAssumption DEF Rename, Goto, process, storage, disk, history
  <1>a. Types /\ Disk /\ NamesLead /\ Separate /\ Whole /\ TmpReady
        /\ BackupsApart /\ BackupDone /\ BackupBeforeReplace /\ Settling
    BY DEF IInv
  <1>b. Path \in Paths /\ tmp \in Inodes /\ tmp # Absent /\ tmp \in Nat /\ src \in Nat
    BY <1>a, PathInPaths, InodeNumbers DEF NamesLead, TmpReady, Steps, Working, Whole, Good
  <1>c. /\ \A p \in Paths : names'[Bak(p)] = names[Bak(p)]
        /\ names'[File(Path)] = tmp
        /\ \A p \in Paths : p # Path => names'[File(p)] = names[File(p)]
    BY <1>a, <1>b, Keys DEF Types
  <1>1. Types'
    BY <1>a, <1>b DEF Types, Steps
  <1>2. Disk'
    BY <1>a, PathInPaths, InodeNumbers, Keys DEF Disk, Path, Inodes
  <1>3. NamesLead'
    BY <1>a, PathInPaths, InodeNumbers, Keys DEF NamesLead, Path, Inodes
  <1>4. Separate'
    BY <1>a, <1>b, <1>c DEF Separate
  <1>5. Whole'
    <2>1. Good(tmp, Path)
      BY <1>a, <1>b DEF TmpReady, Good
    <2>. QED
      BY <1>a, <1>c, <2>1 DEF Whole, Good
  <1>6. TmpReady'
    BY <1>a, PathInPaths, InodeNumbers, Keys DEF TmpReady, Working, Steps, NamesLead, Path, Inodes
  <1>7. BackupsApart'
    BY <1>a, <1>c DEF BackupsApart
  <1>8. BackupDone'
    BY <1>a DEF BackupDone, Working
  <1>9. BackupBeforeReplace'
    BY <1>a, <1>b, <1>c DEF BackupBeforeReplace, BackupDone, Content
  <1>10. Settling'
    BY <1>a, <1>b, <1>c DEF Settling, Path
  <1>. QED
    BY <1>1, <1>2, <1>3, <1>4, <1>5, <1>6, <1>7, <1>8, <1>9, <1>10 DEF IInv

LEMMA DirSyncKeeps == ASSUME IInv, DirSync PROVE IInv'
  <1>. USE InPlaceAssumption DEF DirSync, NextFile, Goto, process, storage, disk, history
  <1>a. Types /\ Disk /\ NamesLead /\ Separate /\ Whole /\ TmpReady
        /\ BackupsApart /\ BackupDone /\ BackupBeforeReplace /\ Settling
    BY DEF IInv
  <1>1. Types'
    BY <1>a, PathInPaths, InodeNumbers, Keys DEF Types, Steps, TmpReady, Path, Inodes
  <1>2. Disk'
    BY <1>a, PathInPaths, InodeNumbers, Keys DEF Disk, Path, Inodes
  <1>3. NamesLead'
    BY <1>a, PathInPaths, InodeNumbers, Keys DEF NamesLead, Path, Inodes
  <1>4. Separate'
    BY <1>a, PathInPaths, InodeNumbers, Keys DEF Separate, NamesLead, Path, Inodes
  <1>5. Whole'
    BY <1>a, PathInPaths, InodeNumbers, Keys DEF Whole, Good, Path, Inodes
  <1>6. TmpReady'
    BY <1>a, PathInPaths, InodeNumbers, Keys DEF TmpReady, Working, Steps, NamesLead, Path, Inodes
  <1>7. BackupsApart'
    BY <1>a, PathInPaths, InodeNumbers, Keys DEF BackupsApart, Path, Inodes
  <1>8. BackupDone'
    BY <1>a, PathInPaths, InodeNumbers, Keys DEF BackupDone, Working, Content, Steps, Path, Inodes
  <1>9. BackupBeforeReplace'
    BY <1>a, PathInPaths, InodeNumbers, Keys DEF BackupBeforeReplace, Content, Path, Inodes
  <1>10. Settling'
    BY <1>a DEF Settling, Missed
  <1>. QED
    BY <1>1, <1>2, <1>3, <1>4, <1>5, <1>6, <1>7, <1>8, <1>9, <1>10 DEF IInv

LEMMA StepFailsKeeps == ASSUME IInv, StepFails PROVE IInv'
  <1>. USE InPlaceAssumption DEF StepFails, Goto, Running, process, storage, disk, history
  <1>a. Types /\ Disk /\ NamesLead /\ Separate /\ Whole /\ TmpReady
        /\ BackupsApart /\ BackupDone /\ BackupBeforeReplace /\ Settling
    BY DEF IInv
  <1>1. Types'
    BY <1>a, PathInPaths, InodeNumbers, Keys DEF Types, Steps, Path, Inodes
  <1>2. Disk'
    BY <1>a, PathInPaths, InodeNumbers, Keys DEF Disk, Path, Inodes
  <1>3. NamesLead'
    BY <1>a, PathInPaths, InodeNumbers, Keys DEF NamesLead, Path, Inodes
  <1>4. Separate'
    BY <1>a, PathInPaths, InodeNumbers, Keys DEF Separate, NamesLead, Path, Inodes
  <1>5. Whole'
    BY <1>a, PathInPaths, InodeNumbers, Keys DEF Whole, Good, Path, Inodes
  <1>6. TmpReady'
    BY <1>a, PathInPaths, InodeNumbers, Keys DEF TmpReady, Working, Steps, NamesLead, Path, Inodes
  <1>7. BackupsApart'
    BY <1>a, PathInPaths, InodeNumbers, Keys DEF BackupsApart, Path, Inodes
  <1>8. BackupDone'
    BY <1>a, PathInPaths, InodeNumbers, Keys DEF BackupDone, Working, Content, Steps, Path, Inodes
  <1>9. BackupBeforeReplace'
    BY <1>a, PathInPaths, InodeNumbers, Keys DEF BackupBeforeReplace, Content, Path, Inodes
  <1>10. Settling'
    BY <1>a DEF Settling, Missed
  <1>. QED
    BY <1>1, <1>2, <1>3, <1>4, <1>5, <1>6, <1>7, <1>8, <1>9, <1>10 DEF IInv

LEMMA KillKeeps == ASSUME IInv, Kill PROVE IInv'
  <1>. USE InPlaceAssumption DEF Kill, Goto, Running, process, storage, disk, history
  <1>a. Types /\ Disk /\ NamesLead /\ Separate /\ Whole /\ TmpReady
        /\ BackupsApart /\ BackupDone /\ BackupBeforeReplace /\ Settling
    BY DEF IInv
  <1>1. Types'
    BY <1>a, PathInPaths, InodeNumbers, Keys DEF Types, Steps, Path, Inodes
  <1>2. Disk'
    BY <1>a, PathInPaths, InodeNumbers, Keys DEF Disk, Path, Inodes
  <1>3. NamesLead'
    BY <1>a, PathInPaths, InodeNumbers, Keys DEF NamesLead, Path, Inodes
  <1>4. Separate'
    BY <1>a, PathInPaths, InodeNumbers, Keys DEF Separate, NamesLead, Path, Inodes
  <1>5. Whole'
    BY <1>a, PathInPaths, InodeNumbers, Keys DEF Whole, Good, Path, Inodes
  <1>6. TmpReady'
    BY <1>a, PathInPaths, InodeNumbers, Keys DEF TmpReady, Working, Steps, NamesLead, Path, Inodes
  <1>7. BackupsApart'
    BY <1>a, PathInPaths, InodeNumbers, Keys DEF BackupsApart, Path, Inodes
  <1>8. BackupDone'
    BY <1>a, PathInPaths, InodeNumbers, Keys DEF BackupDone, Working, Content, Steps, Path, Inodes
  <1>9. BackupBeforeReplace'
    BY <1>a, PathInPaths, InodeNumbers, Keys DEF BackupBeforeReplace, Content, Path, Inodes
  <1>10. Settling'
    BY <1>a DEF Settling, Missed
  <1>. QED
    BY <1>1, <1>2, <1>3, <1>4, <1>5, <1>6, <1>7, <1>8, <1>9, <1>10 DEF IInv

LEMMA CommitKeeps == ASSUME IInv, Commit PROVE IInv'
  <1>. USE InPlaceAssumption DEF Commit, process, storage, disk, history
  <1>a. Types /\ Disk /\ NamesLead /\ Separate /\ Whole /\ TmpReady
        /\ BackupsApart /\ BackupDone /\ BackupBeforeReplace /\ Settling
    BY DEF IInv
  <1>1. Types'
    BY <1>a, PathInPaths, InodeNumbers, Keys DEF Types, Steps, Path, Inodes
  <1>2. Disk'
    BY <1>a, PathInPaths, InodeNumbers, Keys DEF Disk, Path, Inodes
  <1>3. NamesLead'
    BY <1>a, PathInPaths, InodeNumbers, Keys DEF NamesLead, Path, Inodes
  <1>4. Separate'
    BY <1>a, PathInPaths, InodeNumbers, Keys DEF Separate, NamesLead, Path, Inodes
  <1>5. Whole'
    BY <1>a, PathInPaths, InodeNumbers, Keys DEF Whole, Good, Path, Inodes
  <1>6. TmpReady'
    BY <1>a, PathInPaths, InodeNumbers, Keys DEF TmpReady, Working, Steps, NamesLead, Path, Inodes
  <1>7. BackupsApart'
    BY <1>a, PathInPaths, InodeNumbers, Keys DEF BackupsApart, Path, Inodes
  <1>8. BackupDone'
    BY <1>a, PathInPaths, InodeNumbers, Keys DEF BackupDone, Working, Content, Steps, Path, Inodes
  <1>9. BackupBeforeReplace'
    BY <1>a, PathInPaths, InodeNumbers, Keys DEF BackupBeforeReplace, Content, Path, Inodes
  <1>10. Settling'
    BY <1>a DEF Settling, Running, Steps, Path
  <1>. QED
    BY <1>1, <1>2, <1>3, <1>4, <1>5, <1>6, <1>7, <1>8, <1>9, <1>10 DEF IInv

LEMMA PowerLossKeeps == ASSUME IInv, PowerLoss PROVE IInv'
  <1>. USE InPlaceAssumption DEF PowerLoss, Goto, process, storage, disk, history
  <1>a. Types /\ Disk /\ NamesLead /\ Separate /\ Whole /\ TmpReady
        /\ BackupsApart /\ BackupDone /\ BackupBeforeReplace /\ Settling
    BY DEF IInv
  <1>1. Types'
    BY <1>a, PathInPaths, InodeNumbers, Keys DEF Types, Steps, Path, Inodes
  <1>2. Disk'
    <2>1. PICK old, torn \in SUBSET {i \in Inodes : data[i] # ddata[i]} :
            data' = [i \in Inodes |-> IF i \in torn THEN Torn
                                      ELSE IF i \in old THEN ddata[i] ELSE data[i]]
      OBVIOUS
    <2>2. PICK stale \in SUBSET {i \in Inodes : mode[i] # dmode[i]} :
            mode' = [i \in Inodes |-> IF i \in stale THEN dmode[i] ELSE mode[i]]
      OBVIOUS
    <2>3. /\ Inodes = 1..Len(data) /\ Len(data) \in Nat
          /\ \A i \in Inodes : /\ data[i] \in Nat \cup {Torn} /\ ddata[i] \in Nat \cup {Torn}
                             /\ mode[i] \in Paths \cup {Private}
                             /\ dmode[i] \in Paths \cup {Private}
      BY <1>a, InodeNumbers DEF Disk
    <2>4. data' \in Seq(Nat \cup {Torn}) /\ Len(data') = Len(data)
      BY <2>1, <2>3
    <2>5. mode' \in Seq(Paths \cup {Private}) /\ Len(mode') = Len(data)
      BY <2>2, <2>3
    <2>. QED
      BY <2>4, <2>5 DEF Disk
  <1>3. NamesLead'
    BY <1>a, PathInPaths, InodeNumbers, Keys DEF NamesLead, Path, Inodes
  <1>4. Separate'
    BY <1>a, PathInPaths, InodeNumbers, Keys DEF Separate, NamesLead, Path, Inodes
  <1>5. Whole'
    BY <1>a, PathInPaths, InodeNumbers, Keys DEF Whole, Good, NamesLead, Path, Inodes
  <1>6. TmpReady'
    BY <1>a, PathInPaths, InodeNumbers, Keys DEF TmpReady, Working, Steps, NamesLead, Path, Inodes
  <1>7. BackupsApart'
    BY <1>a, PathInPaths, InodeNumbers, Keys DEF BackupsApart, Path, Inodes
  <1>8. BackupDone'
    BY <1>a, PathInPaths, InodeNumbers, Keys DEF BackupDone, Working, Content, Steps, Path, Inodes
  <1>9. BackupBeforeReplace'
    BY <1>a, PathInPaths, InodeNumbers, Keys DEF BackupBeforeReplace, Content, Path, Inodes
  <1>10. Settling'
    BY <1>a DEF Settling, Running, Steps, Path
  <1>. QED
    BY <1>1, <1>2, <1>3, <1>4, <1>5, <1>6, <1>7, <1>8, <1>9, <1>10 DEF IInv

LEMMA RerunKeeps == ASSUME IInv, Rerun PROVE IInv'
  <1>. USE InPlaceAssumption DEF Rerun, Goto, Running, process, storage, disk, history
  <1>a. Types /\ Disk /\ NamesLead /\ Separate /\ Whole /\ TmpReady
        /\ BackupsApart /\ BackupDone /\ BackupBeforeReplace /\ Settling
    BY DEF IInv
  <1>1. Types'
    BY <1>a, PathInPaths, InodeNumbers, Keys DEF Types, Steps, Path, Inodes
  <1>2. Disk'
    BY <1>a, PathInPaths, InodeNumbers, Keys DEF Disk, Path, Inodes
  <1>3. NamesLead'
    BY <1>a, PathInPaths, InodeNumbers, Keys DEF NamesLead, Steps, Path, Inodes
  <1>4. Separate'
    BY <1>a, PathInPaths, InodeNumbers, Keys DEF Separate, NamesLead, Path, Inodes
  <1>5. Whole'
    BY <1>a, PathInPaths, InodeNumbers, Keys DEF Whole, Good, Path, Inodes
  <1>6. TmpReady'
    BY <1>a, PathInPaths, InodeNumbers, Keys DEF TmpReady, Working, Steps, NamesLead, Path, Inodes
  <1>7. BackupsApart'
    BY <1>a, PathInPaths, InodeNumbers, Keys DEF BackupsApart, Path, Inodes
  <1>8. BackupDone'
    BY <1>a, PathInPaths, InodeNumbers, Keys DEF BackupDone, Working, Content, Steps, Path, Inodes
  <1>9. BackupBeforeReplace'
    BY <1>a, PathInPaths, InodeNumbers, Keys DEF BackupBeforeReplace, Content, Path, Inodes
  <1>10. Settling'
    BY <1>a DEF Settling, Running, Steps, Path
  <1>. QED
    BY <1>1, <1>2, <1>3, <1>4, <1>5, <1>6, <1>7, <1>8, <1>9, <1>10 DEF IInv

-----------------------------------------------------------------------------
LEMMA StutterKeeps == ASSUME IInv, UNCHANGED vars PROVE IInv'
  BY DEF vars, process, storage, disk, history, IInv, Types, Disk, NamesLead, Separate, Whole, Good, TmpReady,
         BackupsApart, BackupDone, BackupBeforeReplace, Settling, Running, Content, Path, Inodes

LEMMA InitInv == Init => IInv
  <1>. SUFFICES ASSUME Init PROVE IInv
    OBVIOUS
  <1>. DEFINE n == Cardinality(Paths)
  <1>. USE InPlaceAssumption
  <1>1. n \in Nat
    BY FS_CardinalityType
  <1>. HIDE DEF n
  <1>2. PICK number \in [Paths -> 1..n] :
          /\ \A p, q \in Paths : p # q => number[p] # number[q]
          /\ \A i \in 1..n : \E p \in Paths : number[p] = i
          /\ names = [m \in Paths \X {"file", "bak"} |->
                        IF m[2] = "file" THEN number[m[1]] ELSE Absent]
          /\ mode = [i \in 1..n |-> CHOOSE p \in Paths : number[p] = i]
    BY DEF Init, n
  <1>3. /\ data = [i \in 1..n |-> 0] /\ ddata = data /\ dmode = mode /\ dnames = names
        /\ tmp = Absent /\ pc = "loop" /\ next = 1 /\ runs = 1 /\ off = FALSE
        /\ before = [p \in Paths |-> 0]
    BY DEF Init, n
  <1>4. files \in Seq(Paths) /\ Len(files) >= 1
    BY DEF Init
  <1>5. \A p \in Paths : names[File(p)] = number[p] /\ names[Bak(p)] = Absent
    BY <1>2 DEF File, Bak
  <1>6. \A p \in Paths : number[p] \in 1..n /\ mode[number[p]] = p
    BY <1>2
  <1>7. mode \in Seq(Paths \cup {Private}) /\ Len(mode) = n
    <2>1. \A i \in 1..n : mode[i] \in Paths
      BY <1>2
    <2>. QED
      BY <1>1, <1>2, <2>1
  <1>8. data \in Seq(Nat \cup {Torn}) /\ Len(data) = n /\ Inodes = 1..n
    BY <1>1, <1>3 DEF Inodes
  <1>10. Types
    <2>1. names \in [Names -> Nat \cup {Absent}]
      BY <1>1, <1>2 DEF Names
    <2>. QED
      BY <1>3, <1>4, <2>1 DEF Types, Steps
  <1>11. Disk
    BY <1>3, <1>7, <1>8 DEF Disk
  <1>12. NamesLead /\ Separate
    BY <1>1, <1>3, <1>5, <1>6, <1>8 DEF NamesLead, Separate
  <1>13. Whole
    BY <1>3, <1>5, <1>6 DEF Whole, Good
  <1>14. TmpReady /\ Settling
    BY <1>3 DEF TmpReady, Working, Settling
  <1>15. BackupsApart /\ BackupDone
    BY <1>3, <1>5 DEF BackupsApart, BackupDone, Working
  <1>16. BackupBeforeReplace
    <2>1. \A p \in Paths : Content(File(p)) = 0
      BY <1>1, <1>3, <1>5, <1>6 DEF Content
    <2>. QED
      BY <1>3, <2>1 DEF BackupBeforeReplace
  <1>. QED
    BY <1>10, <1>11, <1>12, <1>13, <1>14, <1>15, <1>16 DEF IInv

LEMMA NextInv == IInv /\ [Next]_vars => IInv'
  BY LoopKeeps, OpenKeeps, DriveKeeps, BackupOpenKeeps, BackupCopyKeeps, MetadataKeeps,
     CreateKeeps, WriteAllKeeps, ChmodKeeps, FsyncKeeps, RenameKeeps, DirSyncKeeps,
     StepFailsKeeps, KillKeeps, CommitKeeps, PowerLossKeeps, RerunKeeps, StutterKeeps
  DEF Next

(* The inductive invariant holds in every reachable state.                 *)
THEOREM InvHolds == Spec => []IInv
  BY InitInv, NextInv, PTL DEF Spec

-----------------------------------------------------------------------------
(* Every variable stays in its domain, and every name is that of an inode. *)
THEOREM TypeCorrect == Spec => []TypeOK
  <1>1. IInv => TypeOK
    BY DEF IInv, Types, Disk, NamesLead, TypeOK
  <1>. QED
    BY <1>1, InvHolds, PTL

(* No failure, kill or power loss at any step of atomic_write leaves a     *)
(* destination half-written, nor would one now.                            *)
THEOREM DestinationWholeHolds == Spec => []DestinationWhole
  <1>1. IInv => DestinationWhole
    BY InPlaceAssumption, InodeNumbers DEF IInv, Whole, Good, NamesLead, DestinationWhole, Content
  <1>. QED
    BY <1>1, InvHolds, PTL

(* A file has the permissions of the original at every moment, and would   *)
(* have them after a power loss: set_permissions comes before sync_all.    *)
THEOREM PermissionsKeptHolds == Spec => []PermissionsKept
  <1>1. IInv => PermissionsKept
    BY DEF IInv, Whole, Good, PermissionsKept
  <1>. QED
    BY <1>1, InvHolds, PTL

(* While the machine stays up, the original can be read under the name of  *)
(* the file or of its backup, at every step of run_in_place.               *)
THEOREM BackupBeforeReplaceHolds == Spec => []BackupBeforeReplace
  <1>1. IInv => BackupBeforeReplace
    BY DEF IInv
  <1>. QED
    BY <1>1, InvHolds, PTL

(* When the command has succeeded, the only replacements a power loss can  *)
(* take back, of this run or an earlier one, are those that went without   *)
(* the sync of their directory.                                            *)
THEOREM DurableWhenDoneHolds == Spec => []DurableWhenDone
  <1>1. IInv => DurableWhenDone
    BY DEF IInv, Settling, DurableWhenDone
  <1>. QED
    BY <1>1, InvHolds, PTL

-----------------------------------------------------------------------------
(* The temporary files, counted.                                           *)

(* The temporary files other than the one in work: those that earlier runs *)
(* left.  A commit may put the one in work on disk, where a power loss     *)
(* finds it, so the durable ones are counted too.                          *)
Left == IF tmp = Absent THEN temps ELSE temps \ {tmp}
TempsCounted ==
  /\ IsFiniteSet(temps) /\ IsFiniteSet(dtemps)
  /\ Cardinality(dtemps) <= runs
  /\ pc \in {"killed", "off"} => Cardinality(temps) <= runs
  /\ pc \notin {"killed", "off"} => Cardinality(Left) <= runs - 1

LEMMA FewerCounted ==
  ASSUME NEW S, NEW T, IsFiniteSet(S), T \subseteq S
  PROVE  /\ IsFiniteSet(T)
         /\ Cardinality(T) \in Nat /\ Cardinality(S) \in Nat
         /\ Cardinality(T) <= Cardinality(S)
  BY FS_Subset, FS_CardinalityType

(* There is at most one temporary file more than those left behind.        *)
LEMMA OneInWork ==
  ASSUME IsFiniteSet(temps)
  PROVE  /\ IsFiniteSet(Left) /\ Cardinality(Left) \in Nat /\ Cardinality(temps) \in Nat
         /\ Cardinality(Left) <= Cardinality(temps)
         /\ Cardinality(temps) <= Cardinality(Left) + 1
         /\ tmp = Absent => Cardinality(temps) = Cardinality(Left)
  <1>1. Cardinality(temps) \in Nat
    BY FS_CardinalityType
  <1>2. CASE tmp = Absent
    BY <1>1, <1>2 DEF Left
  <1>3. CASE tmp # Absent
    <2>1. Left = temps \ {tmp}
      BY <1>3 DEF Left
    <2>2. IsFiniteSet(Left) /\ Cardinality(Left) \in Nat /\ Cardinality(Left) <= Cardinality(temps)
      BY <2>1, FewerCounted
    <2>3. Cardinality(Left) = IF tmp \in temps THEN Cardinality(temps) - 1 ELSE Cardinality(temps)
      BY <2>1, FS_RemoveElement
    <2>. QED
      BY <1>1, <1>3, <2>2, <2>3
  <1>. QED
    BY <1>2, <1>3

LEMMA InitTemps == Init => TempsCounted
  <1>. SUFFICES ASSUME Init PROVE TempsCounted
    OBVIOUS
  <1>1. temps = {} /\ dtemps = {} /\ tmp = Absent /\ runs = 1 /\ pc = "loop"
    BY DEF Init
  <1>2. Left = {}
    BY <1>1 DEF Left
  <1>. QED
    BY <1>1, <1>2, FS_EmptySet DEF TempsCounted

(* The steps that leave the temporary files alone, inside a run.           *)
LEMMA SameTemps ==
  ASSUME TempsCounted, UNCHANGED <<temps, dtemps, tmp, runs>>,
         pc \notin {"killed", "off"}, pc' \notin {"killed", "off"}
  PROVE  TempsCounted'
  BY DEF TempsCounted, Left

LEMMA NextTemps == IInv /\ TempsCounted /\ [Next]_vars => TempsCounted'
  <1>. SUFFICES ASSUME IInv, TempsCounted, [Next]_vars PROVE TempsCounted'
    OBVIOUS
  <1>1. /\ runs \in Nat
        /\ tmp # Absent <=> pc \in {"write", "chmod", "fsync", "rename"}
        /\ Len(data) + 1 # Absent
    BY InPlaceAssumption DEF IInv, Types, Disk, NamesLead
  <1>2. /\ IsFiniteSet(temps) /\ IsFiniteSet(dtemps) /\ Cardinality(dtemps) <= runs
        /\ pc \in {"killed", "off"} => Cardinality(temps) <= runs
        /\ pc \notin {"killed", "off"} => Cardinality(Left) <= runs - 1
    BY DEF TempsCounted
  <1>3. Cardinality(temps) <= runs /\ Cardinality(temps) \in Nat /\ Cardinality(dtemps) \in Nat
    BY <1>1, <1>2, OneInWork, FS_CardinalityType
  <1>4. CASE Loop \/ Open \/ Drive \/ BackupOpen \/ BackupCopy \/ Metadata \/ WriteAll \/ Chmod \/ Fsync
    <2>1. UNCHANGED <<temps, dtemps, tmp, runs>>
      BY <1>4 DEF Loop, Open, Drive, BackupOpen, BackupCopy, Metadata, WriteAll, Chmod, Fsync,
                  process, storage, disk
    <2>2. pc \notin {"killed", "off"} /\ pc' \notin {"killed", "off"}
      BY <1>4 DEF Loop, Open, Drive, BackupOpen, BackupCopy, Metadata, WriteAll, Chmod, Fsync,
                  Goto, NextFile
    <2>. QED
      BY <2>1, <2>2, SameTemps
  <1>5. CASE Create
    <2>1. /\ pc = "create" /\ pc' = "write" /\ tmp' = Fresh /\ temps' = temps \cup {Fresh}
          /\ UNCHANGED <<dtemps, runs>>
      BY <1>5 DEF Create, Goto, process, disk
    <2>2. tmp = Absent /\ tmp' # Absent
      BY <1>1, <2>1 DEF Fresh
    <2>3. IsFiniteSet(temps')
      BY <1>2, <2>1, FS_AddElement
    <2>4. Left' \subseteq temps /\ Cardinality(temps) <= runs - 1
      BY <1>1, <1>2, <2>1, <2>2, OneInWork DEF Left
    <2>5. Cardinality(Left') <= runs - 1
      BY <1>1, <1>2, <1>3, <2>4, FewerCounted
    <2>. QED
      BY <1>2, <2>1, <2>3, <2>5 DEF TempsCounted
  <1>6. CASE Rename \/ StepFails
    <2>1. /\ temps' = temps \ {tmp} /\ tmp' = Absent /\ UNCHANGED <<dtemps, runs>>
          /\ pc \notin {"killed", "off"} /\ pc' \notin {"killed", "off"}
      BY <1>6 DEF Rename, StepFails, Running, Steps, Goto, process, disk
    <2>2. Left' = temps \ {tmp}
      BY <2>1 DEF Left
    <2>3. Left' \subseteq Left
      BY <2>2 DEF Left
    <2>4. Cardinality(Left') <= runs - 1
      BY <1>1, <1>2, <2>1, <2>3, FewerCounted, OneInWork
    <2>5. IsFiniteSet(temps')
      BY <1>2, <2>1, FewerCounted
    <2>. QED
      BY <1>2, <2>1, <2>4, <2>5 DEF TempsCounted
  <1>7. CASE DirSync
    <2>1. /\ UNCHANGED <<temps, tmp, runs>> /\ (dtemps' = temps \/ dtemps' = dtemps)
          /\ pc = "dirsync" /\ pc' = "loop"
      BY <1>7 DEF DirSync, NextFile, Goto, storage, disk
    <2>. QED
      BY <1>2, <1>3, <2>1 DEF TempsCounted, Left
  <1>8. CASE Kill
    <2>1. temps' = temps /\ tmp' = Absent /\ pc' = "killed" /\ UNCHANGED <<dtemps, runs>>
      BY <1>8 DEF Kill, Goto, process, storage, disk
    <2>. QED
      BY <1>2, <1>3, <2>1 DEF TempsCounted
  <1>9. CASE Commit
    <2>1. dtemps' = temps /\ UNCHANGED <<temps, tmp, runs, pc>>
      BY <1>9 DEF Commit, process, storage
    <2>. QED
      BY <1>2, <1>3, <2>1 DEF TempsCounted, Left
  <1>10. CASE PowerLoss
    <2>1. temps' = dtemps /\ pc' = "off" /\ UNCHANGED <<dtemps, runs>>
      BY <1>10 DEF PowerLoss, Goto, process
    <2>. QED
      BY <1>2, <2>1 DEF TempsCounted
  <1>11. CASE Rerun
    <2>1. UNCHANGED <<temps, dtemps, tmp>> /\ runs' = runs + 1 /\ pc' = "loop" /\ tmp = Absent
      BY <1>1, <1>11 DEF Rerun, Running, Steps, Goto, storage, disk
    <2>2. Left' = temps
      BY <2>1 DEF Left
    <2>. QED
      BY <1>1, <1>2, <1>3, <2>1, <2>2 DEF TempsCounted
  <1>12. CASE UNCHANGED vars
    BY <1>12 DEF vars, process, storage, disk, TempsCounted, Left
  <1>. QED
    BY <1>4, <1>5, <1>6, <1>7, <1>8, <1>9, <1>10, <1>11, <1>12 DEF Next

(* TempsRemoved: a run that ends by itself removes its temporary file, and *)
(* one that is killed or loses power leaves at most one, whatever the      *)
(* number of runs before it.                                               *)
THEOREM TempsRemovedHolds == Spec => []TempsRemoved
  <1>1. IInv /\ TempsCounted => TempsRemoved
    <2>. SUFFICES ASSUME IInv, TempsCounted PROVE TempsRemoved
      OBVIOUS
    <2>1. /\ runs \in Nat
          /\ tmp # Absent <=> pc \in {"write", "chmod", "fsync", "rename"}
      BY InPlaceAssumption DEF IInv, Types, NamesLead
    <2>2. /\ IsFiniteSet(temps)
          /\ pc \in {"killed", "off"} => Cardinality(temps) <= runs
          /\ pc \notin {"killed", "off"} => Cardinality(Left) <= runs - 1
      BY DEF TempsCounted
    <2>3. /\ Cardinality(Left) \in Nat /\ Cardinality(temps) \in Nat
          /\ Cardinality(temps) <= Cardinality(Left) + 1
          /\ tmp = Absent => Cardinality(temps) = Cardinality(Left)
      BY <2>2, OneInWork
    <2>. QED
      BY <2>1, <2>2, <2>3 DEF TempsRemoved
  <1>. QED
    BY <1>1, InitTemps, NextTemps, InvHolds, PTL DEF Spec

-----------------------------------------------------------------------------
(* Refinement of AtomicFiles.                                              *)

(* A step at which nothing changes for the files, inside a run.            *)
LEMMA Silent ==
  ASSUME Kept, UNCHANGED files, Running, Running', pc # "dirsync", pc' # "dirsync", UNCHANGED next
  PROVE  UNCHANGED Atomic!vars
  BY DEF Kept, Atomic!vars

(* What the implementation writes as functions of the path.                *)
LEMMA KeptFunctions ==
  ASSUME Kept
  PROVE  /\ [p \in Paths |-> Content(File(p))]' = [p \in Paths |-> Content(File(p))]
         /\ [p \in Paths |-> data[dnames[File(p)]]]' = [p \in Paths |-> data[dnames[File(p)]]]
  BY DEF Kept

LEMMA KeptWhenUnwritten == UNCHANGED <<names, data, dnames>> => Kept
  BY DEF Kept, Content

LEMMA InitRefines == Init => Atomic!Init
  <1>. SUFFICES ASSUME Init PROVE Atomic!Init
    OBVIOUS
  <1>1. IInv
    BY InitInv
  <1>2. \A p \in Paths : Content(File(p)) = data[names[File(p)]] /\ names[File(p)] \in Inodes
    BY <1>1, InPlaceAssumption, InodeNumbers DEF IInv, NamesLead, Content
  <1>3. \A p \in Paths : Content(File(p)) = 0 /\ data[dnames[File(p)]] = 0
    BY <1>2 DEF Init, Inodes
  <1>4. /\ [p \in Paths |-> Content(File(p))] = [p \in Paths |-> 0]
        /\ [p \in Paths |-> data[dnames[File(p)]]] = [p \in Paths |-> Content(File(p))]
    BY <1>3
  <1>5. files \in Commands /\ pc = "loop" /\ next = 1
    BY DEF Init
  <1>. QED
    BY <1>4, <1>5 DEF Atomic!Init, Running, Steps

LEMMA NextRefines == IInv /\ IInv' /\ [Next]_vars => [Atomic!Next]_(Atomic!vars)
  <1>. SUFFICES ASSUME IInv, IInv', [Next]_vars PROVE Atomic!Next \/ UNCHANGED Atomic!vars
    OBVIOUS
  <1>a. Types /\ Disk /\ NamesLead /\ Separate /\ Whole /\ TmpReady
    BY DEF IInv
  <1>1. CASE Loop
    <2>1. Kept
      BY <1>1, KeptWhenUnwritten DEF Loop, storage, disk
    <2>2. CASE next <= Len(files)
      BY <1>1, <2>1, <2>2, Silent DEF Loop, process, Goto, Running, Steps
    <2>3. CASE ~ (next <= Len(files))
      <3>1. Atomic!Stop
        BY <1>1, <1>a, <2>1, <2>3, KeptFunctions
        DEF Loop, process, Goto, Running, Steps, Atomic!Stop, Types
      <3>. QED
        BY <3>1 DEF Atomic!Next
    <2>. QED
      BY <2>2, <2>3
  <1>2. CASE Open
    BY <1>2, KeptWhenUnwritten, Silent DEF Open, storage, disk, process, Goto, Running, Steps
  <1>3. CASE Drive
    <2>1. Kept
      BY <1>3, KeptWhenUnwritten DEF Drive, storage, disk
    <2>2. next <= Len(files)
      BY <1>3, <1>a DEF Drive, TmpReady, Steps
    <2>3. CASE NextFile
      <3>1. Atomic!Leave
        BY <1>3, <2>1, <2>2, <2>3, KeptFunctions
        DEF Drive, NextFile, Goto, Running, Steps, Atomic!Leave
      <3>. QED
        BY <3>1 DEF Atomic!Next
    <2>4. CASE Goto(IF backup THEN "backup" ELSE "metadata") /\ UNCHANGED next
      BY <1>3, <2>1, <2>4, Silent DEF Drive, Goto, Running, Steps
    <2>5. CASE Goto("failed") /\ UNCHANGED next
      <3>1. Atomic!Stop
        BY <1>3, <2>1, <2>5, KeptFunctions DEF Drive, Goto, Running, Steps, Atomic!Stop
      <3>. QED
        BY <3>1 DEF Atomic!Next
    <2>. QED
      BY <1>3, <2>3, <2>4, <2>5 DEF Drive
  <1>4. CASE BackupOpen
    BY <1>4, BackupOpenKeeps, Silent DEF BackupOpen, process, Goto, Running, Steps
  <1>5. CASE BackupCopy
    BY <1>5, BackupCopyKeeps, Silent DEF BackupCopy, process, Goto, Running, Steps
  <1>6. CASE Metadata
    BY <1>6, KeptWhenUnwritten, Silent DEF Metadata, storage, disk, process, Goto, Running, Steps
  <1>7. CASE Create
    BY <1>7, CreateKeeps, Silent DEF Create, process, Goto, Running, Steps
  <1>8. CASE WriteAll
    BY <1>8, WriteAllKeeps, Silent DEF WriteAll, process, Goto, Running, Steps
  <1>9. CASE Chmod
    BY <1>9, ChmodKeeps, Silent DEF Chmod, process, Goto, Running, Steps
  <1>10. CASE Fsync
    BY <1>10, FsyncKeeps, Silent DEF Fsync, process, Goto, Running, Steps
  <1>11. CASE Rename
    <2>1. /\ next <= Len(files) /\ Path \in Paths /\ data[tmp] = src + 1
          /\ src = data[names[File(Path)]] /\ names[File(Path)] # Absent
          /\ tmp # Absent
      BY <1>11, <1>a, PathInPaths, InodeNumbers, InPlaceAssumption
      DEF Rename, TmpReady, Working, Steps, NamesLead
    <2>2. \A p \in Paths : names'[File(p)] = IF p = Path THEN tmp ELSE names[File(p)]
      BY <1>11, <1>a, <2>1, Keys DEF Rename, Types
    <2>3. \A p \in Paths :
            Content(File(p))' = IF p = Path THEN Content(File(p)) + 1 ELSE Content(File(p))
      BY <1>11, <2>1, <2>2 DEF Rename, Content
    <2>4. [p \in Paths |-> Content(File(p))]'
            = [[p \in Paths |-> Content(File(p))] EXCEPT ![Path] = @ + 1]
      BY <2>1, <2>3
    <2>5. [p \in Paths |-> data[dnames[File(p)]]]' = [p \in Paths |-> data[dnames[File(p)]]]
      BY <1>11 DEF Rename, disk
    <2>6. Atomic!Replace
      BY <1>11, <2>1, <2>4, <2>5
      DEF Rename, process, Goto, Running, Steps, Path, Atomic!Replace
    <2>. QED
      BY <2>6 DEF Atomic!Next
  <1>12. CASE DirSync
    <2>1. /\ files' = files /\ Running /\ Running' /\ pc = "dirsync" /\ pc' = "loop" /\ next' = next + 1
          /\ names' = names /\ data' = data
      BY <1>12 DEF DirSync, NextFile, Goto, storage, disk, Running, Steps
    <2>2. [p \in Paths |-> Content(File(p))]' = [p \in Paths |-> Content(File(p))]
      BY <2>1 DEF Content
    <2>3. CASE dnames' = names
      <3>1. [p \in Paths |-> data[dnames[File(p)]]]' = [p \in Paths |-> Content(File(p))]
        BY <1>a, <2>1, <2>3, InPlaceAssumption, InodeNumbers DEF Content, NamesLead
      <3>2. Atomic!Settle
        BY <2>1, <2>2, <3>1 DEF Atomic!Settle
      <3>. QED
        BY <3>2 DEF Atomic!Next
    <2>4. CASE dnames' = dnames
      BY <2>1, <2>2, <2>4 DEF Atomic!vars
    <2>. QED
      BY <1>12, <2>3, <2>4 DEF DirSync, disk
  <1>13. CASE StepFails
    <2>1. Kept
      BY <1>13, KeptWhenUnwritten DEF StepFails, disk
    <2>2. Atomic!Stop
      BY <1>13, <2>1, KeptFunctions DEF StepFails, process, Goto, Running, Steps, Atomic!Stop
    <2>. QED
      BY <2>2 DEF Atomic!Next
  <1>14. CASE Kill
    <2>1. Kept
      BY <1>14, KeptWhenUnwritten DEF Kill, storage, disk
    <2>2. Atomic!Stop
      BY <1>14, <2>1, KeptFunctions DEF Kill, process, Goto, Running, Steps, Atomic!Stop
    <2>. QED
      BY <2>2 DEF Atomic!Next
  <1>15. CASE Commit
    <2>1. names' = names /\ data' = data /\ dnames' = names /\ UNCHANGED <<process, pc>>
      BY <1>15 DEF Commit, storage, disk
    <2>2. [p \in Paths |-> Content(File(p))]' = [p \in Paths |-> Content(File(p))]
      BY <2>1 DEF Content
    <2>3. [p \in Paths |-> data[dnames[File(p)]]]' = [p \in Paths |-> Content(File(p))]
      BY <1>a, <2>1, InPlaceAssumption, InodeNumbers DEF Content, NamesLead
    <2>4. Atomic!Settle
      BY <2>1, <2>2, <2>3 DEF Atomic!Settle, process, Running
    <2>. QED
      BY <2>4 DEF Atomic!Next
  <1>16. CASE PowerLoss
    <2>1. PICK old, torn \in SUBSET {i \in Inodes : data[i] # ddata[i]} :
            data' = [i \in Inodes |-> IF i \in torn THEN Torn
                                      ELSE IF i \in old THEN ddata[i] ELSE data[i]]
      BY <1>16 DEF PowerLoss
    <2>2. \A p \in Paths : data'[dnames[File(p)]] = data[dnames[File(p)]] /\ dnames[File(p)] # Absent
      BY <1>a, <2>1, InPlaceAssumption, InodeNumbers DEF NamesLead, Whole, Good
    <2>3. names' = dnames /\ dnames' = dnames /\ files' = files /\ pc' = "off"
      BY <1>16 DEF PowerLoss, process, Goto
    <2>4. [p \in Paths |-> Content(File(p))]' = [p \in Paths |-> data[dnames[File(p)]]]
      BY <2>2, <2>3 DEF Content
    <2>5. [p \in Paths |-> data[dnames[File(p)]]]' = [p \in Paths |-> data[dnames[File(p)]]]
      BY <2>2, <2>3
    <2>6. Atomic!PowerLoss
      BY <2>3, <2>4, <2>5 DEF Atomic!PowerLoss, Running, Steps
    <2>. QED
      BY <2>6 DEF Atomic!Next
  <1>17. CASE Rerun
    <2>1. Kept
      BY <1>17, KeptWhenUnwritten DEF Rerun, storage, disk
    <2>2. Atomic!Rerun
      BY <1>17, <1>a, <2>1, KeptFunctions DEF Rerun, Goto, Running, Steps, Types, Atomic!Rerun
    <2>. QED
      BY <2>2 DEF Atomic!Next
  <1>18. CASE UNCHANGED vars
    BY <1>18, KeptWhenUnwritten, KeptFunctions DEF vars, process, storage, disk, Atomic!vars, Running
  <1>. QED
    BY <1>1, <1>2, <1>3, <1>4, <1>5, <1>6, <1>7, <1>8, <1>9, <1>10, <1>11, <1>12, <1>13,
       <1>14, <1>15, <1>16, <1>17, <1>18 DEF Next

(* run_in_place and atomic_write implement the atomic replacement of the   *)
(* files, one after another: every system call is a step of AtomicFiles or *)
(* changes nothing that a reader can see, now or after a power loss.       *)
THEOREM ImplementsAtomicFiles == Spec => AtomicSpec
  BY InitRefines, NextRefines, InvHolds, PTL DEF Spec, AtomicSpec, Atomic!Spec
=============================================================================
