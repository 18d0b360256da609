---------------------------- MODULE InputProofs -----------------------------
(***************************************************************************)
(* Proofs about where a run's input comes from: Watch, the file that is    *)
(* read again whenever it changes, for any number of changes and attempts  *)
(* to reopen it, and MmapSource, the opening of one input, for any limit,  *)
(* any size of a read and inputs of any length.                            *)
(***************************************************************************)
EXTENDS Watch, MmapSource, TLAPS

-----------------------------------------------------------------------------
(* Watching a file.                                                        *)

(* What the registration has to do with the step the watcher is at.        *)
Registration ==
  /\ pc \in {"open", "register", "reregister"} => knote = Absent
  /\ pc \in {"register", "reregister"} => fd # Absent
  /\ pc \in {"wait", "changed", "deleted"} => knote # Absent
  /\ knote = Absent => flags = {}

(* An inode that lost its name never gets one again: a new file has a new  *)
(* inode.                                                                  *)
Inodes ==
  /\ inode # Absent => inode <= changes
  /\ fd # Absent => fd <= changes
  /\ "delete" \in flags => knote # inode
  /\ pc \in {"deleted", "retry"} /\ inode # Absent => knote # inode

(* What is known at each step as long as every change was reported.        *)
UpToDate ==
  ~ unseen =>
    /\ pc = "open" => shown = content
    /\ pc \in {"register", "reregister"} => fd = inode /\ shown = content
    /\ pc = "wait" =>
         \/ "delete" \in flags
         \/ knote = inode /\ (shown = content \/ "write" \in flags)
    /\ pc = "changed" => knote = inode \/ "delete" \in flags
    /\ pc = "retry" /\ inode # Absent => shown = content

WatchInv == TypeOK /\ Registration /\ Inodes /\ UpToDate

-----------------------------------------------------------------------------
(* The parts of the type invariant, to be proved one by one.               *)
FileOK ==
  /\ inode \in 0..MaxChanges \cup {Absent}
  /\ content \in 0..MaxChanges /\ changes \in 0..MaxChanges /\ shown \in 0..MaxChanges
WatchOK ==
  /\ fd \in 0..MaxChanges \cup {Absent} /\ knote \in {fd, Absent}
  /\ flags \subseteq {"write", "delete"}
  /\ tries \in 0..Retries
ControlOK ==
  /\ sig \in BOOLEAN /\ unseen \in BOOLEAN
  /\ pc \in {"open", "register", "wait", "deleted", "changed", "retry", "reregister",
             "stopped", "failed"}

(* Together they are the type invariant.                                   *)
LEMMA TypeParts == TypeOK <=> FileOK /\ WatchOK /\ ControlOK
  BY DEF TypeOK, FileOK, WatchOK, ControlOK

(* A step of the watcher that does not touch the file leaves it as it is.  *)
LEMMA FileStays == FileOK /\ UNCHANGED <<inode, content, changes, shown>> => FileOK'
  BY DEF FileOK

(* Before the first open nothing is registered and nothing is pending.     *)
LEMMA WatchInit == Init => WatchInv
  <1>. SUFFICES ASSUME Init PROVE WatchInv
    OBVIOUS
  <1>. USE WatchAssumption DEF WatchAssumption, Init
  <1>1. FileOK
    BY DEF FileOK
  <1>2. WatchOK
    BY DEF WatchOK
  <1>3. ControlOK
    BY DEF ControlOK
  <1>4. Registration /\ Inodes
    BY DEF Registration, Inodes
  <1>5. UpToDate
    BY DEF UpToDate
  <1>. QED
    BY <1>1, <1>2, <1>3, <1>4, <1>5, TypeParts DEF WatchInv

(* Every step of the watcher, and every change of the file, keeps it.      *)
LEMMA WatchStep == WatchInv /\ [Next]_vars => WatchInv'
  <1>. SUFFICES ASSUME WatchInv, [Next]_vars
                PROVE  FileOK' /\ WatchOK' /\ ControlOK' /\ Registration' /\ Inodes' /\ UpToDate'
    BY TypeParts, PTL DEF WatchInv
  <1>a. FileOK /\ WatchOK /\ ControlOK /\ Registration /\ Inodes /\ UpToDate
    BY TypeParts DEF WatchInv
  <1>. USE WatchAssumption, <1>a DEF WatchAssumption, file, watch
  <1>1. CASE FirstOpen
    <2>. USE <1>1 DEF FirstOpen
    <2>1. FileOK'
      BY DEF FileOK
    <2>2. WatchOK'
      <3>1. CASE inode = Absent
        BY <3>1 DEF FileOK, WatchOK
      <3>2. CASE inode # Absent
        BY <3>2 DEF FileOK, WatchOK, Registration
      <3>. QED
        BY <3>1, <3>2
    <2>3. ControlOK'
      BY DEF ControlOK
    <2>4. Registration'
      BY DEF Registration, WatchOK, FileOK
    <2>5. Inodes'
      BY DEF Inodes, Registration, WatchOK, FileOK
    <2>6. UpToDate'
      BY DEF UpToDate, Registration, Inodes, WatchOK, FileOK
    <2>. QED
      BY <2>1, <2>2, <2>3, <2>4, <2>5, <2>6
  <1>2. CASE FirstRegister
    <2>. USE <1>2 DEF FirstRegister
    <2>1. FileOK'
      BY DEF FileOK
    <2>2. WatchOK'
      BY DEF FileOK, WatchOK
    <2>3. ControlOK'
      BY DEF ControlOK
    <2>4. Registration'
      BY DEF Registration, WatchOK, FileOK
    <2>5. Inodes'
      BY DEF Inodes, Registration, WatchOK, FileOK
    <2>6. UpToDate'
      BY DEF UpToDate, Registration, Inodes, WatchOK, FileOK
    <2>. QED
      BY <2>1, <2>2, <2>3, <2>4, <2>5, <2>6
  <1>3. CASE TakeSignal
    <2>. USE <1>3 DEF TakeSignal
    <2>1. FileOK'
      BY DEF FileOK
    <2>2. WatchOK'
      BY DEF FileOK, WatchOK
    <2>3. ControlOK'
      BY DEF ControlOK
    <2>4. Registration'
      BY DEF Registration, WatchOK, FileOK
    <2>5. Inodes'
      BY DEF Inodes, Registration, WatchOK, FileOK
    <2>6. UpToDate'
      BY DEF UpToDate, Registration, Inodes, WatchOK, FileOK
    <2>. QED
      BY <2>1, <2>2, <2>3, <2>4, <2>5, <2>6
  <1>4. CASE TakeVnode
    <2>. USE <1>4 DEF TakeVnode
    <2>1. FileOK'
      BY DEF FileOK
    <2>2. WatchOK'
      BY DEF FileOK, WatchOK
    <2>3. ControlOK'
      BY DEF ControlOK
    <2>4. Registration'
      BY DEF Registration, WatchOK, FileOK
    <2>5. Inodes'
      BY DEF Inodes, Registration, WatchOK, FileOK
    <2>6. UpToDate'
      BY DEF UpToDate, Registration, Inodes, WatchOK, FileOK
    <2>. QED
      BY <2>1, <2>2, <2>3, <2>4, <2>5, <2>6
  <1>5. CASE RunPipeline
    <2>. USE <1>5 DEF RunPipeline
    <2>1. FileOK'
      BY DEF FileOK
    <2>2. WatchOK'
      BY DEF FileOK, WatchOK
    <2>3. ControlOK'
      BY DEF ControlOK
    <2>4. Registration'
      BY DEF Registration, WatchOK, FileOK
    <2>5. Inodes'
      BY DEF Inodes, Registration, WatchOK, FileOK
    <2>6. UpToDate'
      BY DEF UpToDate, Registration, Inodes, WatchOK, FileOK
    <2>. QED
      BY <2>1, <2>2, <2>3, <2>4, <2>5, <2>6
  <1>6. CASE Reopen
    <2>. USE <1>6 DEF Reopen
    <2>1. FileOK'
      <3>1. UNCHANGED <<inode, content, changes, shown>>
        OBVIOUS
      <3>. QED
        BY <3>1, FileStays
    <2>2. WatchOK'
      <3>1. tries' \in 0..Retries
        BY DEF WatchOK
      <3>2. CASE inode = Absent
        <4>1. UNCHANGED <<fd, knote, flags>>
          BY <3>2
        <4>. QED
          BY <3>1, <4>1 DEF WatchOK
      <3>3. CASE inode # Absent
        BY <3>1, <3>3 DEF FileOK, WatchOK
      <3>. QED
        BY <3>2, <3>3
    <2>3. ControlOK'
      BY DEF ControlOK
    <2>4. Registration'
      BY DEF Registration, WatchOK, FileOK
    <2>5. Inodes'
      BY DEF Inodes, Registration, WatchOK, FileOK
    <2>6. UpToDate'
      BY DEF UpToDate, Registration, Inodes, WatchOK, FileOK
    <2>. QED
      BY <2>1, <2>2, <2>3, <2>4, <2>5, <2>6
  <1>7. CASE Reregister
    <2>. USE <1>7 DEF Reregister
    <2>1. FileOK'
      BY DEF FileOK
    <2>2. WatchOK'
      BY DEF FileOK, WatchOK
    <2>3. ControlOK'
      BY DEF ControlOK
    <2>4. Registration'
      BY DEF Registration, WatchOK, FileOK
    <2>5. Inodes'
      BY DEF Inodes, Registration, WatchOK, FileOK
    <2>6. UpToDate'
      BY DEF UpToDate, Registration, Inodes, WatchOK, FileOK
    <2>. QED
      BY <2>1, <2>2, <2>3, <2>4, <2>5, <2>6
  <1>8. CASE GiveUp
    <2>. USE <1>8 DEF GiveUp
    <2>1. FileOK'
      BY DEF FileOK
    <2>2. WatchOK'
      BY DEF FileOK, WatchOK
    <2>3. ControlOK'
      BY DEF ControlOK
    <2>4. Registration'
      BY DEF Registration, WatchOK, FileOK
    <2>5. Inodes'
      BY DEF Inodes, Registration, WatchOK, FileOK
    <2>6. UpToDate'
      BY DEF UpToDate, Registration, Inodes, WatchOK, FileOK
    <2>. QED
      BY <2>1, <2>2, <2>3, <2>4, <2>5, <2>6
  <1>9. CASE WriteFile
    <2>. USE <1>9 DEF WriteFile, Change, Seen
    <2>1. FileOK'
      BY DEF FileOK
    <2>2. WatchOK'
      BY DEF FileOK, WatchOK
    <2>3. ControlOK'
      BY DEF ControlOK
    <2>4. Registration'
      BY DEF Registration, WatchOK, FileOK
    <2>5. Inodes'
      BY DEF Inodes, Registration, WatchOK, FileOK
    <2>6. UpToDate'
      BY DEF UpToDate, Registration, Inodes, WatchOK, FileOK
    <2>. QED
      BY <2>1, <2>2, <2>3, <2>4, <2>5, <2>6
  <1>10. CASE ReplaceFile
    <2>. USE <1>10 DEF ReplaceFile, Change, Seen
    <2>1. FileOK'
      BY DEF FileOK
    <2>2. WatchOK'
      BY DEF FileOK, WatchOK
    <2>3. ControlOK'
      BY DEF ControlOK
    <2>4. Registration'
      BY DEF Registration, WatchOK, FileOK
    <2>5. Inodes'
      BY DEF Inodes, Registration, WatchOK, FileOK
    <2>6. UpToDate'
      BY DEF UpToDate, Registration, Inodes, WatchOK, FileOK
    <2>. QED
      BY <2>1, <2>2, <2>3, <2>4, <2>5, <2>6
  <1>11. CASE RemoveFile
    <2>. USE <1>11 DEF RemoveFile, Change, Seen
    <2>1. FileOK'
      BY DEF FileOK
    <2>2. WatchOK'
      BY DEF FileOK, WatchOK
    <2>3. ControlOK'
      BY DEF ControlOK
    <2>4. Registration'
      BY DEF Registration, WatchOK, FileOK
    <2>5. Inodes'
      BY DEF Inodes, Registration, WatchOK, FileOK
    <2>6. UpToDate'
      BY DEF UpToDate, Registration, Inodes, WatchOK, FileOK
    <2>. QED
      BY <2>1, <2>2, <2>3, <2>4, <2>5, <2>6
  <1>12. CASE CreateFile
    <2>. USE <1>12 DEF CreateFile, Change
    <2>1. FileOK'
      BY DEF FileOK
    <2>2. WatchOK'
      BY DEF FileOK, WatchOK
    <2>3. ControlOK'
      BY DEF ControlOK
    <2>4. Registration'
      BY DEF Registration, WatchOK, FileOK
    <2>5. Inodes'
      BY DEF Inodes, Registration, WatchOK, FileOK
    <2>6. UpToDate'
      BY DEF UpToDate, Registration, Inodes, WatchOK, FileOK
    <2>. QED
      BY <2>1, <2>2, <2>3, <2>4, <2>5, <2>6
  <1>13. CASE MoveAway
    <2>. USE <1>13 DEF MoveAway, Change
    <2>1. FileOK'
      BY DEF FileOK
    <2>2. WatchOK'
      BY DEF FileOK, WatchOK
    <2>3. ControlOK'
      BY DEF ControlOK
    <2>4. Registration'
      BY DEF Registration, WatchOK, FileOK
    <2>5. Inodes'
      BY DEF Inodes, Registration, WatchOK, FileOK
    <2>6. UpToDate'
      BY DEF UpToDate, Registration, Inodes, WatchOK, FileOK
    <2>. QED
      BY <2>1, <2>2, <2>3, <2>4, <2>5, <2>6
  <1>14. CASE Interrupt
    <2>. USE <1>14 DEF Interrupt
    <2>1. FileOK'
      BY DEF FileOK
    <2>2. WatchOK'
      BY DEF FileOK, WatchOK
    <2>3. ControlOK'
      BY DEF ControlOK
    <2>4. Registration'
      BY DEF Registration, WatchOK, FileOK
    <2>5. Inodes'
      BY DEF Inodes, Registration, WatchOK, FileOK
    <2>6. UpToDate'
      BY DEF UpToDate, Registration, Inodes, WatchOK, FileOK
    <2>. QED
      BY <2>1, <2>2, <2>3, <2>4, <2>5, <2>6
  <1>15. CASE UNCHANGED vars
    <2>. USE <1>15 DEF vars
    <2>1. FileOK'
      BY DEF FileOK
    <2>2. WatchOK'
      BY DEF FileOK, WatchOK
    <2>3. ControlOK'
      BY DEF ControlOK
    <2>4. Registration'
      BY DEF Registration, WatchOK, FileOK
    <2>5. Inodes'
      BY DEF Inodes, Registration, WatchOK, FileOK
    <2>6. UpToDate'
      BY DEF UpToDate, Registration, Inodes, WatchOK, FileOK
    <2>. QED
      BY <2>1, <2>2, <2>3, <2>4, <2>5, <2>6
  <1>. QED
    BY <1>1, <1>2, <1>3, <1>4, <1>5, <1>6, <1>7, <1>8, <1>9, <1>10, <1>11, <1>12, <1>13, <1>14,
       <1>15 DEF Next, Watcher

(* The inductive invariant of the watcher (run_watch_loop).                *)
THEOREM WatchInvHolds == Spec => []WatchInv
  BY WatchInit, WatchStep, PTL DEF Spec

-----------------------------------------------------------------------------
(* Every variable of the watcher and of the file stays in its domain.      *)
THEOREM WatchTypeCorrect == Spec => []TypeOK
  <1>1. WatchInv => TypeOK
    BY DEF WatchInv
  <1>. QED
    BY <1>1, WatchInvHolds, PTL

(* No reported change of the file is lost (run_watch_loop): when the       *)
(* watcher waits with nothing pending, and the last change raised an       *)
(* event, the pipeline has run on the present content.                     *)
THEOREM SeenIsShownHolds == Spec => []SeenIsShown
  <1>1. WatchInv => SeenIsShown
    BY DEF WatchInv, UpToDate, SeenIsShown, Waiting
  <1>. QED
    BY <1>1, WatchInvHolds, PTL

(* The watcher never waits without a registration, however registrations   *)
(* fail (register_vnode in the retry loop of run_watch_loop).              *)
THEOREM NeverDeafHolds == Spec => []NeverDeaf
  <1>1. WatchInv => NeverDeaf
    BY DEF WatchInv, Registration, NeverDeaf
  <1>. QED
    BY <1>1, WatchInvHolds, PTL

-----------------------------------------------------------------------------
(* Opening an input.                                                       *)

(* Where the bytes from standard input are: in the buffer until there is a *)
(* spill file, and in that from then on.                                   *)
Collected == IF spill = <<>> THEN buffer = sent ELSE spill[1] = sent

(* What the steps between the end of the input and the mapping rely on.    *)
Mapping ==
  /\ state \in {"start", "read"} => ~ named
  /\ state # "start" \/ (sent = <<>> /\ buffer = <<>> /\ spill = <<>>)
  /\ ~ named => ~ shrunk
  /\ ~ named /\ state \in {"stat", "map"} => source = sent
  /\ state = "stat" => ~ shrunk
  /\ state = "map" /\ ~ shrunk => len <= Len(source)
  /\ state = "map" /\ ~ named => len = Len(source)
  /\ state = "ready" /\ named => (shrunk \/ (len <= Len(mmap) /\ SubSeq(mmap, 1, len) = SubSeq(source, 1, len)))
  /\ state = "ready" /\ ~ named => len <= Len(mmap) /\ SubSeq(mmap, 1, len) = sent

SourceInv == SourceTypeOK /\ Collected /\ Mapping

(* Type correctness of every step.                                         *)
LEMMA SourceTypePreserved ==
  ASSUME SourceTypeOK, Mapping, [SourceNext]_sourceVars
  PROVE  SourceTypeOK'
<1> USE MmapSourceAssumption
<1>1. CASE FromStdin
  BY <1>1 DEF FromStdin, SourceTypeOK
<1>2. ASSUME NEW chunk \in Chunks, Collect(chunk) \/ Spill(chunk)
      PROVE  SourceTypeOK'
  <2>1. chunk \in Seq(Byte)
    BY DEF Chunks, Text
  <2>2. CASE Collect(chunk)
    BY <2>1, <2>2 DEF Collect, Fits, SourceTypeOK
  <2>3. CASE Spill(chunk)
    <3>1. (IF spill = <<>> THEN buffer ELSE spill[1]) \in Seq(Byte)
      BY DEF SourceTypeOK
    <3>2. spill' \in Seq(Seq(Byte)) /\ Len(spill') <= 1
      BY <2>1, <2>3, <3>1 DEF Spill
    <3> QED
      BY <2>1, <2>3, <3>2 DEF Spill, SourceTypeOK
  <2> QED
    BY <1>2, <2>2, <2>3
<1>3. CASE EndOfStdin
  BY <1>3 DEF EndOfStdin, SourceTypeOK
<1>4. CASE Fail
  BY <1>4 DEF Fail, SourceTypeOK
<1>5. ASSUME NEW bytes \in Text(MaxInput), Open(bytes) \/ Rewrite(bytes)
      PROVE  SourceTypeOK'
  <2>1. bytes \in Seq(Byte)
    BY DEF Text
  <2> QED
    BY <1>5, <2>1 DEF Open, Rewrite, SourceTypeOK, Mapping
<1>6. CASE Stat
  BY <1>6 DEF Stat, SourceTypeOK
<1>7. CASE Map
  BY <1>7 DEF Map, SourceTypeOK
<1>8. CASE UNCHANGED sourceVars
  BY <1>8 DEF sourceVars, SourceTypeOK
<1> QED
  BY <1>1, <1>2, <1>3, <1>4, <1>5, <1>6, <1>7, <1>8 DEF SourceNext

(* No byte is lost or moved when the buffer is spilled: the file starts    *)
(* with what was collected.                                                *)
LEMMA CollectedPreserved ==
  ASSUME SourceInv, [SourceNext]_sourceVars
  PROVE  Collected'
<1> USE DEF SourceInv, Collected
<1>1. ASSUME NEW chunk \in Chunks, Collect(chunk) \/ Spill(chunk)
      PROVE  Collected'
  <2>1. CASE Collect(chunk)
    BY <2>1 DEF Collect, Fits
  <2>2. CASE Spill(chunk)
    <3>1. spill' # <<>> /\ spill'[1] = (IF spill = <<>> THEN buffer ELSE spill[1]) \o chunk
      BY <2>2 DEF Spill
    <3> QED
      BY <2>2, <3>1 DEF Spill
  <2> QED
    BY <1>1, <2>1, <2>2
<1>2. CASE UNCHANGED <<sent, buffer, spill>>
  BY <1>2
<1>3. ASSUME NEW bytes, Open(bytes) \/ Rewrite(bytes)
      PROVE  UNCHANGED <<sent, buffer, spill>>
  BY <1>3 DEF Open, Rewrite
<1> QED
  BY <1>1, <1>2, <1>3 DEF SourceNext, FromStdin, EndOfStdin, Fail, Stat,
                          Map, sourceVars

(* Between the length and the mapping only a named file changes.           *)
LEMMA MappingPreserved ==
  ASSUME SourceInv, [SourceNext]_sourceVars
  PROVE  Mapping'
<1> USE DEF SourceInv, Mapping, SourceTypeOK
<1>1. CASE FromStdin
  BY <1>1 DEF FromStdin
<1>2. ASSUME NEW chunk \in Chunks, Collect(chunk) \/ Spill(chunk)
      PROVE  Mapping'
  BY <1>2 DEF Collect, Spill
<1>3. CASE EndOfStdin
  BY <1>3 DEF EndOfStdin, Collected
<1>4. CASE Fail
  BY <1>4 DEF Fail
<1>5. ASSUME NEW bytes \in Text(MaxInput), Open(bytes) \/ Rewrite(bytes)
      PROVE  Mapping'
  <2>1. bytes \in Seq(Byte)
    BY DEF Text
  <2>2. CASE Open(bytes)
    BY <2>2 DEF Open
  <2>3. CASE Rewrite(bytes)
    <3>1. ~ shrunk' => state # "map" \/ ~ (Len(bytes) < len)
      BY <2>3, Zenon DEF Rewrite
    <3>2. state = "map" /\ ~ shrunk' => len <= Len(bytes)
      BY <2>1, <3>1
    <3>3. state = "stat" => ~ shrunk'
      BY <2>3 DEF Rewrite
    <3> QED
      BY <2>3, <3>2, <3>3 DEF Rewrite
  <2> QED
    BY <1>5, <2>2, <2>3
<1>6. CASE Stat
  <2>1. SubSeq(mmap, 1, 0) = <<>> /\ SubSeq(source, 1, 0) = <<>>
    OBVIOUS
  <2>2. CASE source = <<>>
    <3>1. state' = "ready" /\ len' = 0 /\ UNCHANGED <<sent, buffer, spill, source, named, shrunk, mmap>>
      BY <1>6, <2>2 DEF Stat
    <3>2. ~ named => sent = <<>>
      BY <1>6, <2>2 DEF Stat
    <3> QED
      BY <2>1, <2>2, <3>1, <3>2
  <2>3. CASE source # <<>>
    BY <1>6, <2>3 DEF Stat
  <2> QED
    BY <2>2, <2>3
<1>7. CASE Map
  BY <1>7 DEF Map
<1>8. CASE UNCHANGED sourceVars
  BY <1>8 DEF sourceVars
<1> QED
  BY <1>1, <1>2, <1>3, <1>4, <1>5, <1>6, <1>7, <1>8 DEF SourceNext

(* The inductive invariant of opening an input.                            *)
LEMMA SourceInductive == SourceSpec => []SourceInv
<1>1. SourceInit => SourceInv
  <2>1. <<>> \in Seq(Byte) /\ <<>> \in Seq(Seq(Byte)) /\ Len(<<>>) = 0
    OBVIOUS
  <2>2. SourceInit => SourceTypeOK
    <3>1. SourceInit => named \in BOOLEAN /\ shrunk \in BOOLEAN
      BY Zenon DEF SourceInit
    <3> QED
      BY <2>1, <3>1, MmapSourceAssumption DEF SourceInit, SourceTypeOK
  <2>3. SourceInit => Collected /\ Mapping
    BY DEF SourceInit, Collected, Mapping
  <2> QED
    BY <2>2, <2>3 DEF SourceInv
<1>2. SourceInv /\ [SourceNext]_sourceVars => SourceInv'
  BY SourceTypePreserved, CollectedPreserved, MappingPreserved DEF SourceInv
<1> QED
  BY <1>1, <1>2, PTL DEF SourceSpec

(* TypeOK of MmapSource, for any limit: the buffer of from_stdin is never  *)
(* overrun.                                                                *)
THEOREM SourceTypeCorrect == SourceSpec => []SourceTypeOK
<1>1. SourceInv => SourceTypeOK
  BY DEF SourceInv
<1> QED
  BY <1>1, SourceInductive, PTL

(* SliceIsInput (from_stdin, from_file, as_slice): for any limit, read     *)
(* sizes and inputs, all of standard input arrives once and in order, and  *)
(* a file that does not shrink is read as it is.                           *)
THEOREM SliceIsInputHolds == SourceSpec => []SliceIsInput
<1>1. SourceInv => SliceIsInput
  <2> SUFFICES ASSUME SourceInv, state = "ready"
               PROVE  SliceIsInput
    BY DEF SliceIsInput
  <2>1. ~ shrunk => ~ SlicePanics
    BY DEF SourceInv, Mapping, SourceTypeOK, SlicePanics
  <2>2. ~ named => as_slice = sent
    BY DEF SourceInv, Mapping, SourceTypeOK, as_slice
  <2>3. named /\ ~ shrunk => as_slice = SubSeq(source, 1, len)
    BY DEF SourceInv, Mapping, SourceTypeOK, as_slice
  <2> QED
    BY <2>1, <2>2, <2>3 DEF SliceIsInput
<1> QED
  BY <1>1, SourceInductive, PTL
=============================================================================
