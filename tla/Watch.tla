------------------------------- MODULE Watch --------------------------------
(***************************************************************************)
(* Watch mode: run_watch_loop of src/platform/macos.rs with the callback   *)
(* of watch_file in src/main.rs, against a file that others change.        *)
(*                                                                         *)
(* A kqueue registration (knote) watches an inode, not a name.  Between    *)
(* two reads of the event its flags add up (EV_CLEAR).  The file is known  *)
(* by its inode and the number of the change that made its content.        *)
(***************************************************************************)
EXTENDS Naturals

CONSTANTS
  Retries,     (* Attempts to open a deleted file again: 20 in the code.   *)
  MaxChanges,  (* Bound on the changes made to the file.                   *)
  Absent       (* No inode.                                                *)

ASSUME WatchAssumption ==
  Retries \in Nat \ {0} /\ MaxChanges \in Nat /\ Absent \notin Nat

VARIABLES
  inode,    (* The inode the path names, or Absent.                        *)
  content,  (* Number of the last change to what the path names.           *)
  changes,  (* Number of changes so far.                                   *)
  fd,       (* current_file, or Absent before the first open.              *)
  knote,    (* The inode registered with the kqueue, or Absent.            *)
  flags,    (* Its pending events.                                         *)
  sig,      (* Whether SIGINT is pending on the kqueue.                    *)
  tries,    (* Attempts made to open the file again.                       *)
  shown,    (* The content the pipeline last ran on.                       *)
  unseen,   (* History: no event will report the last change, or the run    *)
            (* after it could not open the file.                           *)
  pc

file  == <<inode, content, changes>>
watch == <<fd, knote, flags, sig, tries, shown>>
vars  == <<file, watch, unseen, pc>>

Init ==
  /\ inode = 0 /\ content = 0 /\ changes = 0
  /\ fd = Absent /\ knote = Absent /\ flags = {} /\ sig = FALSE
  /\ tries = 0 /\ shown = 0 /\ unseen = FALSE
  /\ pc = "open"

-----------------------------------------------------------------------------
(* The watcher.                                                            *)

(* Opening a file may fail, also when the path names one.                  *)
FirstOpen ==
  /\ pc = "open"
  /\ \/ pc' = "failed" /\ UNCHANGED fd
     \/ inode # Absent /\ pc' = "register" /\ fd' = inode
  /\ UNCHANGED <<file, knote, flags, sig, tries, shown, unseen>>

(* register_vnode and register_signal; both errors end the program.        *)
FirstRegister ==
  /\ pc = "register"
  /\ \/ pc' = "wait" /\ knote' = fd
     \/ pc' = "failed" /\ UNCHANGED knote
  /\ UNCHANGED <<file, fd, flags, sig, tries, shown, unseen>>

(* kevent delivers SIGINT: the callback ends the loop.                     *)
TakeSignal ==
  /\ pc = "wait" /\ sig
  /\ sig' = FALSE
  /\ pc' = "stopped"
  /\ UNCHANGED <<file, fd, knote, flags, tries, shown, unseen>>

(* kevent delivers the flags of the file and clears them.                  *)
TakeVnode ==
  /\ pc = "wait" /\ flags # {}
  /\ flags' = {}
  /\ pc' = IF "delete" \in flags THEN "deleted" ELSE "changed"
  /\ UNCHANGED <<file, fd, knote, sig, tries, shown, unseen>>

(* The operators named Mutant... are faulty variants of the definition that *)
(* follows them.  The specification does not use them: put in its place,   *)
(* each one makes a property fail, which shows what the property is for.   *)
MutantRunPipeline ==
  /\ pc \in {"deleted", "changed"}
  /\ \E opened \in BOOLEAN :
       /\ opened => inode # Absent
       /\ shown' = IF opened THEN content ELSE shown
       /\ unseen' = \/ ~ opened /\ inode # Absent
                    \/ pc = "changed" /\ knote # inode /\ "delete" \notin flags
  /\ tries' = 0
  /\ pc' = IF pc = "deleted" THEN "retry" ELSE "wait"
  /\ flags' = {}
  /\ UNCHANGED <<file, fd, knote, sig>>

(* The callback maps the file anew and runs the pipeline; if it is not     *)
(* there or cannot be opened only a diagnostic is printed.                 *)
RunPipeline ==
  /\ pc \in {"deleted", "changed"}
  /\ \E opened \in BOOLEAN :
       /\ opened => inode # Absent
       /\ shown' = IF opened THEN content ELSE shown
       /\ unseen' = \/ ~ opened /\ inode # Absent
                    \/ pc = "changed" /\ knote # inode /\ "delete" \notin flags
  /\ tries' = 0
  /\ pc' = IF pc = "deleted" THEN "retry" ELSE "wait"
  /\ UNCHANGED <<file, fd, knote, flags, sig>>

(* After a deletion: sleep and try to open the path again.  Assigning      *)
(* current_file closes the old one, which ends its registration.           *)
Reopen ==
  /\ pc = "retry" /\ tries < Retries
  /\ tries' = tries + 1
  /\ \/ UNCHANGED <<fd, knote, flags, pc>>
     \/ /\ inode # Absent
        /\ fd' = inode /\ knote' = Absent /\ flags' = {} /\ pc' = "reregister"
  /\ UNCHANGED <<file, sig, shown, unseen>>

MutantReregister ==
  /\ pc = "reregister"
  /\ \/ pc' = "wait" /\ knote' = fd
     \/ pc' = "wait" /\ UNCHANGED knote
  /\ UNCHANGED <<file, fd, flags, sig, tries, shown, unseen>>

(* A failing registration is one more failed attempt.                      *)
Reregister ==
  /\ pc = "reregister"
  /\ \/ pc' = "wait" /\ knote' = fd
     \/ pc' = "retry" /\ UNCHANGED knote
  /\ UNCHANGED <<file, fd, flags, sig, tries, shown, unseen>>

MutantGiveUp ==
  /\ pc = "retry" /\ tries > Retries
  /\ pc' = "stopped"
  /\ UNCHANGED <<file, watch, unseen>>

GiveUp ==
  /\ pc = "retry" /\ tries = Retries
  /\ pc' = "stopped"
  /\ UNCHANGED <<file, watch, unseen>>

Watcher ==
  \/ FirstOpen \/ FirstRegister \/ TakeSignal \/ TakeVnode \/ RunPipeline
  \/ Reopen \/ Reregister \/ GiveUp

-----------------------------------------------------------------------------
(* The environment.  A change is seen if it raises a flag the registration *)
(* asks for (NOTE_WRITE, NOTE_EXTEND, NOTE_DELETE) on the inode it is for. *)

Seen(event) ==
  /\ flags' = IF knote = inode THEN flags \cup {event} ELSE flags
  /\ unseen' = (unseen \/ knote # inode)

Change ==
  /\ changes < MaxChanges
  /\ changes' = changes + 1
  /\ content' = changes + 1
  /\ UNCHANGED <<fd, knote, sig, tries, shown, pc>>

(* A write or an extension in place.                                       *)
WriteFile == inode # Absent /\ Change /\ Seen("write") /\ UNCHANGED inode

(* Replacement by rename: the old inode loses its name.                    *)
ReplaceFile == inode # Absent /\ Change /\ Seen("delete") /\ inode' = changes + 1

RemoveFile == inode # Absent /\ Change /\ Seen("delete") /\ inode' = Absent

CreateFile ==
  /\ inode = Absent /\ Change
  /\ inode' = changes + 1
  /\ unseen' = TRUE
  /\ UNCHANGED flags

(* The file is renamed away: no event, NOTE_RENAME is not asked for.       *)
MoveAway ==
  /\ inode # Absent /\ Change
  /\ inode' = Absent
  /\ unseen' = TRUE
  /\ UNCHANGED flags

(* SIGINT is blocked.  It is recorded once the filter is registered; what  *)
(* comes earlier is never delivered.                                       *)
Interrupt ==
  /\ pc \in {"wait", "deleted", "changed", "retry", "reregister"}
  /\ sig' = TRUE
  /\ UNCHANGED <<file, fd, knote, flags, tries, shown, unseen, pc>>

Next ==
  \/ Watcher
  \/ WriteFile \/ ReplaceFile \/ RemoveFile \/ CreateFile \/ MoveAway \/ Interrupt

(* The watcher's thread runs, and a kqueue hands out its events in the     *)
(* order in which they were raised, so that no event waits for ever.       *)
Spec == Init /\ [][Next]_vars /\ WF_vars(Watcher) /\ SF_vars(TakeSignal)

(* The steps of the watcher in which no opening of the file fails.         *)
OpensSucceed ==
  /\ pc \in {"deleted", "changed"} => shown' = content
  /\ pc = "retry" => pc' # "retry"

(* The changes docs/getting-started.md:214-215 promises to report, once    *)
(* the program has said that it is watching, where no opening fails.       *)
DocumentedNext ==
  (Watcher /\ OpensSucceed) \/ (pc \notin {"open", "register"} /\ (WriteFile \/ ReplaceFile))
DocumentedSpec == Init /\ [][DocumentedNext]_vars

-----------------------------------------------------------------------------
(* Properties.                                                             *)

Waiting == pc = "wait" /\ flags = {}

(* Every variable stays in its domain.                                     *)
TypeOK ==
  /\ inode \in 0..MaxChanges \cup {Absent}
  /\ fd \in 0..MaxChanges \cup {Absent} /\ knote \in {fd, Absent}
  /\ content \in 0..MaxChanges /\ changes \in 0..MaxChanges /\ shown \in 0..MaxChanges
  /\ flags \subseteq {"write", "delete"}
  /\ sig \in BOOLEAN /\ unseen \in BOOLEAN
  /\ tries \in 0..Retries
  /\ pc \in {"open", "register", "wait", "deleted", "changed", "retry", "reregister",
             "stopped", "failed"}

(* No event is lost once it was raised, however events coalesce and        *)
(* whatever happens during the callback: when the watcher waits and        *)
(* nothing is pending, the pipeline has run on the present content and the *)
(* file is watched, unless a change since that run raised no event or the  *)
(* run could not open the file.                                            *)
SeenIsShown ==
  Waiting /\ ~ unseen => shown = content /\ knote = inode

(* The watcher never blocks for events of nothing: a registration that     *)
(* fails after a replacement is tried again or ends the watch.             *)
NeverDeaf == pc = "wait" => knote # Absent

(* Ctrl-C ends the watch, also while it waits for a deleted file.          *)
InterruptStops == sig ~> (pc = "stopped")

(* docs/getting-started.md:214-215: the program is re-run "after a write,  *)
(* extension, or replacement-by-rename".                                   *)
RerunAfterChange == Waiting => shown = content
=============================================================================
