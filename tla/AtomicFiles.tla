---------------------------- MODULE AtomicFiles -----------------------------
(***************************************************************************)
(* What an in-place edit promises of the files it is given: each one       *)
(* changes from one whole version to the next in a single step, in the     *)
(* order of the arguments, whatever fails and whenever the process or the  *)
(* machine stops.  A power loss may take back the last replacements, but   *)
(* only to a whole version the file had before.                            *)
(***************************************************************************)
EXTENDS Naturals, Sequences

CONSTANTS Paths, Commands

VARIABLES
  files,    (* The arguments of the command that is run.                   *)
  version,  (* version[p]: what a reader of p sees.                        *)
  durable,  (* durable[p]: what a power loss would leave.                  *)
  next,     (* Index of the argument to be handled next; 1 between runs.   *)
  status    (* "running", or how the command stopped.                      *)

vars == <<files, version, durable, next, status>>

Init ==
  /\ files \in Commands
  /\ version = [p \in Paths |-> 0]
  /\ durable = version
  /\ next = 1
  /\ status = "running"

(* One argument is dealt with: replaced by its next version, or left.      *)
Replace ==
  /\ status = "running" /\ next <= Len(files)
  /\ version' = [version EXCEPT ![files[next]] = @ + 1]
  /\ next' = next + 1
  /\ UNCHANGED <<files, durable, status>>

Leave ==
  /\ status = "running" /\ next <= Len(files)
  /\ next' = next + 1
  /\ UNCHANGED <<files, version, durable, status>>

(* The command ends, fails or is killed.                                   *)
Stop ==
  /\ status = "running"
  /\ status' \in {"done", "failed", "killed"}
  /\ status' = "done" => next > Len(files)
  /\ next' = 1
  /\ UNCHANGED <<files, version, durable>>

(* The file system makes the replacements so far permanent.                *)
Settle ==
  /\ durable' = version
  /\ UNCHANGED <<files, version, next, status>>

PowerLoss ==
  /\ version' = durable
  /\ status' = "off"
  /\ next' = 1
  /\ UNCHANGED <<files, durable>>

(* The user runs the command once more.                                    *)
Rerun ==
  /\ status # "running"
  /\ status' = "running"
  /\ UNCHANGED <<files, version, durable, next>>

Next == Replace \/ Leave \/ Stop \/ Settle \/ PowerLoss \/ Rerun

Spec == Init /\ [][Next]_vars
=============================================================================
