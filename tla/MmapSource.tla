----------------------------- MODULE MmapSource -----------------------------
(***************************************************************************)
(* The input of a run (src/core/mmap.rs): standard input, collected in a   *)
(* buffer of Limit bytes and spilled to a temporary file when it would not *)
(* fit, or a file, whose length is taken before it is mapped.              *)
(*                                                                         *)
(* The other end of a pipe sends what it likes in pieces of any size.      *)
(* Another process may write to a named file at any moment until it is     *)
(* mapped; the spill file has no name.                                     *)
(***************************************************************************)
EXTENDS Integers, Sequences

CONSTANTS
  Byte,      (* The bytes.                                                 *)
  Limit,     (* STDIN_MEMORY_LIMIT.                                        *)
  ReadChunk, (* READ_CHUNK: the most one read returns.                     *)
  MaxInput   (* Bound on the bytes of an input.                            *)

ASSUME MmapSourceAssumption ==
  /\ Limit \in Nat /\ ReadChunk \in Nat \ {0} /\ MaxInput \in Nat

VARIABLES
  state,   (* "start", "read", "stat", "map", "ready" or "failed".         *)
  sent,    (* History: the bytes read from standard input.                 *)
  buffer,  (* The valid bytes of the anonymous mapping.                    *)
  spill,   (* The spill file: <<>>, or <<its content>>.                    *)
  source,  (* The content of the file from_file was given.                 *)
  named,   (* It has a name, that is, other processes know it.             *)
  shrunk,  (* History: it became shorter than its length was taken to be.  *)
  len,     (* MmapSource.len                                               *)
  mmap     (* MmapSource.mmap                                              *)

sourceVars == <<state, sent, buffer, spill, source, named, shrunk, len, mmap>>

Text(n) == UNION {[1..k -> Byte] : k \in 0..n}

SourceInit ==
  /\ state = "start"
  /\ sent = <<>> /\ buffer = <<>> /\ spill = <<>> /\ source = <<>>
  /\ named = FALSE /\ shrunk = FALSE
  /\ len = 0 /\ mmap = <<>>

-----------------------------------------------------------------------------
(* Standard input.                                                         *)

FromStdin ==
  /\ state = "start"
  /\ state' = "read"
  /\ UNCHANGED <<sent, buffer, spill, source, named, shrunk, len, mmap>>

Fits(chunk) == spill = <<>> /\ Len(buffer) + Len(chunk) <= Limit

(* A read that the buffer has room for.                                    *)
Collect(chunk) ==
  /\ state = "read"
  /\ Fits(chunk)
  /\ sent' = sent \o chunk
  /\ buffer' = buffer \o chunk
  /\ UNCHANGED <<state, spill, source, named, shrunk, len, mmap>>

MutantSpill(chunk) ==
  /\ state = "read"
  /\ ~ Fits(chunk)
  /\ sent' = sent \o chunk
  /\ spill' = <<(IF spill = <<>> THEN <<>> ELSE spill[1]) \o chunk>>
  /\ UNCHANGED <<state, buffer, source, named, shrunk, len, mmap>>

(* The first read that it has none for starts the spill file with what was *)
(* collected; all that follow go there, however short.                     *)
Spill(chunk) ==
  /\ state = "read"
  /\ ~ Fits(chunk)
  /\ sent' = sent \o chunk
  /\ spill' = <<(IF spill = <<>> THEN buffer ELSE spill[1]) \o chunk>>
  /\ UNCHANGED <<state, buffer, source, named, shrunk, len, mmap>>

(* A read of no bytes ends the input.                                      *)
EndOfStdin ==
  /\ state = "read"
  /\ IF spill = <<>>
     THEN /\ state' = "ready" /\ mmap' = buffer /\ len' = Len(buffer)
          /\ UNCHANGED source
     ELSE /\ state' = "stat" /\ source' = spill[1]
          /\ UNCHANGED <<mmap, len>>
  /\ UNCHANGED <<sent, buffer, spill, named, shrunk>>

(* The buffer cannot be allocated or sealed, a read fails, or a temporary  *)
(* file cannot be created or written; a file cannot be opened or mapped.   *)
Fail ==
  /\ state \in {"start", "read", "stat", "map"}
  /\ state' = "failed"
  /\ UNCHANGED <<sent, buffer, spill, source, named, shrunk, len, mmap>>

-----------------------------------------------------------------------------
(* Files.                                                                  *)

Open(content) ==
  /\ state = "start"
  /\ state' = "stat" /\ source' = content /\ named' = TRUE
  /\ UNCHANGED <<sent, buffer, spill, shrunk, len, mmap>>

(* from_file takes the length first; an empty file is not mapped, a byte   *)
(* of memory stands for it.                                                *)
Stat ==
  /\ state = "stat"
  /\ len' = Len(source)
  /\ state' = IF source = <<>> THEN "ready" ELSE "map"
  /\ UNCHANGED <<sent, buffer, spill, source, named, shrunk, mmap>>

(* The mapping is as long as the file is now.                              *)
Map ==
  /\ state = "map"
  /\ state' = "ready" /\ mmap' = source
  /\ UNCHANGED <<sent, buffer, spill, source, named, shrunk, len>>

(* Another process writes to a named file, or truncates it.                *)
Rewrite(content) ==
  /\ named /\ state \in {"stat", "map"}
  /\ source' = content
  /\ shrunk' = (state = "map" /\ (shrunk \/ Len(content) < len))
  /\ UNCHANGED <<state, sent, buffer, spill, named, len, mmap>>

Chunks == Text(ReadChunk) \ {<<>>}

SourceNext ==
  \/ FromStdin
  \/ \E chunk \in Chunks : Len(sent) + Len(chunk) <= MaxInput /\ (Collect(chunk) \/ Spill(chunk))
  \/ EndOfStdin
  \/ Fail
  \/ \E content \in Text(MaxInput) : Open(content) \/ Rewrite(content)
  \/ Stat
  \/ Map

SourceSpec == SourceInit /\ [][SourceNext]_sourceVars

-----------------------------------------------------------------------------
(* Properties.                                                             *)

SourceTypeOK ==
  /\ state \in {"start", "read", "stat", "map", "ready", "failed"}
  /\ sent \in Seq(Byte) /\ buffer \in Seq(Byte) /\ source \in Seq(Byte) /\ mmap \in Seq(Byte)
  /\ spill \in Seq(Seq(Byte)) /\ Len(spill) <= 1
  /\ named \in BOOLEAN /\ shrunk \in BOOLEAN
  /\ len \in Nat
  /\ Len(buffer) <= Limit

(* as_slice panics if the mapping is shorter than the length it was given. *)
SlicePanics == len > Len(mmap)
as_slice    == SubSeq(mmap, 1, len)

(* What a run reads (as_slice) is its input.  From standard input, all     *)
(* that was sent arrives once and in order, on either side of the limit    *)
(* and at it; from a file, its first bytes, as many as it had when its     *)
(* length was taken.  Only a file that gets shorter in between makes       *)
(* as_slice panic.                                                         *)
SliceIsInput ==
  state = "ready" =>
    /\ ~ shrunk => ~ SlicePanics
    /\ ~ named => as_slice = sent
    /\ named /\ ~ shrunk => as_slice = SubSeq(source, 1, len)
=============================================================================
