------------------------------ MODULE RplxFile ------------------------------
(***************************************************************************)
(* Files of compiled patterns (rpeg/runtime/file.c): file_save writes a    *)
(* pattern's name table and code through a buffered stream, file_load      *)
(* reads them back, and both are called by lp_saveRPLX and lp_loadRPLX.    *)
(* The disk may fill up, the process may end at any moment, and a file may *)
(* be loaded whatever state it is in.  A load is one step here: that a     *)
(* file is replaced while it is being read is not modelled.                *)
(***************************************************************************)
EXTENDS Ktable, ByteCodec

CONSTANTS
  Chunks,           (* patterns to save: a table and code, an int for each *)
                    (* instruction                                         *)
  MAGIC,            (* the bytes of FILE_MAGIC_NUMBER                      *)
  NEWLINE,
  MAX_INSTLEN_BYTES (* most bytes of code, and of names, that are loaded   *)

(* What is saved fits the ints that the format has for it.                 *)
ASSUME FileAssumption ==
  /\ MAGIC \in Seq(Bytes) /\ NEWLINE \in Bytes /\ MAX_INSTLEN_BYTES \in Nat
  /\ \A c \in Chunks :
       /\ c.kt.elements \in Seq([start : Ints, len : Ints])
       /\ c.kt.block \in Seq(Bytes) /\ c.code \in Seq(Ints)
       /\ {Len(c.kt.elements), Len(c.kt.block), Len(c.code)} \subseteq Ints

VARIABLES
  file,     (* what is on disk, <<>> if nothing                            *)
  chunk,    (* the pattern that was saved last                             *)
  step,     (* the writes of file_save that are done                       *)
  pending,  (* bytes in the buffer of the stream                           *)
  result,   (* of the last save: "none", "saving", "OK", "NOFILE", "WRITE" *)
            (* or "died"                                                   *)
  strays,   (* a stream of an earlier save is still open, with a buffer    *)
  cut,      (* fclose could not write everything, which nobody looks at    *)
  mixed     (* such a stream has been written over the file: its bytes are *)
            (* not followed any more                                       *)

vars == <<file, chunk, step, pending, result, strays, cut, mixed>>

(***************************************************************************)
(* The format.                                                             *)
(***************************************************************************)
Element(e) == int_to_string(e.start) \o int_to_string(e.len) \o int_to_string(0)
ElementBytes == 12
InstructionBytes == 4
(* Slot 0 of the array is saved as well; calloc made it zero.              *)
Elements(kt) ==
  Element([start |-> 0, len |-> 0])
    \o FlattenSeq([i \in DOMAIN kt.elements |-> Element(kt.elements[i])])

(* The writes of file_save, in order.                                      *)
NamesAt == 7
Writes(c) ==
  << MAGIC, int_to_string(ktable_len(c.kt)), int_to_string(Len(c.kt.block)),
     <<NEWLINE>>, Elements(c.kt), <<NEWLINE>>, c.kt.block, <<NEWLINE>>,
     int_to_string(Len(c.code)),
     FlattenSeq([i \in DOMAIN c.code |-> int_to_string(c.code[i])]), <<NEWLINE>> >>

(***************************************************************************)
(* file_load.  Each item follows the one before it; a newline is skipped   *)
(* whatever it is, and need not be there, because read_newline reports     *)
(* errors as a positive number and the callers look for a negative one.    *)
(***************************************************************************)
(* Where the file ends, memory keeps what it holds, say 0. *)
Item(f, at, len) ==
  [i \in 1 .. len |-> IF at + i - 1 \in DOMAIN f THEN f[at + i - 1] ELSE 0]
HasItem(f, at, len) == at + len - 1 <= Len(f)
IntAt(f, at) == string_to_int(Item(f, at, 4))

CountAt == Len(MAGIC) + 1
SizeAt  == CountAt + 4
ElementsAt == SizeAt + 4 + 1
BlockAt(f) == ElementsAt + ElementBytes * (IntAt(f, CountAt) + 1) + 1
LengthAt(f) == BlockAt(f) + IntAt(f, SizeAt) + 1
CodeAt(f) == LengthAt(f) + 4

HeadRead(f)  == HasItem(f, CountAt, 8)
TableRead(f) == /\ HasItem(f, ElementsAt, BlockAt(f) - 1 - ElementsAt)
                /\ IntAt(f, SizeAt) > 0 /\ HasItem(f, BlockAt(f), IntAt(f, SizeAt))
                /\ HasItem(f, LengthAt(f), 4)
CodeBytes(f) == InstructionBytes * IntAt(f, LengthAt(f))
(* Mutant: fewer instructions than announced will do.                      *)
CodeReadSome(f) == HasItem(f, CodeAt(f), 0)
CodeRead(f)  == HasItem(f, CodeAt(f), CodeBytes(f))
(* Mutant: the limit itself is refused.                                    *)
TooLongOrFull(f) == IntAt(f, LengthAt(f)) < 0 \/ CodeBytes(f) >= MAX_INSTLEN_BYTES
TooLong(f) == IntAt(f, LengthAt(f)) < 0 \/ CodeBytes(f) > MAX_INSTLEN_BYTES

Error(code) == [err |-> code]
LoadedElement(f, i) ==
  LET at == ElementsAt + ElementBytes * i
  IN  [start |-> IntAt(f, at), len |-> IntAt(f, at + 4)]
(* The capacity is set to n, although the array has n + 1 slots.           *)
Loaded(f) ==
  [err |-> "OK",
   kt |-> [elements |-> [i \in 1 .. IntAt(f, CountAt) |-> LoadedElement(f, i)],
           block |-> Item(f, BlockAt(f), IntAt(f, SizeAt)),
           size |-> IntAt(f, CountAt), blocksize |-> IntAt(f, SizeAt)],
   code |-> [i \in 1 .. IntAt(f, LengthAt(f)) |->
               IntAt(f, CodeAt(f) + InstructionBytes * (i - 1))]]

file_load(f) ==
  IF ~HasItem(f, 1, Len(MAGIC)) THEN Error("READ")
  ELSE IF Item(f, 1, Len(MAGIC)) # MAGIC THEN Error("MAGIC_NUMBER")
  ELSE IF ~HeadRead(f) THEN Error("READ")
  ELSE IF IntAt(f, CountAt) < 0 THEN Error("KTABLE_LEN")
  ELSE IF IntAt(f, SizeAt) \notin 0 .. MAX_INSTLEN_BYTES THEN Error("KTABLE_SIZE")
  ELSE IF ~TableRead(f) THEN Error("READ")
  ELSE IF TooLong(f) THEN Error("INST_LEN")
  ELSE IF ~CodeRead(f) THEN Error("READ")
  ELSE Loaded(f)

(***************************************************************************)
(* file_save.  What a write takes goes to the buffer, and from there to    *)
(* the file whenever the stream sees fit.  On an error the function        *)
(* returns without closing the stream, which then lives on with its buffer *)
(* until the process ends.                                                 *)
(***************************************************************************)
Todo == Writes(chunk)[step + 1]

Init == /\ file = <<>> /\ chunk \in Chunks /\ step = 0 /\ pending = <<>>
        /\ result = "none" /\ strays = FALSE /\ cut = FALSE /\ mixed = FALSE

Open == /\ result # "saving" /\ chunk' \in Chunks /\ result' = "saving"
        /\ strays' = (strays \/ pending # <<>>)
        /\ file' = <<>> /\ step' = 0 /\ pending' = <<>> /\ cut' = FALSE
        /\ mixed' = FALSE
NoFile == /\ result # "saving" /\ result' = "NOFILE"
          /\ UNCHANGED <<file, chunk, step, pending, strays, cut, mixed>>

(* fwrite returns 0 for an item of no bytes, which the writing of the      *)
(* names takes for an error.                                               *)
NoNames == step + 1 = NamesAt /\ Todo = <<>>
Write == /\ result = "saving" /\ step < Len(Writes(chunk)) /\ ~NoNames
         /\ pending' = pending \o Todo /\ step' = step + 1
         /\ UNCHANGED <<file, chunk, result, strays, cut, mixed>>
Fails == /\ result = "saving" /\ step < Len(Writes(chunk))
         /\ NoNames \/ Todo # <<>>
         /\ \E taken \in {0, Len(Todo) - 1} \cap Nat :
              pending' = pending \o SubSeq(Todo, 1, taken)
         /\ result' = "WRITE"
         /\ UNCHANGED <<file, chunk, step, strays, cut, mixed>>
Flush == /\ \E n \in DOMAIN pending :
              /\ file' = file \o SubSeq(pending, 1, n)
              /\ pending' = SubSeq(pending, n + 1, Len(pending))
         /\ UNCHANGED <<chunk, step, result, strays, cut, mixed>>

(* fclose writes the rest if the disk has room; its result is ignored.     *)
CloseFull == file' = file \o pending /\ UNCHANGED cut
CloseCut  == /\ \E n \in DOMAIN pending : file' = file \o SubSeq(pending, 1, n - 1)
             /\ cut' = TRUE
Close == /\ result = "saving" /\ step = Len(Writes(chunk))
         /\ CloseFull \/ CloseCut
         /\ result' = "OK" /\ pending' = <<>>
         /\ UNCHANGED <<chunk, step, strays, mixed>>

(***************************************************************************)
(* The end of the process: by a crash, which loses what is in buffers, or  *)
(* by exit, which writes what the open streams still hold, each at its own *)
(* place.  After either, another process may go on.                        *)
(***************************************************************************)
Die == /\ result' = "died" /\ pending' = <<>> /\ strays' = FALSE
       /\ UNCHANGED <<file, chunk, step, cut, mixed>>
Exit == /\ result # "saving" /\ (strays \/ pending # <<>>)
        /\ file' = file \o pending /\ pending' = <<>>
        /\ mixed' = (mixed \/ strays) /\ strays' = FALSE
        /\ UNCHANGED <<chunk, step, result, cut>>

Next == Open \/ NoFile \/ Write \/ Fails \/ Flush \/ Close \/ Die \/ Exit
Spec == Init /\ [][Next]_vars

-----------------------------------------------------------------------------
(* Whenever a file is loaded, after a crash or an error as well, file_load *)
(* refuses it or returns all of the pattern that was saved last: each name *)
(* at its index and every instruction, though the length of nothing but    *)
(* its parts is checked.                                                   *)
LoadedIsSaved ==
  LET load == file_load(file)
  IN  load.err = "OK" /\ ~mixed =>
        load.code = chunk.code /\ Names(load.kt) = Names(chunk.kt)

(* A save that returned FILE_OK, with nothing lost by fclose, made a file  *)
(* that file_load accepts, unless it is longer than file_load allows: the  *)
(* two functions agree about the format.                                   *)
SavedLoads ==
  result = "OK" /\ ~cut /\ ~mixed =>
    \/ file_load(file).err = "OK"
    \/ Len(chunk.kt.block) > MAX_INSTLEN_BYTES
    \/ InstructionBytes * Len(chunk.code) > MAX_INSTLEN_BYTES
==============================================================================
