----------------------------- MODULE MapStruct -----------------------------
(***************************************************************************)
(* The sliding read window over a file that the block search uses: type    *)
(* mapStruct of rsyncsender/fileio.go.  ptr(offset, l) returns l bytes of  *)
(* the file, out of the window when it holds them, else after moving the   *)
(* window there and reading what the old window did not hold.              *)
(*                                                                         *)
(* Files, windows and buffers are functions from 0 .. n-1; a file that may *)
(* change is a record of its size and its bytes.  The descriptor's own     *)
(* position (pFdOffset) only saves a Seek to the place that is read next,  *)
(* so a read is modelled by that place.                                    *)
(***************************************************************************)
EXTENDS Integers

CONSTANTS
  Byte,            (* contents of one byte, as SignExtend makes them        *)
  AlignBoundary    (* windows start at its multiples; a power of two       *)

ASSUME MapAssumption ==
  /\ Byte \subseteq Int /\ 0 \in Byte
  /\ AlignBoundary \in Nat \ {0}

Slice(f, offset, l) == [i \in 0 .. l - 1 |-> f[offset + i]]
Nil == Slice(<<>>, 0, 0)  (* the nil slice has no bytes                     *)

LesserOf(x, y)  == IF x < y THEN x ELSE y
GreaterOf(x, y) == IF x > y THEN x ELSE y

alignedLength(l)      == ((l + AlignBoundary - 1) \div AlignBoundary) * AlignBoundary
alignedOvershoot(off) == off % AlignBoundary

(* The default window holds a whole number of blocks, then is aligned.     *)
RoundedUp(readSize, blkSize) ==
  IF blkSize > 0 /\ readSize % blkSize # 0
    THEN readSize + blkSize - (readSize % blkSize)
    ELSE readSize

mapFile(len, readSize, blkSize) ==
  [fileSize      |-> len,
   defWindowSize |-> alignedLength(RoundedUp(readSize, blkSize)),
   pOffset |-> 0, pLen |-> 0, pSize |-> 0, window |-> Nil,
   err |-> FALSE]

Available(ms, offset, l) ==
  offset >= ms.pOffset /\ offset + l <= ms.pOffset + ms.pLen

WindowStart(offset) == offset - alignedOvershoot(offset)

(* The default size, cut at the end of the file, enlarged for the request. *)
WindowSize(ms, offset, l) ==
  LET fitting == LesserOf(ms.defWindowSize, ms.fileSize - WindowStart(offset))
      wanted  == l + alignedOvershoot(offset)
  IN  IF fitting < wanted THEN alignedLength(wanted) ELSE fitting

(* How many bytes at the start of the new window the old one holds already.*)
Kept(ms, start, size) ==
  IF /\ start >= ms.pOffset /\ start < ms.pOffset + ms.pLen
     /\ start + size >= ms.pOffset + ms.pLen
    THEN ms.pOffset + ms.pLen - start
    ELSE 0

(* Variant: the kept bytes stay where they are in the window.              *)
MovedInPlace(ms, start, size, i) ==
  IF i < ms.pSize THEN ms.window[i] ELSE 0

(* The window's byte i once it is large enough and the kept bytes are moved*)
(* to its front.                                                           *)
Moved(ms, start, size, i) ==
  LET kept == Kept(ms, start, size)
  IN  IF i < kept THEN ms.window[start - ms.pOffset + i]
      ELSE IF i < ms.pSize THEN ms.window[i] ELSE 0

(* Variant: pOffset and pLen are set once the window has been read.        *)
LoadedThenSet(file, ms, offset, l) ==
  LET start == WindowStart(offset)
      size  == WindowSize(ms, offset, l)
  IN  IF file.size < start + size THEN [ms EXCEPT !.err = TRUE]
      ELSE [ms EXCEPT !.window = [i \in 0 .. size - 1 |-> file.at[start + i]],
                      !.pSize = size, !.pOffset = start, !.pLen = size]

(* Move the window and read what is missing.  pOffset and pLen are set     *)
(* before the read; a read that meets the end of the file leaves the rest  *)
(* of the window as it was and records an error.                           *)
Loaded(file, ms, offset, l) ==
  LET start == WindowStart(offset)
      size  == WindowSize(ms, offset, l)
      kept  == Kept(ms, start, size)
      next  == start + kept
      got   == GreaterOf(0, LesserOf(size - kept, file.size - next))
  IN  [ms EXCEPT
         !.window  = [i \in 0 .. GreaterOf(size, ms.pSize) - 1 |->
                        IF kept <= i /\ i < kept + got
                          THEN file.at[start + i]
                          ELSE Moved(ms, start, size, i)],
         !.pSize   = GreaterOf(size, ms.pSize),
         !.pOffset = start,
         !.pLen    = size,
         !.err     = ms.err \/ got < size - kept]

(* A failed read shows as a window that the file does not cover.           *)
ReadFails(file, ms, offset, l) ==
  LET start == WindowStart(offset)
      size  == WindowSize(ms, offset, l)
  IN  start + Kept(ms, start, size) < start + size /\ file.size < start + size

(* The mapStruct after a call of ptr, and the slice the call returns.  The *)
(* readSize <= 0 that ptr also guards against does not occur: a request    *)
(* that is not available reaches past what is kept.                        *)
PtrState(file, ms, offset, l) ==
  IF l <= 0 \/ Available(ms, offset, l) THEN ms ELSE Loaded(file, ms, offset, l)

ptr(file, ms, offset, l) ==
  IF l <= 0 THEN Nil
  ELSE IF Available(ms, offset, l) THEN Slice(ms.window, offset - ms.pOffset, l)
  ELSE IF ReadFails(file, ms, offset, l) THEN Nil
  ELSE Slice(Loaded(file, ms, offset, l).window, alignedOvershoot(offset), l)

(* The fields of a mapStruct: the window is as large as it ever was.       *)
MapTypes(ms) ==
  /\ ms \in [fileSize : Nat, defWindowSize : Int, pOffset : Nat, pLen : Int, pSize : Nat,
            window : UNION {[0 .. n - 1 -> Byte] : n \in Nat}, err : BOOLEAN]
  /\ ms.window \in [0 .. ms.pSize - 1 -> Byte]
  /\ ms.pLen <= ms.pSize

(* Nothing was lost so far, and the window shows the file f it was read    *)
(* from.                                                                   *)
Faithful(ms, f) ==
  /\ ~ms.err
  /\ \A i \in 0 .. ms.pLen - 1 : ms.window[i] = f[ms.pOffset + i]

=============================================================================
