---------------------------- MODULE InlineBuffer ----------------------------
(***************************************************************************)
(* InlineBuffer (include/logger/InlineBuffer.hpp): bytes are collected in  *)
(* an array of INLINE_CAPACITY; from the append that does not fit, all of  *)
(* them live in a vector on the heap, and the array is not looked at any   *)
(* more.                                                                   *)
(*                                                                         *)
(* A buffer is a record of the array's bytes, the vector and size_; what a *)
(* byte is does not matter.                                                *)
(***************************************************************************)
EXTENDS Naturals, Sequences

CONSTANTS
  INLINE_CAPACITY,  \* 256 in the code
  Bytes             \* what may be appended

Buffer == [smallBuffer : Seq(Bytes), overflow : Seq(Bytes), size : Nat]

EmptyBuffer == [smallBuffer |-> << >>, overflow |-> << >>, size |-> 0]

(* memcpy() to smallBuffer_ + size_: the bytes before it stay.             *)
AppendInline(b, s) ==
  [b EXCEPT !.smallBuffer = SubSeq(b.smallBuffer, 1, b.size) \o s, !.size = b.size + Len(s)]

AppendOverflowOnly(b, s) ==
  [b EXCEPT !.overflow = b.overflow \o s, !.size = Len(b.overflow \o s)]

(* The array moves to the heap first if it has not yet.                    *)
AppendOverflow(b, s) ==
  LET heap == IF b.overflow = << >> THEN SubSeq(b.smallBuffer, 1, b.size) \o s
                                    ELSE b.overflow \o s
  IN  [b EXCEPT !.overflow = heap, !.size = Len(heap)]

AppendOneTooMany(b, s) ==
  IF s = << >> THEN b
  ELSE IF b.overflow = << >> /\ b.size + Len(s) <= INLINE_CAPACITY + 1
       THEN AppendInline(b, s)
       ELSE AppendOverflow(b, s)

append(b, s) ==
  IF s = << >> THEN b
  ELSE IF b.overflow = << >> /\ b.size + Len(s) <= INLINE_CAPACITY
       THEN AppendInline(b, s)
       ELSE AppendOverflow(b, s)

data(b) == IF b.overflow = << >> THEN b.smallBuffer ELSE b.overflow

view(b) == SubSeq(data(b), 1, b.size)

(* What every sequence of appends leaves: size_ counts the bytes in use,   *)
(* and the array is never overrun.                                         *)
BufferOK(b) ==
  /\ b \in Buffer
  /\ Len(b.smallBuffer) <= INLINE_CAPACITY
  /\ IF b.overflow = << >> THEN b.size = Len(b.smallBuffer) ELSE b.size = Len(b.overflow)
=============================================================================
