-------------------------- MODULE XlayerCircularData --------------------------
(***************************************************************************)
(* The circular payload buffer of a connection                             *)
(* (src/core/wireless/xlayer/xlayer_circular_data.c): blocks are cut off   *)
(* at the head, contiguous, and given back at the tail, or at the head if  *)
(* the block is the last one cut off.                                      *)
(***************************************************************************)
EXTENDS Integers

NoSpace == -1

CircularDataInit(bytes) == [size |-> bytes, head |-> 0, tail |-> 0, lastHead |-> 0]

\* Where xlayer_circular_data_allocate_space finds n contiguous bytes.
Place(d, n) ==
  CASE d.head >= d.tail /\ d.size - d.head >= n -> d.head
    [] d.head >= d.tail /\ d.size - d.head < n /\ d.tail >= n -> 0
    [] d.head < d.tail /\ d.tail - d.head >= n -> d.head
    [] OTHER -> NoSpace

AllocateSpace(d, n) ==
  LET at == Place(d, n)
  IN IF at = NoSpace THEN d ELSE [d EXCEPT !.lastHead = at, !.head = at + n]

\* Which index xlayer_circular_data_free_space moves: the head back to a block
\* that was the last cut off, the tail past a block next in order, where the
\* end of the buffer is skipped if the block cannot lie there.  Any other
\* block is refused.
FreedField(d, at, n) ==
  LET oldest == IF d.tail + n > d.size THEN 0 ELSE d.tail
  IN IF n = 0 THEN "none"
     ELSE IF at = d.lastHead THEN "head"
     ELSE IF at = oldest THEN "tail"
     ELSE "none"

FreeSpace(d, at, n) ==
  CASE FreedField(d, at, n) = "head" -> [d EXCEPT !.head = at]
    [] FreedField(d, at, n) = "tail" -> [d EXCEPT !.tail = at + n]
    [] OTHER -> d
=============================================================================
