-------------------------------- MODULE Bytes --------------------------------
(***************************************************************************)
(* The byte vectors the programs read into and write from, as Connection's   *)
(* buffer and offset use them.                                               *)
(***************************************************************************)
EXTENDS Naturals, Sequences

(* vector::resize(n, pad): cut, or filled up with pad. *)
Resize(b, n, pad) == [k \in 1..n |-> IF k <= Len(b) THEN b[k] ELSE pad]

(* A read stores bytes in b after its first off bytes. *)
Store(b, off, bytes) ==
  [k \in DOMAIN b |->
     IF k > off /\ k <= off + Len(bytes) THEN bytes[k - off] ELSE b[k]]

Front(b, n) == SubSeq(b, 1, n)

(* asio::buffer(b) += off *)
From(b, off) == SubSeq(b, off + 1, Len(b))

(* How many bytes one operation moves out of b: at least one, at most room. *)
Amounts(b, room) == {k \in 1..Len(b) : k <= room}
==============================================================================
