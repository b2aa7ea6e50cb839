----------------------------- MODULE HashSpace ------------------------------
(***************************************************************************)
(* The division of the hash space among the leaders of a view, each of     *)
(* which proposes the requests whose digests lie in its slice.  A digest   *)
(* is the number its bytes spell; the bounds of a slice, kept as bytes in  *)
(* the code, are read back as numbers wherever they are used.              *)
(***************************************************************************)
EXTENDS Integers

Increment(end, count) == end \div count

\* Mutant of SliceStart: a slice starts where the one before it ends.
SliceStartAtEnd(end, count, i) == (i - 1) * Increment(end, count)

\* start before the i-th round of the loop: every round adds the increment and
\* one more.
SliceStart(end, count, i) == (i - 1) * (Increment(end, count) + 1)

\* divide_hash_space(): the i-th of count slices of the digests 0..end.  The
\* last one gets what is left.
Slice(end, count, i) ==
  [start |-> SliceStart(end, count, i),
   end   |-> IF i = count THEN end
               ELSE SliceStart(end, count, i) + Increment(end, count)]

IsRequestInHashSpace(digest, slice) == slice.start <= digest /\ digest <= slice.end
=============================================================================
