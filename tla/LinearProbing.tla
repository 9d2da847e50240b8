---------------------------- MODULE LinearProbing ----------------------------
(***************************************************************************)
(* Linear probing, as both hash maps do it: from the home slot of the key, *)
(* one slot after the other and from the last to the first, up to a slot   *)
(* of the set asked for.  The key 0 marks an empty slot.                   *)
(***************************************************************************)
EXTENDS Integers

(* The slots passed on the way from slot h to slot i of a table of n. *)
Passed(h, i, n) == IF h <= i THEN h..(i - 1) ELSE h..(n - 1) \cup 0..(i - 1)

FirstIn(h, S, n) == CHOOSE i \in S : Passed(h, i, n) \cap S = {}

Used(t, n) == {i \in 0..(n - 1) : t[i].key # 0}
Free(t, n) == {i \in 0..(n - 1) : t[i].key = 0}
FreeOrOf(t, n, k) == {i \in 0..(n - 1) : t[i].key \in {0, k}}

(* The slot at which an insertion and a lookup stop looking for a key. *)
Probe(t, n, k) == FirstIn(k % n, FreeOrOf(t, n, k), n)
=============================================================================
