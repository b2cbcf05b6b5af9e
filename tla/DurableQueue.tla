------------------------------ MODULE DurableQueue ------------------------------
(***************************************************************************)
(* What a queue file promises those who write to it and the one reader     *)
(* that empties it: items are taken from the oldest on, and only what was  *)
(* taken is removed, all of it at once and none if the reader dies; nobody *)
(* puts an item in while some are taken, and room is made in a full queue  *)
(* only.  HookQueue is shown to implement this module, whatever its        *)
(* processes read before they wrote.                                       *)
(***************************************************************************)
EXTENDS Naturals, Sequences

CONSTANTS Items, MaxItems

VARIABLES items,     \* oldest first
          taken      \* how many of them were taken and are still there

vars == <<items, taken>>

Init == items = <<>> /\ taken = 0

(* The oldest n make room. *)
Put(e) ==
  /\ taken = 0
  /\ \E n \in 0..Len(items) :
       /\ n > 0 => Len(items) + 1 - n = MaxItems
       /\ items' = SubSeq(Append(items, e), n + 1, Len(items) + 1)
  /\ UNCHANGED taken

Take == taken < Len(items) /\ taken' = taken + 1 /\ UNCHANGED items

Remove ==
  /\ taken > 0
  /\ items' = SubSeq(items, taken + 1, Len(items))
  /\ taken' = 0

(* The reader died, or could not write the file: all is taken once more.    *)
TakeBack == taken' = 0 /\ UNCHANGED items

Next == Take \/ Remove \/ TakeBack \/ \E e \in Items : Put(e)

Spec == Init /\ [][Next]_vars
================================================================================
