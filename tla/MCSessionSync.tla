----------------------------- MODULE MCSessionSync -----------------------------
(***************************************************************************)
(* Two sessions that come and go, two contents that fit the codec and one  *)
(* that does not.  The sessions are interchangeable, and so are the        *)
(* contents that fit.                                                      *)
(***************************************************************************)
EXTENDS SessionSync, TLC

Interchange == {p @@ q : p \in Permutations(Ids), q \in Permutations(Contents \ Oversize)}
=============================================================================
