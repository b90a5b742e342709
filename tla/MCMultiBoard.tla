---------------------------- MODULE MCMultiBoard ----------------------------
(***************************************************************************)
(* Small networks for TLC: P is the configured board.                      *)
(***************************************************************************)
EXTENDS MultiBoardProperties

CONSTANTS P, U, V

(* P answers at 1 and under a second name at 2, U at 3 and 4; V has no     *)
(* uuid.  All but P at 1 come and go.                                      *)
Aliased ==
  {<<P, p, u1, u2, v>> :
     p \in {P, None}, u1 \in {U, None}, u2 \in {U, None}, v \in {V, None}}

(* P at 1 and U come and go, U with both its addresses 2 and 3, of which   *)
(* the scan keeps one or the other; V stays at 4.                          *)
ComeAndGo == {<<p, u, u, V>> : p \in {P, None}, u \in {U, None}}

AllThere == {<<P, U, V>>}
=============================================================================
