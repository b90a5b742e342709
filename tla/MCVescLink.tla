----------------------------- MODULE MCVescLink -----------------------------
(***************************************************************************)
(* The calls TLC makes: CAN 1 and CAN 2 are two nodes of the bus.          *)
(***************************************************************************)
EXTENDS VescLinkProperties

Bms == [kind |-> "bms", node |-> None]
Lights(n) == [kind |-> "lights", node |-> n]
Leds(n) == [kind |-> "leds", node |-> n]
Charge(n) == [kind |-> "charge", node |-> n]
Controller(n) == [kind |-> "controller", node |-> n]

(* A direct read, the LED write (no decode retries, like the ping) with    *)
(* the query that is answered alike, and a BMS write.                      *)
Mixed == {Bms, Lights(1), Leds(1), Charge(2)}

(* The same read of two nodes, and of the BMS.                             *)
TwoNodes == {Bms, Controller(1), Controller(2)}
=============================================================================
