----------------------------- MODULE MCScanner -----------------------------
(***************************************************************************)
(* Small networks and sections for TLC.                                    *)
(***************************************************************************)
EXTENDS ScannerProperties, TLC

CONSTANTS U, V, W

Net(kind, prefix, private, addresses) ==
  [kind |-> kind, prefix |-> prefix, private |-> private, addresses |-> addresses]

Lan == Net("ipv4", 29, TRUE, <<1, 2, 3, 4>>)
Tail2 == Net("ipv4", 30, TRUE, <<4, 5>>)
Broad == Net("ipv4", 16, TRUE, <<1, 2, 3, 4, 5>>)
Public == Net("ipv4", 30, FALSE, <<5>>)
Other == Net("ipv6", 120, TRUE, <<5>>)
Typo == Net("invalid", 0, TRUE, <<>>)

Section(configured, named, nets, public, ports, limits) ==
  [enabled |-> TRUE, configured |-> configured, hosts |-> named, networks |-> nets,
   allowPublic |-> public, minPrefix |-> 24, ports |-> ports, port |-> 7,
   maxHosts |-> limits[1], maxProbes |-> limits[2], maxWorkers |-> limits[3]]

(* Lists with duplicates, refused networks and limits at every edge, with  *)
(* one worker.                                                             *)
Lists ==
  {Section(c, n, w, b, <<0, 7, 65536>>, <<m, 3, 0>>) :
     c \in {None, 1}, n \in {<<>>, <<2, 2>>, <<3, 1>>},
     w \in {<<>>, <<Lan>>, <<Tail2, Lan>>, <<Lan, Broad>>, <<Public, Lan>>,
            <<Lan, Other>>, <<Tail2, Typo>>},
     b \in BOOLEAN, m \in {-1, 0, 2, 3, 5, 9}}

(* A pool of threads: several ports, none that is valid, the same twice.   *)
Pools ==
  {Section(1, <<2, 3>>, <<>>, FALSE, p, <<3, m, k>>) :
     p \in {<<0>>, <<7, 7>>, <<7, 10>>, <<7, 10, 8>>}, m \in {-1, 4, 9}, k \in {2, 9}}

Off == {[Section(1, <<2>>, <<Lan>>, FALSE, <<7>>, <<3, 3, 2>>) EXCEPT !.enabled = FALSE]}

Sections == Lists \union Pools \union Off

(* As texts the ports are 0, 10, 65536, 7 and 8.                           *)
PlaceOf == 0 :> 0 @@ 10 :> 1 @@ 65536 :> 2 @@ 7 :> 3 @@ 8 :> 4
Keys == [at \in Hosts \X PortNumbers |-> 5 * at[1] + PlaceOf[at[2]]]

(* U answers at two hosts, and at one of them at two ports; V and W have   *)
(* no uuid.                                                                *)
Network ==
  <<1, 7>> :> U @@ <<2, 7>> :> V @@ <<2, 10>> :> U @@ <<3, 7>> :> U
    @@ <<3, 10>> :> W @@ <<4, 7>> :> W
=============================================================================
