--------------------------- MODULE DeviceRegistry ---------------------------
(***************************************************************************)
(* What Home Assistant may rely on of the fleet's devices: a device is     *)
(* never removed or renamed, its id is used once, it shows one board for   *)
(* good, and a board that has a uuid is shown by one device.               *)
(***************************************************************************)
EXTENDS Functions

CONSTANTS
  Endpoints,  \* where a device reaches its board
  Devices,    \* device ids
  Boards,     \* physical boards
  Anonymous   \* boards that cannot be told apart by a uuid

VARIABLES
  device,  \* endpoint -> the id of its device
  shows    \* endpoint -> the board its device has shown

registryVars == <<device, shows>>

Empty == [e \in {} |-> {}]

(* The new function has this value besides the old ones.                   *)
Grows(old, new, x) ==
  /\ DOMAIN new = DOMAIN old \union {x}
  /\ \A y \in DOMAIN old : new[y] = old[y]

RegistryInit == device = Empty /\ shows = Empty

Enrol(e) ==
  /\ e \notin DOMAIN device
  /\ Grows(device, device', e)
  /\ device'[e] \in Devices \ Range(device)
  /\ UNCHANGED shows

Show(e) ==
  /\ e \in DOMAIN device \ DOMAIN shows
  /\ Grows(shows, shows', e)
  /\ shows'[e] \in Boards \ (Range(shows) \ Anonymous)
  /\ UNCHANGED device

RegistryNext == \E e \in Endpoints : Enrol(e) \/ Show(e)

RegistrySpec == RegistryInit /\ [][RegistryNext]_registryVars
=============================================================================
