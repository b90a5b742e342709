------------------------------ MODULE Scanner ------------------------------
(***************************************************************************)
(* One scan for VESC TCP bridges (scanner.py): iter_discovery_hosts and    *)
(* discover_vesc_tcp_endpoints.  The main thread lists the hosts, submits  *)
(* a probe for each host and port to a pool of threads and takes the       *)
(* results as they complete.                                               *)
(*                                                                         *)
(* MultiBoard has a scan as "each scanned endpoint answers or not, and one *)
(* answer of each identity is kept"; this module is what is behind it.     *)
(***************************************************************************)
EXTENDS Integers, Sequences, FiniteSets, SequencesExt

CONSTANTS
  Hosts,        \* host names and addresses
  PortNumbers,  \* the port numbers somebody writes, valid or not
  KeyOrder,     \* KeyOrder[<<h, p>>]: the place of the text "h:p" among all
  Configs,      \* the [discovery] section with the [vesc] host and port
  Boards,       \* physical boards
  Anonymous,    \* boards whose firmware reports no uuid
  Home,         \* Home[<<h, p>>]: the board, where one answers at a host and port
  HardHosts,    \* HARD_MAX_HOSTS_PER_SCAN
  HardPorts,    \* HARD_MAX_PORTS_PER_SCAN
  HardProbes,   \* HARD_MAX_PROBES_PER_SCAN
  HardWorkers,  \* HARD_MAX_WORKERS
  None          \* Python's None

Lesser(a, b) == IF a < b THEN a ELSE b
Greater(a, b) == IF a > b THEN a ELSE b

(* max(0, min(config.max_hosts_per_scan, HARD_MAX_HOSTS_PER_SCAN)) and     *)
(* its like for the probes.                                                *)
MaxHosts(c) == Greater(0, Lesser(c.maxHosts, HardHosts))
MaxProbes(c) == Greater(0, Lesser(c.maxProbes, HardProbes))
MaxWorkers(c, jobs) ==
  Greater(1, Lesser(c.maxWorkers, Lesser(HardWorkers, jobs)))

(* The configured host, if it is included, and the hosts of the section.   *)
Explicit(c) ==
  (IF c.configured = None THEN <<>> ELSE <<c.configured>>) \o c.hosts

(* _hosts_from_network raises: no IPv4 network, broader than allowed, or   *)
(* public without leave.                                                   *)
Refused(c, network) ==
  \/ network.kind # "ipv4"
  \/ network.prefix < c.minPrefix
  \/ ~network.private /\ ~c.allowPublic

(* Mutant: a port is taken as it is written.                               *)
AllPorts(c) ==
  IF c.ports = <<>> THEN <<c.port>>
  ELSE SubSeq(c.ports, 1, Lesser(Len(c.ports), HardPorts))

(* The members of a set that are before x, and how many they are.          *)
Below(x, S, before) == {y \in S : <<y, x>> \in before}
Rank(x, S, before) == Cardinality(Below(x, S, before))

(* The members of a set in the order "before": the member at place k has   *)
(* k - 1 before it.  (SelectSeq and SetToSortSeq are closed to the         *)
(* provers.)                                                               *)
InOrder(S, before) ==
  [k \in 1 .. Cardinality(S) |-> CHOOSE x \in S : Rank(x, S, before) = k - 1]

Ascending(S) == {m \in S \X S : m[1] < m[2]}

IsPort(p) == 0 < p /\ p <= 65535
ValidPlaces(c) == {i \in DOMAIN c.ports : IsPort(c.ports[i])}

(* The valid ports, or the configured one.                                 *)
Ports(c) ==
  LET places == InOrder(ValidPlaces(c), Ascending(ValidPlaces(c)))
  IN  IF places = <<>> THEN <<c.port>>
      ELSE [k \in 1 .. Lesser(Len(places), HardPorts) |-> c.ports[places[k]]]

ASSUME ConfigAssumption ==
  \A c \in Configs :
    /\ c.enabled \in BOOLEAN
    /\ c.maxHosts \in Int /\ c.maxProbes \in Int /\ c.maxWorkers \in Int
    /\ Explicit(c) \in Seq(Hosts)
    /\ c.networks \in Seq([kind : {"ipv4", "ipv6", "invalid"}, prefix : Nat,
                           private : BOOLEAN, addresses : Seq(Hosts)])
    /\ \A n \in DOMAIN c.networks : IsInjective(c.networks[n].addresses)
    /\ c.ports \in Seq(PortNumbers) /\ c.port \in PortNumbers
ASSUME CapAssumption ==
  /\ HardHosts \in Nat /\ HardPorts \in Nat
  /\ HardProbes \in Nat /\ HardWorkers \in Nat
ASSUME PortAssumption == PortNumbers \subseteq Int
ASSUME KeyAssumption ==
  KeyOrder \in [Hosts \X PortNumbers -> Int] /\ IsInjective(KeyOrder)
ASSUME HomeAssumption == \A at \in DOMAIN Home : Home[at] \in Boards
ASSUME NoneAssumption == None \notin Boards

VARIABLES
  config,     \* the configuration of this scan
  phase,      \* hosts, probe, done, failed (the scan raised)
  hosts,      \* the hosts listed so far
  left,       \* hosts of the current source that are not looked at yet
  networks,   \* networks not expanded yet
  tasks,      \* <<host, port>> to probe, in order
  started,    \* how many of them a worker has taken
  running,    \* positions of those that run
  finished,   \* results not taken yet: [task, board]
  endpoints,  \* endpoints kept
  found,      \* the list that is returned
  answered    \* history: the endpoints whose probe had an answer

listing == <<hosts, left, networks>>
pool == <<started, running, finished>>
results == <<endpoints, found, answered>>
vars == <<config, phase, listing, tasks, pool, results>>

(* Mutant: a uuid of zeros is one like any other.                          *)
ZeroIdentity(e) ==
  IF e.board \in Anonymous THEN <<"uuid", None>> ELSE <<"uuid", e.board>>

(* identity_key                                                            *)
Identity(e) ==
  IF e.board \in Anonymous THEN <<"endpoint", e.at>> ELSE <<"uuid", e.board>>

(* The order of the keys, which are compared as texts.                     *)
KeyBefore(e, f) == KeyOrder[e.at] < KeyOrder[f.at]

Init ==
  /\ config \in Configs
  /\ phase = IF config.enabled THEN "hosts" ELSE "done"
  /\ hosts = <<>> /\ left = Explicit(config) /\ networks = config.networks
  /\ tasks = <<>>
  /\ started = 0 /\ running = {} /\ finished = {}
  /\ endpoints = {} /\ found = <<>> /\ answered = {}

-----------------------------------------------------------------------------
(* iter_discovery_hosts                                                    *)

(* Mutant: only the loop over the networks looks at the limit.             *)
AddUncapped(h) ==
  hosts' = IF h \in ToSet(hosts) THEN hosts ELSE Append(hosts, h)

(* add                                                                     *)
Add(h) ==
  hosts' = IF Len(hosts) >= MaxHosts(config) \/ h \in ToSet(hosts) THEN hosts
           ELSE Append(hosts, h)

AddHost ==
  /\ phase = "hosts"
  /\ left # <<>>
  /\ Add(Head(left))
  /\ left' = Tail(left)
  /\ UNCHANGED <<config, phase, networks, tasks, pool, results>>

(* Mutant: as many addresses as there are places left.                     *)
FirstFree(network) ==
  SubSeq(network.addresses, 1,
         Lesser(Len(network.addresses), MaxHosts(config) - Len(hosts)))

(* The addresses are cut at the limit before those already listed are      *)
(* left out.                                                               *)
FirstAddresses(network) ==
  SubSeq(network.addresses, 1, Lesser(Len(network.addresses), MaxHosts(config)))

(* The next network, unless the limit is reached.  One that is refused     *)
(* ends the scan, whatever was listed before.                              *)
NextNetwork ==
  /\ phase = "hosts"
  /\ left = <<>>
  /\ networks # <<>>
  /\ Len(hosts) < MaxHosts(config)
  /\ IF Refused(config, Head(networks))
       THEN /\ phase' = "failed"
            /\ UNCHANGED <<left, networks>>
       ELSE /\ left' = FirstAddresses(Head(networks))
            /\ networks' = Tail(networks)
            /\ UNCHANGED phase
  /\ UNCHANGED <<config, hosts, tasks, pool, results>>

(* All ports of the first host, then those of the next, cut at the limit.  *)
Tasks ==
  LET ports == Ports(config)
      count == Lesser(Len(hosts) * Len(ports), MaxProbes(config))
  IN  [i \in 1 .. count |->
         <<hosts[1 + ((i - 1) \div Len(ports))], ports[1 + ((i - 1) % Len(ports))]>>]

(* Without a task nothing is found.                                        *)
EndHosts ==
  /\ phase = "hosts"
  /\ (left = <<>> /\ networks = <<>>) \/ Len(hosts) >= MaxHosts(config)
  /\ tasks' = Tasks
  /\ phase' = IF tasks' = <<>> THEN "done" ELSE "probe"
  /\ UNCHANGED <<config, listing, pool, results>>

-----------------------------------------------------------------------------
(* The pool of threads and as_completed.                                   *)

(* A worker that is free takes the oldest task.                            *)
StartProbe ==
  /\ phase = "probe"
  /\ started < Len(tasks)
  /\ Cardinality(running) < MaxWorkers(config, Len(tasks))
  /\ started' = started + 1
  /\ running' = running \union {started'}
  /\ UNCHANGED <<config, phase, listing, tasks, finished, results>>

(* Mutant: a probe without a timeout waits for an answer.                  *)
ProbeReturns(t) == {Home[at] : at \in {tasks[t]} \intersect DOMAIN Home}

(* probe_vesc_tcp: the firmware of the board, or None for any error.       *)
ProbeResults(t) ==
  {Home[at] : at \in {tasks[t]} \intersect DOMAIN Home} \union {None}

EndProbe(t) ==
  /\ t \in running
  /\ running' = running \ {t}
  /\ \E board \in ProbeResults(t) :
       /\ finished' = finished \union {[task |-> t, board |-> board]}
       /\ answered' = IF board = None THEN answered
                      ELSE answered \union {[at |-> tasks[t], board |-> board]}
  /\ UNCHANGED <<config, phase, listing, tasks, started, endpoints, found>>

(* The first endpoint with an identity is kept.                            *)
Collect(r) ==
  /\ r \in finished
  /\ finished' = finished \ {r}
  /\ LET e == [at |-> tasks[r.task], board |-> r.board]
     IN  endpoints' =
           IF r.board = None \/ \E f \in endpoints : Identity(f) = Identity(e)
             THEN endpoints ELSE endpoints \union {e}
  /\ UNCHANGED <<config, phase, listing, tasks, started, running, found, answered>>

(* Mutant: what is not collected yet is given up.                          *)
FinishEarly ==
  /\ phase = "probe"
  /\ started = Len(tasks) /\ running = {}
  /\ found' = InOrder(endpoints,
                      {m \in endpoints \X endpoints : KeyBefore(m[1], m[2])})
  /\ phase' = "done" /\ finished' = {}
  /\ UNCHANGED <<config, listing, tasks, started, running, endpoints, answered>>

Finish ==
  /\ phase = "probe"
  /\ started = Len(tasks) /\ running = {} /\ finished = {}
  /\ found' = InOrder(endpoints,
                      {m \in endpoints \X endpoints : KeyBefore(m[1], m[2])})
  /\ phase' = "done"
  /\ UNCHANGED <<config, listing, tasks, pool, endpoints, answered>>

Listing == AddHost \/ NextNetwork \/ EndHosts
Probing == StartProbe \/ \E t \in running : EndProbe(t)
Collecting == \E r \in finished : Collect(r)

Next == Listing \/ Probing \/ Collecting \/ Finish

Spec == Init /\ [][Next]_vars

(* Every thread goes on: a probe has a timeout for each call.              *)
FairSpec ==
  /\ Spec
  /\ WF_vars(Listing) /\ WF_vars(Probing) /\ WF_vars(Collecting) /\ WF_vars(Finish)
=============================================================================
