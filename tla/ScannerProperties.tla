------------------------- MODULE ScannerProperties -------------------------
(***************************************************************************)
(* What a scan promises to the fleet and to the network.                   *)
(***************************************************************************)
EXTENDS Scanner

(* Every variable keeps its type; a task is in one place only, and goes to *)
(* a valid port or to the configured one, which nobody validates.          *)
TypeOK ==
  /\ config \in Configs
  /\ phase \in {"hosts", "probe", "done", "failed"}
  /\ hosts \in Seq(Hosts)
  /\ left \in Seq(Hosts)
  /\ tasks \in Seq(Hosts \X PortNumbers)
  /\ \A i \in DOMAIN tasks : IsPort(tasks[i][2]) \/ tasks[i][2] = config.port
  /\ started \in 0 .. Len(tasks)
  /\ running \subseteq 1 .. started
  /\ \A r \in finished :
       r.task \in (1 .. started) \ running /\ r.board \in Boards \union {None}

(* "intentionally bounded by configured hosts/networks, worker count,      *)
(* [...] max host count, max probe count" (README 250): neither the        *)
(* section nor the hard limits are passed, and no host is listed twice.    *)
CapsHeld ==
  /\ Len(hosts) <= MaxHosts(config)
  /\ \A i, j \in DOMAIN hosts : hosts[i] = hosts[j] => i = j
  /\ Len(tasks) <= MaxProbes(config)
  /\ Cardinality(running) <= MaxWorkers(config, Len(tasks))

(* Where the section names a host: place j of the n-th network, or of the  *)
(* hosts named one by one (n = 0), which come first.                       *)
Source(c, n) == IF n = 0 THEN Explicit(c) ELSE c.networks[n].addresses
HostAt(c, p) == Source(c, p[1])[p[2]]
Places(c, last) == UNION {{n} \X DOMAIN Source(c, n) : n \in 0 .. last}

(* Places in the order of the section.                                     *)
Before(p, q) == p[1] < q[1] \/ (p[1] = q[1] /\ p[2] < q[2])

(* The places that name a host no place before them names.                 *)
FirstsAmong(c, places) ==
  {p \in places :
     \A q \in places : Before(q, p) => HostAt(c, q) # HostAt(c, p)}
Firsts(c, last) == FirstsAmong(c, Places(c, last))

(* How many of these places are before p.                                  *)
Earlier(places) == {m \in places \X places : Before(m[1], m[2])}
RankAmong(p, places) == Rank(p, places, Earlier(places))

(* The hosts a reader of the section expects are listed: those named there *)
(* and those of the networks, in this order, each once, up to the limit.   *)
ListedAs(listed, places, c) ==
  /\ Len(listed) = Lesser(Cardinality(places), MaxHosts(c))
  /\ \A p \in places :
       RankAmong(p, places) < Len(listed) =>
         listed[RankAmong(p, places) + 1] = HostAt(c, p)

(* The hosts that are probed are the expected ones, although the networks  *)
(* are cut before duplicates are left out; and a scan fails exactly if a   *)
(* refused network is reached below the limit.                             *)
HostsAsListed ==
  LET refused == {n \in DOMAIN config.networks :
                    /\ Refused(config, config.networks[n])
                    /\ Cardinality(Firsts(config, n - 1)) < MaxHosts(config)}
  IN  /\ phase = "failed" => refused # {}
      /\ config.enabled /\ phase \in {"probe", "done"} =>
           /\ refused = {}
           /\ ListedAs(hosts, Firsts(config, Len(config.networks)), config)

(* Each board that answered is returned at an address it answered at, once *)
(* if it has a uuid and else once for each address, in the order of the    *)
(* keys, in whatever order the probes end: what MultiBoard takes for       *)
(* granted of a scan (EndProbes, NextAnswer).                              *)
AnswersKept ==
  phase = "done" =>
    /\ ToSet(found) \subseteq answered
    /\ \A e \in answered :
         IF e.board \in Anonymous THEN e \in ToSet(found)
         ELSE \E i \in DOMAIN found : found[i].board = e.board
    /\ \A i, j \in DOMAIN found :
         found[i].board = found[j].board =>
           i = j \/ found[i].board \in Anonymous
    /\ IsSorted(found, KeyBefore)

(* The list, the pool and the order hidden, a scan keeps the promise of    *)
(* ScanCall.                                                               *)
Promise ==
  INSTANCE ScanCall WITH
    Answers <- [at : Hosts \X PortNumbers, board : Boards],
    status <- CASE phase = "done" -> "returned" [] phase = "failed" -> "raised"
                [] OTHER -> "running",
    heard <- answered, returned <- ToSet(found)

CallSpec == Promise!CallSpec

(* A scan ends: the main thread waits for it before it polls any board.    *)
ScanEnds == <>(phase \in {"done", "failed"})
=============================================================================
