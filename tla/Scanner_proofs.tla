--------------------------- MODULE Scanner_proofs ---------------------------
(***************************************************************************)
(* Proofs about Scanner for every section, network and hard limit.         *)
(***************************************************************************)
EXTENDS ScannerProperties, SequenceTheorems, FiniteSetTheorems, TLAPS

NetworkType ==
  [kind : {"ipv4", "ipv6", "invalid"}, prefix : Nat, private : BOOLEAN,
   addresses : Seq(Hosts)]

(* What is listed, from what, and that nothing runs meanwhile.             *)
ListInvariant ==
  /\ config \in Configs
  /\ hosts \in Seq(Hosts) /\ left \in Seq(Hosts) /\ networks \in Seq(NetworkType)
  /\ Len(hosts) <= MaxHosts(config)
  /\ \A i, j \in DOMAIN hosts : hosts[i] = hosts[j] => i = j

(* The pool: a task that runs was taken, and not more run than workers are.*)
PoolInvariant ==
  /\ Len(tasks) \in Nat /\ Len(tasks) <= MaxProbes(config)
  /\ phase = "hosts" => running = {}
  /\ started \in Nat
  /\ running \subseteq 1 .. started
  /\ IsFiniteSet(running)
  /\ Cardinality(running) <= MaxWorkers(config, Len(tasks))

-----------------------------------------------------------------------------
(* Sets in an order.                                                       *)

StrictOrder(S, before) ==
  /\ \A x \in S : <<x, x>> \notin before
  /\ \A x, y, z \in S :
       <<x, y>> \in before /\ <<y, z>> \in before => <<x, z>> \in before
  /\ \A x, y \in S : x = y \/ <<x, y>> \in before \/ <<y, x>> \in before

(* A set of natural numbers has a least member.                            *)
LEMMA LeastNat ==
  ASSUME NEW T \in SUBSET Nat, T # {}
  PROVE  \E x \in T : \A y \in T : x <= y
<1> DEFINE R == StrictSubsetOrdering(Nat)
           S == {1 .. x : x \in T}
<1>1. IsWellFoundedOn(R, FiniteSubsetsOf(Nat))
  BY FS_StrictSubsetOrderingWellFounded
<1>2. S \subseteq FiniteSubsetsOf(Nat) /\ S # {}
  <2>1. \A x \in T : IsFiniteSet(1 .. x) /\ 1 .. x \in SUBSET Nat
    BY FS_Interval
  <2> QED
    BY <2>1 DEF FiniteSubsetsOf
<1>3. \E s \in S : \A t \in S : <<t, s>> \notin R
  <2> HIDE DEF R, S
  <2> QED
    BY <1>1, <1>2, WFMin
<1>4. PICK x \in T : \A y \in T : <<1 .. y, 1 .. x>> \notin R
  BY <1>3
<1>5. \A y \in T : ~(y < x)
  <2> SUFFICES ASSUME NEW y \in T, y < x PROVE FALSE
    OBVIOUS
  <2>1. /\ 1 .. y \subseteq 1 .. x /\ x \in 1 .. x /\ x \notin 1 .. y
        /\ 1 .. x \in SUBSET Nat /\ 1 .. y \in SUBSET Nat
    OBVIOUS
  <2>2. <<1 .. y, 1 .. x>> \in R
    BY <2>1 DEF StrictSubsetOrdering
  <2> QED
    BY <1>4, <2>2
<1> QED
  BY <1>5

(* The ranks in a finite ordered set are 0, 1, 2 ... up to its size.       *)
LEMMA RankFacts ==
  ASSUME NEW S, IsFiniteSet(S), NEW before, StrictOrder(S, before)
  PROVE  /\ Cardinality(S) \in Nat
         /\ \A x \in S : Rank(x, S, before) \in 0 .. Cardinality(S) - 1
         /\ \A x, y \in S :
              /\ <<x, y>> \in before <=> Rank(x, S, before) < Rank(y, S, before)
              /\ Rank(x, S, before) = Rank(y, S, before) => x = y
         /\ \A k \in 0 .. Cardinality(S) - 1 : \E x \in S : Rank(x, S, before) = k
<1> DEFINE n == Cardinality(S)
           rank == [x \in S |-> Rank(x, S, before)]
<1>1. n \in Nat
  BY FS_CardinalityType
<1>2. ASSUME NEW x \in S
      PROVE  /\ IsFiniteSet(Below(x, S, before))
             /\ Rank(x, S, before) \in 0 .. n - 1
  <2>1. Below(x, S, before) \in SUBSET S /\ x \notin Below(x, S, before)
    BY DEF StrictOrder, Below
  <2>2. /\ IsFiniteSet(Below(x, S, before))
        /\ Cardinality(Below(x, S, before)) <= n
        /\ Cardinality(Below(x, S, before)) # n
    BY <2>1, FS_Subset
  <2>3. Cardinality(Below(x, S, before)) \in Nat
    BY <2>2, FS_CardinalityType
  <2> HIDE DEF n
  <2> QED
    BY <1>1, <2>2, <2>3 DEF Rank
<1>3. ASSUME NEW x \in S, NEW y \in S, <<x, y>> \in before
      PROVE  Rank(x, S, before) < Rank(y, S, before)
  <2>1. /\ Below(x, S, before) \in SUBSET Below(y, S, before)
        /\ x \in Below(y, S, before) /\ x \notin Below(x, S, before)
    BY <1>3 DEF StrictOrder, Below
  <2>2. /\ IsFiniteSet(Below(y, S, before))
        /\ Rank(x, S, before) \in Nat /\ Rank(y, S, before) \in Nat
    BY <1>2
  <2>3. /\ Rank(x, S, before) <= Rank(y, S, before)
        /\ Rank(x, S, before) # Rank(y, S, before)
    BY <2>1, <2>2, FS_Subset DEF Rank
  <2> QED
    BY <2>2, <2>3
<1>4. ASSUME NEW x \in S, NEW y \in S
      PROVE  /\ <<x, y>> \in before <=> Rank(x, S, before) < Rank(y, S, before)
             /\ Rank(x, S, before) = Rank(y, S, before) => x = y
  <2>1. x = y \/ <<x, y>> \in before \/ <<y, x>> \in before
    BY DEF StrictOrder
  <2>2. /\ Rank(x, S, before) \in Nat /\ Rank(y, S, before) \in Nat
        /\ <<x, y>> \in before => Rank(x, S, before) < Rank(y, S, before)
        /\ <<y, x>> \in before => Rank(y, S, before) < Rank(x, S, before)
    BY <1>2, <1>3
  <2> QED
    BY <2>1, <2>2
<1>5. rank \in Injection(S, 0 .. n - 1)
  <2> HIDE DEF n
  <2>1. rank \in [S -> 0 .. n - 1]
    BY <1>2
  <2>2. \A x, y \in S : rank[x] = rank[y] => x = y
    BY <1>4
  <2> QED
    BY <2>1, <2>2 DEF Injection, IsInjective
<1>6. rank \in Surjection(S, 0 .. n - 1)
  <2>1. IsFiniteSet(0 .. n - 1) /\ Cardinality(0 .. n - 1) = n
    BY <1>1, FS_Interval
  <2> HIDE DEF rank
  <2> QED
    BY <1>5, <2>1, FS_Injection
<1>7. ASSUME NEW k \in 0 .. n - 1 PROVE \E x \in S : Rank(x, S, before) = k
  <2> HIDE DEF n
  <2>1. \E x \in S : rank[x] = k
    <3> HIDE DEF rank
    <3> QED
      BY <1>6 DEF Surjection
  <2> QED
    BY <2>1
<1>8. \A x \in S : Rank(x, S, before) \in 0 .. n - 1
  BY <1>2
<1>9. \A x, y \in S :
        /\ <<x, y>> \in before <=> Rank(x, S, before) < Rank(y, S, before)
        /\ Rank(x, S, before) = Rank(y, S, before) => x = y
  BY <1>4
<1> QED
  BY <1>1, <1>7, <1>8, <1>9

(* InOrder makes of an ordered set the sequence of its members, each once. *)
LEMMA InOrderFacts ==
  ASSUME NEW S, IsFiniteSet(S), NEW before, StrictOrder(S, before)
  PROVE  /\ InOrder(S, before) \in Seq(S)
         /\ Len(InOrder(S, before)) = Cardinality(S)
         /\ DOMAIN InOrder(S, before) = 1 .. Cardinality(S)
         /\ \A k \in 1 .. Cardinality(S) : InOrder(S, before)[k] \in S
         /\ \A x \in S : \E k \in 1 .. Cardinality(S) : InOrder(S, before)[k] = x
         /\ \A i, j \in 1 .. Cardinality(S) :
              i < j => <<InOrder(S, before)[i], InOrder(S, before)[j]>> \in before
<1> DEFINE n == Cardinality(S)
           s == InOrder(S, before)
<1>1. /\ n \in Nat
      /\ \A x \in S : Rank(x, S, before) \in 0 .. n - 1
      /\ \A x, y \in S :
           /\ <<x, y>> \in before <=> Rank(x, S, before) < Rank(y, S, before)
           /\ Rank(x, S, before) = Rank(y, S, before) => x = y
      /\ \A k \in 0 .. n - 1 : \E x \in S : Rank(x, S, before) = k
  BY RankFacts
<1>2. s = [k \in 1 .. n |-> CHOOSE x \in S : Rank(x, S, before) = k - 1]
  BY DEF InOrder
<1> HIDE DEF n, s
<1>3. \A k \in 1 .. n : s[k] \in S /\ Rank(s[k], S, before) = k - 1
  <2> SUFFICES ASSUME NEW k \in 1 .. n
               PROVE  s[k] \in S /\ Rank(s[k], S, before) = k - 1
    OBVIOUS
  <2>1. k - 1 \in 0 .. n - 1
    BY <1>1
  <2>2. \E x \in S : Rank(x, S, before) = k - 1
    BY <1>1, <2>1
  <2>3. s[k] = CHOOSE x \in S : Rank(x, S, before) = k - 1
    BY <1>2
  <2> QED
    BY <2>2, <2>3
<1>4. s \in Seq(S) /\ Len(s) = n /\ DOMAIN s = 1 .. n
  BY <1>1, <1>2, <1>3
<1>5. ASSUME NEW x \in S PROVE \E k \in 1 .. n : s[k] = x
  <2>1. Rank(x, S, before) + 1 \in 1 .. n
    BY <1>1
  <2>2. PICK k \in 1 .. n : k = Rank(x, S, before) + 1
    BY <2>1
  <2>3. s[k] \in S /\ Rank(s[k], S, before) = Rank(x, S, before)
    BY <1>1, <1>3, <2>2
  <2>4. s[k] = x
    BY <1>1, <2>3
  <2> QED
    BY <2>4
<1>6. ASSUME NEW i \in 1 .. n, NEW j \in 1 .. n, i < j
      PROVE  <<s[i], s[j]>> \in before
  <2>1. /\ s[i] \in S /\ Rank(s[i], S, before) = i - 1
        /\ s[j] \in S /\ Rank(s[j], S, before) = j - 1
    BY <1>3
  <2> QED
    BY <1>1, <1>6, <2>1
<1> QED
  BY <1>3, <1>4, <1>5, <1>6 DEF n, s

-----------------------------------------------------------------------------
(* Limits.                                                                 *)

(* The limits are natural numbers, and there is always a worker.           *)
LEMMA LimitTypes ==
  ASSUME NEW c \in Configs
  PROVE  /\ MaxHosts(c) \in Nat
         /\ MaxProbes(c) \in Nat
         /\ \A jobs \in Nat : MaxWorkers(c, jobs) \in Nat \ {0}
BY ConfigAssumption, CapAssumption
DEF MaxHosts, MaxProbes, MaxWorkers, Lesser, Greater

(* Ports are valid, or the configured one.                                 *)
LEMMA PortsType ==
  ASSUME NEW c \in Configs
  PROVE  /\ Ports(c) \in Seq(PortNumbers)
         /\ \A k \in DOMAIN Ports(c) : IsPort(Ports(c)[k]) \/ Ports(c)[k] = c.port
<1> DEFINE places == InOrder(ValidPlaces(c), Ascending(ValidPlaces(c)))
           n == Lesser(Len(places), HardPorts)
<1>1. /\ c.ports \in Seq(PortNumbers) /\ HardPorts \in Nat
      /\ DOMAIN c.ports = 1 .. Len(c.ports) /\ Len(c.ports) \in Nat
  BY ConfigAssumption, CapAssumption
<1>2. ValidPlaces(c) \in SUBSET (1 .. Len(c.ports))
  <2>1. ValidPlaces(c) \subseteq DOMAIN c.ports
    BY DEF ValidPlaces
  <2> QED
    BY <1>1, <2>1
<1>3. IsFiniteSet(ValidPlaces(c))
  <2>1. Len(c.ports) \in Int
    BY <1>1
  <2>2. IsFiniteSet(1 .. Len(c.ports))
    BY <2>1, FS_Interval
  <2> QED
    BY <1>2, <2>2, FS_Subset
<1>4. StrictOrder(ValidPlaces(c), Ascending(ValidPlaces(c)))
  BY <1>1, <1>2 DEF StrictOrder, Ascending
<1>5. places \in Seq(ValidPlaces(c))
  BY <1>3, <1>4, InOrderFacts
<1>6. Ports(c) = IF places = <<>> THEN <<c.port>>
                 ELSE [k \in 1 .. n |-> c.ports[places[k]]]
  BY DEF Ports
<1> HIDE DEF places
<1>7. Len(places) \in Nat /\ n \in Nat /\ n <= Len(places)
  BY <1>1, <1>5 DEF Lesser
<1> HIDE DEF n
<1>8. ASSUME NEW k \in 1 .. n
      PROVE  c.ports[places[k]] \in PortNumbers /\ IsPort(c.ports[places[k]])
  <2>1. k \in 1 .. Len(places)
    BY <1>7
  <2>2. places[k] \in ValidPlaces(c)
    BY <1>5, <2>1, ElementOfSeq
  <2>3. IsPort(c.ports[places[k]])
    BY <2>2 DEF ValidPlaces
  <2>4. places[k] \in 1 .. Len(c.ports)
    BY <1>2, <2>2
  <2> QED
    BY <1>1, <2>3, <2>4, ElementOfSeq
<1>9. CASE places = <<>>
  <2>1. Ports(c) = <<c.port>> /\ c.port \in PortNumbers
    BY <1>6, <1>9, ConfigAssumption
  <2> QED
    BY <2>1
<1>10. CASE places # <<>>
  <2>1. Ports(c) = [k \in 1 .. n |-> c.ports[places[k]]]
    BY <1>6, <1>10
  <2> QED
    BY <1>7, <1>8, <2>1
<1> QED
  BY <1>9, <1>10

(* A host is added behind the others, once, and below the limit.           *)
LEMMA AddFacts ==
  ASSUME ListInvariant, NEW h \in Hosts, Add(h), UNCHANGED config
  PROVE  /\ hosts' \in Seq(Hosts)
         /\ Len(hosts') <= MaxHosts(config')
         /\ \A i, j \in DOMAIN hosts' : hosts'[i] = hosts'[j] => i = j
<1>1. CASE hosts' = hosts
  BY <1>1 DEF ListInvariant
<1>2. CASE hosts' # hosts
  <2>1. /\ hosts' = Append(hosts, h) /\ ~(Len(hosts) >= MaxHosts(config))
        /\ h \notin ToSet(hosts)
    BY <1>2 DEF Add
  <2>2. /\ hosts' \in Seq(Hosts)
        /\ Len(hosts') = Len(hosts) + 1 /\ Len(hosts) \in Nat
        /\ DOMAIN hosts' = 1 .. Len(hosts) + 1
        /\ DOMAIN hosts = 1 .. Len(hosts)
        /\ \A i \in DOMAIN hosts : hosts'[i] = hosts[i]
        /\ hosts'[Len(hosts) + 1] = h
    BY <2>1, AppendProperties, LenProperties DEF ListInvariant
  <2>3. \A i \in DOMAIN hosts : hosts[i] # h
    BY <2>1 DEF ToSet
  <2>4. \A i \in DOMAIN hosts' : i \in DOMAIN hosts \/ i = Len(hosts) + 1
    BY <2>2
  <2>5. \A i, j \in DOMAIN hosts' : hosts'[i] = hosts'[j] => i = j
    BY <2>2, <2>3, <2>4 DEF ListInvariant
  <2>6. MaxHosts(config) \in Nat
    BY LimitTypes DEF ListInvariant
  <2> QED
    BY <2>1, <2>2, <2>5, <2>6
<1> QED
  BY <1>1, <1>2

(* The addresses taken from a network are some of its addresses.           *)
LEMMA AddressesType ==
  ASSUME NEW c \in Configs, NEW network \in NetworkType, config = c
  PROVE  FirstAddresses(network) \in Seq(Hosts)
<1> DEFINE n == Lesser(Len(network.addresses), MaxHosts(config))
<1>1. /\ network.addresses \in Seq(Hosts) /\ Len(network.addresses) \in Nat
      /\ MaxHosts(config) \in Nat
  BY LimitTypes DEF NetworkType
<1>2. n \in Nat /\ n <= Len(network.addresses)
  BY <1>1 DEF Lesser
<1>3. \A i \in 1 .. n : network.addresses[i] \in Hosts
  BY <1>1, <1>2, ElementOfSeq
<1> QED
  BY <1>2, <1>3, SubSeqProperties DEF FirstAddresses

(* As many tasks as hosts and ports make, up to the limit.                 *)
LEMMA TaskCount ==
  ASSUME ListInvariant
  PROVE  Len(Tasks) \in Nat /\ Len(Tasks) <= MaxProbes(config)
<1> DEFINE n == Lesser(Len(hosts) * Len(Ports(config)), MaxProbes(config))
<1>1. /\ Len(hosts) \in Nat /\ Len(Ports(config)) \in Nat
      /\ MaxProbes(config) \in Nat
  BY LimitTypes, PortsType, LenProperties DEF ListInvariant
<1>2. Len(hosts) * Len(Ports(config)) \in Nat
  BY <1>1
<1>3. n \in Nat /\ n <= MaxProbes(config)
  BY <1>1, <1>2 DEF Lesser
<1>4. Len(Tasks) = n
  <2> HIDE DEF n
  <2>1. Tasks = [i \in 1 .. n |->
                   <<hosts[1 + ((i - 1) \div Len(Ports(config)))],
                     Ports(config)[1 + ((i - 1) % Len(Ports(config)))]>>]
    BY DEF Tasks, n
  <2> QED
    BY <1>3, <2>1
<1> QED
  BY <1>3, <1>4

-----------------------------------------------------------------------------
(* The steps.                                                              *)

(* Every step keeps what is listed.                                        *)
LEMMA ListStep ==
  ASSUME ListInvariant, [Next]_vars
  PROVE  ListInvariant'
<1>1. CASE AddHost
  <2>1. /\ left # <<>> /\ Add(Head(left)) /\ left' = Tail(left)
        /\ UNCHANGED <<config, networks>>
    BY <1>1 DEF AddHost
  <2>2. Head(left) \in Hosts /\ Tail(left) \in Seq(Hosts)
    BY <2>1, HeadTailProperties DEF ListInvariant
  <2>3. /\ hosts' \in Seq(Hosts) /\ Len(hosts') <= MaxHosts(config')
        /\ \A i, j \in DOMAIN hosts' : hosts'[i] = hosts'[j] => i = j
    BY <2>1, <2>2, AddFacts
  <2> QED
    BY <2>1, <2>2, <2>3 DEF ListInvariant
<1>2. CASE NextNetwork
  <2>1. /\ UNCHANGED <<config, hosts>> /\ networks # <<>>
        /\ \/ UNCHANGED <<left, networks>>
           \/ left' = FirstAddresses(Head(networks)) /\ networks' = Tail(networks)
    BY <1>2 DEF NextNetwork
  <2>2. Head(networks) \in NetworkType /\ Tail(networks) \in Seq(NetworkType)
    BY <2>1, HeadTailProperties DEF ListInvariant
  <2>3. FirstAddresses(Head(networks)) \in Seq(Hosts)
    BY <2>2, AddressesType DEF ListInvariant
  <2> QED
    BY <2>1, <2>2, <2>3 DEF ListInvariant, MaxHosts
<1>3. CASE EndHosts \/ StartProbe \/ Finish \/ UNCHANGED vars
  <2>1. UNCHANGED <<config, hosts, left, networks>>
    BY <1>3 DEF EndHosts, StartProbe, Finish, vars, listing
  <2> QED
    BY <2>1 DEF ListInvariant, MaxHosts
<1>4. CASE (\E t \in running : EndProbe(t)) \/ Collecting
  <2>1. UNCHANGED <<config, hosts, left, networks>>
    BY <1>4 DEF EndProbe, Collecting, Collect, listing
  <2> QED
    BY <2>1 DEF ListInvariant, MaxHosts
<1> QED
  BY <1>1, <1>2, <1>3, <1>4 DEF Next, Listing, Probing

(* Every step keeps the pool.                                              *)
LEMMA PoolStep ==
  ASSUME ListInvariant, PoolInvariant, [Next]_vars
  PROVE  PoolInvariant'
<1>0. config \in Configs /\ MaxWorkers(config, Len(tasks)) \in Nat
  BY LimitTypes DEF ListInvariant, PoolInvariant
<1>1. CASE AddHost \/ NextNetwork \/ Finish \/ Collecting \/ UNCHANGED vars
  <2>1. /\ UNCHANGED <<config, tasks, started, running>>
        /\ phase' = "hosts" => phase = "hosts"
    BY <1>1 DEF AddHost, NextNetwork, Finish, Collecting, Collect, vars, pool
  <2> QED
    BY <2>1 DEF PoolInvariant, MaxProbes, MaxWorkers
<1>2. CASE EndHosts
  <2>1. /\ phase = "hosts" /\ phase' # "hosts" /\ tasks' = Tasks
        /\ UNCHANGED <<config, started, running>>
    BY <1>2 DEF EndHosts, pool
  <2>2. Len(tasks') \in Nat /\ Len(tasks') <= MaxProbes(config')
    BY <2>1, TaskCount DEF MaxProbes
  <2>3. MaxWorkers(config', Len(tasks')) \in Nat
    BY <1>0, <2>1, <2>2, LimitTypes
  <2>4. running' = {} /\ IsFiniteSet({}) /\ Cardinality({}) = 0
    BY <2>1, FS_EmptySet DEF PoolInvariant
  <2> QED
    BY <2>1, <2>2, <2>3, <2>4 DEF PoolInvariant
<1>3. CASE StartProbe
  <2>1. /\ started' = started + 1 /\ running' = running \union {started + 1}
        /\ Cardinality(running) < MaxWorkers(config, Len(tasks))
        /\ phase = "probe" /\ UNCHANGED <<config, phase, tasks>>
    BY <1>3 DEF StartProbe
  <2>2. started + 1 \notin running
    BY DEF PoolInvariant
  <2>3. /\ IsFiniteSet(running')
        /\ Cardinality(running') = Cardinality(running) + 1
    BY <2>1, <2>2, FS_AddElement DEF PoolInvariant
  <2>4. Cardinality(running) \in Nat
    BY FS_CardinalityType DEF PoolInvariant
  <2> QED
    BY <1>0, <2>1, <2>3, <2>4 DEF PoolInvariant, MaxProbes, MaxWorkers
<1>4. ASSUME NEW t \in running, EndProbe(t) PROVE PoolInvariant'
  <2>1. running' = running \ {t} /\ UNCHANGED <<config, phase, tasks, started>>
    BY <1>4 DEF EndProbe
  <2>2. /\ IsFiniteSet(running')
        /\ Cardinality(running') = Cardinality(running) - 1
    BY <2>1, FS_RemoveElement DEF PoolInvariant
  <2>3. Cardinality(running) \in Nat
    BY FS_CardinalityType DEF PoolInvariant
  <2> QED
    BY <1>0, <2>1, <2>2, <2>3 DEF PoolInvariant, MaxProbes, MaxWorkers
<1> QED
  BY <1>1, <1>2, <1>3, <1>4 DEF Next, Listing, Probing

-----------------------------------------------------------------------------
(* Types.                                                                  *)

(* Nothing is probed before the hosts are listed or after the scan.        *)
TypeInvariant ==
  /\ TypeOK
  /\ phase = "hosts" => tasks = <<>> /\ started = 0
  /\ phase # "probe" => running = {} /\ finished = {}

(* Quotient and remainder.                                                 *)
LEMMA DivMod ==
  ASSUME NEW a \in Nat, NEW b \in Nat \ {0}
  PROVE  /\ a \div b \in Int /\ a % b \in 0 .. b - 1
         /\ a = b * (a \div b) + (a % b)
OBVIOUS

(* A task is a host of the list and one of the ports.                      *)
LEMMA TasksType ==
  ASSUME ListInvariant
  PROVE  /\ Tasks \in Seq(Hosts \X PortNumbers)
         /\ \A i \in DOMAIN Tasks :
              IsPort(Tasks[i][2]) \/ Tasks[i][2] = config.port
<1> DEFINE ports == Ports(config)
           n == Lesser(Len(hosts) * Len(ports), MaxProbes(config))
           host(i) == 1 + ((i - 1) \div Len(ports))
           port(i) == 1 + ((i - 1) % Len(ports))
<1>1. /\ hosts \in Seq(Hosts) /\ ports \in Seq(PortNumbers) /\ MaxProbes(config) \in Nat
      /\ \A k \in DOMAIN ports : IsPort(ports[k]) \/ ports[k] = config.port
  BY PortsType, LimitTypes DEF ListInvariant
<1>2. Tasks = [i \in 1 .. n |-> <<hosts[host(i)], ports[port(i)]>>]
  BY DEF Tasks
<1> HIDE DEF ports
<1>3. /\ Len(hosts) \in Nat /\ Len(ports) \in Nat
      /\ Len(hosts) * Len(ports) \in Nat
      /\ n \in Nat /\ n <= Len(hosts) * Len(ports)
  BY <1>1 DEF Lesser
<1> HIDE DEF n
<1>4. ASSUME NEW i \in 1 .. n
      PROVE  host(i) \in 1 .. Len(hosts) /\ port(i) \in 1 .. Len(ports)
  <2>1. Len(ports) # 0
    BY <1>3
  <2>2. PICK q \in Int, r \in Int :
          /\ q = (i - 1) \div Len(ports) /\ r = (i - 1) % Len(ports)
          /\ i - 1 = Len(ports) * q + r /\ 0 <= r /\ r < Len(ports)
    <3>1. i - 1 \in Nat /\ Len(ports) \in Nat \ {0}
      BY <1>3, <2>1
    <3>2. /\ (i - 1) \div Len(ports) \in Int
          /\ (i - 1) % Len(ports) \in 0 .. Len(ports) - 1
          /\ i - 1 = Len(ports) * ((i - 1) \div Len(ports)) + ((i - 1) % Len(ports))
      BY <3>1, DivMod
    <3>3. PICK q \in Int : q = (i - 1) \div Len(ports)
      BY <3>2
    <3>4. PICK r \in Int : r = (i - 1) % Len(ports)
      BY <3>2
    <3>5. i - 1 = Len(ports) * q + r /\ 0 <= r /\ r < Len(ports)
      BY <3>1, <3>2, <3>3, <3>4
    <3> QED
      BY <3>3, <3>4, <3>5
  <2>3. q >= 0
    <3> SUFFICES ASSUME q <= -1 PROVE FALSE
      BY <2>2
    <3>1. Len(ports) * q <= Len(ports) * (-1)
      BY <1>3, <2>1, <2>2
    <3> QED
      BY <1>3, <2>2, <3>1
  <2>4. q < Len(hosts)
    <3> SUFFICES ASSUME q >= Len(hosts) PROVE FALSE
      BY <1>3, <2>2
    <3>1. PICK d \in Nat : q = Len(hosts) + d
      BY <1>3, <2>2, q - Len(hosts) \in Nat
    <3>2. Len(ports) * q = Len(hosts) * Len(ports) + Len(ports) * d
          /\ Len(ports) * d \in Nat
      BY <1>3, <3>1
    <3> QED
      BY <1>3, <2>2, <3>2
  <2> QED
    BY <1>3, <2>2, <2>3, <2>4
<1>5. ASSUME NEW i \in 1 .. n
      PROVE  /\ Tasks[i] \in Hosts \X PortNumbers
             /\ IsPort(Tasks[i][2]) \/ Tasks[i][2] = config.port
  <2>1. hosts[host(i)] \in Hosts /\ ports[port(i)] \in PortNumbers
    BY <1>1, <1>4, ElementOfSeq
  <2>2. IsPort(ports[port(i)]) \/ ports[port(i)] = config.port
    BY <1>1, <1>4, LenProperties
  <2>3. Tasks[i] = <<hosts[host(i)], ports[port(i)]>>
    BY <1>2
  <2> HIDE DEF host, port
  <2> QED
    BY <2>1, <2>2, <2>3
<1>6. Tasks \in Seq(Hosts \X PortNumbers) /\ DOMAIN Tasks = 1 .. n
  <2>1. DOMAIN Tasks = 1 .. n /\ Tasks = [i \in 1 .. n |-> Tasks[i]]
    BY <1>2
  <2> QED
    BY <1>3, <1>5, <2>1
<1> QED
  BY <1>5, <1>6

(* The steps keep the types, and each task in its place.                   *)
LEMMA TypeStep ==
  ASSUME ListInvariant, TypeInvariant, [Next]_vars
  PROVE  TypeInvariant'
<1>1. CASE AddHost
  <2>1. /\ left # <<>> /\ Add(Head(left)) /\ left' = Tail(left)
        /\ UNCHANGED <<config, phase, tasks, started, running, finished>>
    BY <1>1 DEF AddHost, pool
  <2>2. Head(left) \in Hosts /\ Tail(left) \in Seq(Hosts)
    BY <2>1, HeadTailProperties DEF TypeInvariant, TypeOK
  <2>3. hosts' \in Seq(Hosts)
    BY <2>1, <2>2, AddFacts
  <2> QED
    BY <2>1, <2>2, <2>3 DEF TypeInvariant, TypeOK
<1>2. CASE NextNetwork
  <2>1. /\ UNCHANGED <<config, hosts, tasks, started, running, finished>>
        /\ phase = "hosts" /\ phase' \in {"hosts", "failed"} /\ networks # <<>>
        /\ left' \in {left, FirstAddresses(Head(networks))}
    BY <1>2 DEF NextNetwork, pool
  <2>2. Head(networks) \in NetworkType
    BY <2>1, HeadTailProperties DEF ListInvariant
  <2>3. FirstAddresses(Head(networks)) \in Seq(Hosts)
    BY <2>2, AddressesType DEF ListInvariant
  <2> QED
    BY <2>1, <2>3 DEF TypeInvariant, TypeOK
<1>3. CASE EndHosts
  <2>1. /\ phase = "hosts" /\ phase' \in {"done", "probe"} /\ tasks' = Tasks
        /\ UNCHANGED <<config, hosts, left, started, running, finished>>
    BY <1>3 DEF EndHosts, pool, listing
  <2>2. /\ tasks' \in Seq(Hosts \X PortNumbers)
        /\ \A i \in DOMAIN tasks' :
             IsPort(tasks'[i][2]) \/ tasks'[i][2] = config.port
    BY <2>1, TasksType
  <2>3. started = 0 /\ running = {} /\ finished = {} /\ 0 \in 0 .. Len(tasks')
    BY <2>1, <2>2 DEF TypeInvariant
  <2> QED
    BY <2>1, <2>2, <2>3 DEF TypeInvariant, TypeOK
<1>4. CASE StartProbe
  <2>1. /\ phase = "probe" /\ started < Len(tasks) /\ started' = started + 1
        /\ running' = running \union {started + 1}
        /\ UNCHANGED <<config, phase, hosts, left, tasks, finished>>
    BY <1>4 DEF StartProbe, listing
  <2>2. started \in Nat /\ Len(tasks) \in Nat
    BY DEF TypeInvariant, TypeOK
  <2>3. started' \in 0 .. Len(tasks) /\ running' \subseteq 1 .. started'
    <3>1. started \in 0 .. Len(tasks) /\ running \subseteq 1 .. started
      BY DEF TypeInvariant, TypeOK
    <3>2. 1 .. started \subseteq 1 .. started' /\ started' \in 1 .. started'
      BY <2>1, <2>2
    <3> QED
      BY <2>1, <2>2, <3>1, <3>2
  <2>4. ASSUME NEW r \in finished'
        PROVE  /\ r.task \in (1 .. started') \ running'
               /\ r.board \in Boards \union {None}
    <3>1. r.task \in (1 .. started) \ running /\ r.board \in Boards \union {None}
      BY <2>1 DEF TypeInvariant, TypeOK
    <3> QED
      BY <2>1, <2>2, <3>1
  <2> QED
    BY <2>1, <2>3, <2>4 DEF TypeInvariant, TypeOK
<1>5. ASSUME NEW t \in running, EndProbe(t) PROVE TypeInvariant'
  <2>1. /\ running' = running \ {t}
        /\ UNCHANGED <<config, phase, hosts, left, tasks, started>>
    BY <1>5 DEF EndProbe, listing
  <2>2. PICK board \in ProbeResults(t) :
          finished' = finished \union {[task |-> t, board |-> board]}
    BY <1>5 DEF EndProbe
  <2>3. board \in Boards \union {None}
    BY HomeAssumption DEF ProbeResults
  <2>4. phase = "probe" /\ t \in 1 .. started
    BY DEF TypeInvariant, TypeOK
  <2>5. ASSUME NEW r \in finished'
        PROVE  /\ r.task \in (1 .. started') \ running'
               /\ r.board \in Boards \union {None}
    <3>1. CASE r \in finished
      BY <2>1, <3>1 DEF TypeInvariant, TypeOK
    <3>2. CASE r = [task |-> t, board |-> board]
      BY <2>1, <2>3, <2>4, <3>2
    <3> QED
      BY <2>2, <3>1, <3>2
  <2> QED
    BY <2>1, <2>4, <2>5 DEF TypeInvariant, TypeOK
<1>6. ASSUME NEW r \in finished, Collect(r) PROVE TypeInvariant'
  <2>1. /\ finished' = finished \ {r}
        /\ UNCHANGED <<config, phase, hosts, left, tasks, started, running>>
    BY <1>6 DEF Collect, listing
  <2> QED
    BY <2>1 DEF TypeInvariant, TypeOK
<1>7. CASE Finish
  <2>1. /\ phase' = "done" /\ running = {} /\ finished = {}
        /\ UNCHANGED <<config, hosts, left, tasks, started, running, finished>>
    BY <1>7 DEF Finish, listing, pool
  <2> QED
    BY <2>1 DEF TypeInvariant, TypeOK
<1>8. CASE UNCHANGED vars
  BY <1>8 DEF TypeInvariant, TypeOK, vars, listing, pool
<1> QED
  BY <1>1, <1>2, <1>3, <1>4, <1>5, <1>6, <1>7, <1>8
  DEF Next, Listing, Probing, Collecting

(* The first list is empty, and nothing runs.                              *)
LEMMA ScanBegins ==
  ASSUME Init
  PROVE  ListInvariant /\ PoolInvariant /\ TypeInvariant
<1>1. /\ config \in Configs /\ Explicit(config) \in Seq(Hosts)
      /\ config.networks \in Seq(NetworkType)
  BY ConfigAssumption DEF Init, NetworkType
<1>2. /\ MaxHosts(config) \in Nat /\ MaxProbes(config) \in Nat
      /\ MaxWorkers(config, 0) \in Nat
  BY <1>1, LimitTypes
<1>3. IsFiniteSet({}) /\ Cardinality({}) = 0
  BY FS_EmptySet
<1>4. /\ hosts = <<>> /\ left = Explicit(config) /\ networks = config.networks
      /\ tasks = <<>> /\ started = 0 /\ running = {} /\ finished = {}
      /\ phase \in {"hosts", "done"}
  BY DEF Init
<1>5. ListInvariant /\ PoolInvariant
  BY <1>1, <1>2, <1>3, <1>4 DEF ListInvariant, PoolInvariant
<1>6. TypeInvariant
  BY <1>1, <1>4 DEF TypeInvariant, TypeOK
<1> QED
  BY <1>5, <1>6

(* The types hold in every state: every task is a listed host and a port   *)
(* that is valid or the configured one, and every result has its task.     *)
THEOREM ScanTypes == Spec => []TypeOK
<1>1. Init => ListInvariant /\ TypeInvariant
  BY ScanBegins
<1>2. ListInvariant /\ TypeInvariant /\ [Next]_vars
        => (ListInvariant /\ TypeInvariant)'
  BY ListStep, TypeStep
<1>3. TypeInvariant => TypeOK
  BY DEF TypeInvariant
<1> QED
  BY <1>1, <1>2, <1>3, PTL DEF Spec

(* Whatever the section says and in whatever order the probes end, a scan  *)
(* keeps to its limits and lists no host twice.                            *)
THEOREM ScanIsBounded == Spec => []CapsHeld
<1>1. Init => ListInvariant /\ PoolInvariant
  BY ScanBegins
<1>2. ListInvariant /\ PoolInvariant /\ [Next]_vars
        => (ListInvariant /\ PoolInvariant)'
  BY ListStep, PoolStep
<1>3. ListInvariant /\ PoolInvariant => CapsHeld
  BY DEF ListInvariant, PoolInvariant, CapsHeld
<1> QED
  BY <1>1, <1>2, <1>3, PTL DEF Spec

-----------------------------------------------------------------------------
(* Results.                                                                *)

Endpoint == [at : Hosts \X PortNumbers, board : Boards]

SameBoard(e) == \E f \in endpoints : Identity(f) = Identity(e)

Waiting(e) ==
  \E r \in finished : tasks[r.task] = e.at /\ r.board = e.board

(* Every answer is in the results, as itself or as another one of the same *)
(* identity, or waits to be collected; and nothing else is.                *)
ResultInvariant ==
  /\ answered \subseteq Endpoint
  /\ \A e \in answered : e.at \in DOMAIN Home /\ e.board = Home[e.at]
  /\ endpoints \subseteq answered
  /\ IsFiniteSet(endpoints)
  /\ \A e, f \in endpoints : Identity(e) = Identity(f) => e = f
  /\ \A e \in answered : SameBoard(e) \/ Waiting(e)
  /\ \A r \in finished :
       r.board # None => [at |-> tasks[r.task], board |-> r.board] \in answered
  /\ phase = "hosts" => answered = {} /\ found = <<>>
  /\ phase = "done" => AnswersKept

(* The address of an answer tells which board it is.                       *)
LEMMA OneAnswerPerAddress ==
  ASSUME ResultInvariant, NEW e \in answered, NEW f \in answered, e.at = f.at
  PROVE  e = f
<1>1. e \in Endpoint /\ f \in Endpoint /\ e.board = f.board
  BY DEF ResultInvariant
<1> QED
  BY <1>1 DEF Endpoint

(* An identity is the board, or the address of a board without a uuid.     *)
LEMMA IdentityFacts ==
  ASSUME ResultInvariant, NEW e \in answered, NEW f \in answered,
         Identity(e) = Identity(f)
  PROVE  e.board = f.board /\ (e.board \in Anonymous => e = f)
<1>1. CASE e.board \in Anonymous
  <2>1. Identity(e) = <<"endpoint", e.at>>
    BY <1>1 DEF Identity
  <2>2. f.board \in Anonymous /\ e.at = f.at
    BY <2>1 DEF Identity
  <2> QED
    BY <2>2, OneAnswerPerAddress
<1>2. CASE e.board \notin Anonymous
  <2>1. Identity(e) = <<"uuid", e.board>>
    BY <1>2 DEF Identity
  <2> QED
    BY <1>2, <2>1 DEF Identity
<1> QED
  BY <1>1, <1>2

(* The endpoints kept can be put in the order of their keys.               *)
LEMMA KeysInOrder ==
  ASSUME ResultInvariant
  PROVE  StrictOrder(endpoints,
           {m \in endpoints \X endpoints : KeyBefore(m[1], m[2])})
<1> DEFINE before == {m \in endpoints \X endpoints : KeyBefore(m[1], m[2])}
<1>1. ASSUME NEW e \in endpoints
      PROVE  e.at \in Hosts \X PortNumbers /\ KeyOrder[e.at] \in Int
  <2>1. e \in Endpoint
    BY DEF ResultInvariant
  <2> QED
    BY <2>1, KeyAssumption DEF Endpoint
<1>2. \A e, f \in endpoints :
        <<e, f>> \in before <=> KeyOrder[e.at] < KeyOrder[f.at]
  BY DEF KeyBefore
<1>3. ASSUME NEW e \in endpoints, NEW f \in endpoints,
             KeyOrder[e.at] = KeyOrder[f.at]
      PROVE  e = f
  <2>1. e.at = f.at
    BY <1>1, <1>3, KeyAssumption DEF IsInjective
  <2> QED
    BY <2>1, OneAnswerPerAddress DEF ResultInvariant
<1> HIDE DEF before
<1>4. \A e \in endpoints : <<e, e>> \notin before
  BY <1>1, <1>2
<1>5. \A e, f, g \in endpoints :
        <<e, f>> \in before /\ <<f, g>> \in before => <<e, g>> \in before
  BY <1>1, <1>2
<1>6. ASSUME NEW e \in endpoints, NEW f \in endpoints
      PROVE  e = f \/ <<e, f>> \in before \/ <<f, e>> \in before
  <2>1. KeyOrder[e.at] \in Int /\ KeyOrder[f.at] \in Int
    BY <1>1
  <2>2. \/ KeyOrder[e.at] = KeyOrder[f.at]
        \/ KeyOrder[e.at] < KeyOrder[f.at] \/ KeyOrder[f.at] < KeyOrder[e.at]
    BY <2>1
  <2> QED
    BY <1>2, <1>3, <2>2
<1> QED
  BY <1>4, <1>5, <1>6 DEF StrictOrder, before

(* What Finish returns keeps the answers.                                  *)
LEMMA FinishKeeps ==
  ASSUME ResultInvariant, Finish
  PROVE  AnswersKept'
<1> DEFINE before == {m \in endpoints \X endpoints : KeyBefore(m[1], m[2])}
           s == InOrder(endpoints, before)
           n == Cardinality(endpoints)
<1>1. found' = s /\ answered' = answered /\ finished = {}
  BY DEF Finish
<1>2. IsFiniteSet(endpoints) /\ StrictOrder(endpoints, before)
  BY KeysInOrder DEF ResultInvariant
<1>3. \A e, f \in endpoints : <<e, f>> \in before => KeyBefore(e, f)
  OBVIOUS
<1>4. /\ n \in Nat /\ DOMAIN s = 1 .. n /\ Len(s) = n
      /\ \A k \in 1 .. n : s[k] \in endpoints
      /\ \A e \in endpoints : \E k \in 1 .. n : s[k] = e
      /\ \A i, j \in 1 .. n : i < j => <<s[i], s[j]>> \in before
  <2> HIDE DEF before
  <2>1. /\ s \in Seq(endpoints) /\ Len(s) = n /\ DOMAIN s = 1 .. n
        /\ \A k \in 1 .. n : s[k] \in endpoints
        /\ \A e \in endpoints : \E k \in 1 .. n : s[k] = e
        /\ \A i, j \in 1 .. n : i < j => <<s[i], s[j]>> \in before
    BY ONLY <1>2, InOrderFacts
  <2>2. n \in Nat
    BY <1>2, FS_CardinalityType
  <2> QED
    BY <2>1, <2>2
<1> HIDE DEF before, s, n
<1>5. ToSet(s) = endpoints
  BY <1>4 DEF ToSet
<1>6. \A e \in answered : \E f \in endpoints : Identity(f) = Identity(e)
  BY <1>1 DEF ResultInvariant, SameBoard, Waiting
<1>7. endpoints \subseteq answered
  BY DEF ResultInvariant
<1>8. ASSUME NEW e \in answered
      PROVE  IF e.board \in Anonymous THEN e \in ToSet(s)
             ELSE \E i \in DOMAIN s : s[i].board = e.board
  <2>1. PICK f \in endpoints : Identity(f) = Identity(e)
    BY <1>6
  <2>2. f.board = e.board /\ (f.board \in Anonymous => f = e)
    BY <1>7, <2>1, IdentityFacts
  <2> QED
    BY <1>4, <1>5, <2>2
<1>9. ASSUME NEW i \in 1 .. n, NEW j \in 1 .. n, i < j
      PROVE  /\ KeyBefore(s[i], s[j])
             /\ s[i].board = s[j].board => s[i].board \in Anonymous
  <2>1. s[i] \in endpoints /\ s[j] \in endpoints /\ <<s[i], s[j]>> \in before
    BY <1>4, <1>9
  <2>2. s[i] # s[j]
    BY <1>2, <2>1 DEF StrictOrder
  <2>3. Identity(s[i]) # Identity(s[j])
    BY <2>1, <2>2 DEF ResultInvariant
  <2> QED
    BY <1>3, <2>1, <2>3 DEF Identity
<1>10. \A i, j \in DOMAIN s :
         s[i].board = s[j].board => i = j \/ s[i].board \in Anonymous
  <2> SUFFICES ASSUME NEW i \in 1 .. n, NEW j \in 1 .. n,
                      s[i].board = s[j].board, i # j
               PROVE  s[i].board \in Anonymous
    BY <1>4
  <2>1. i < j \/ j < i
    BY <1>4
  <2> QED
    BY <1>9, <2>1
<1>11. IsSorted(s, KeyBefore)
  BY <1>4, <1>9 DEF IsSorted
<1> QED
  BY <1>1, <1>5, <1>7, <1>8, <1>10, <1>11 DEF AnswersKept

(* Every step keeps the account of the answers.                            *)
LEMMA ResultStep ==
  ASSUME ListInvariant, TypeInvariant, ResultInvariant, [Next]_vars
  PROVE  ResultInvariant'
<1>1. CASE AddHost \/ NextNetwork
  <2>1. /\ UNCHANGED <<tasks, finished, endpoints, found, answered>>
        /\ phase = "hosts" /\ phase' \in {"hosts", "failed"}
    BY <1>1 DEF AddHost, NextNetwork, pool, results
  <2> QED
    BY <2>1 DEF ResultInvariant, SameBoard, Waiting
<1>2. CASE EndHosts
  <2>1. /\ phase = "hosts" /\ phase' \in {"done", "probe"}
        /\ UNCHANGED <<finished, endpoints, found, answered>>
    BY <1>2 DEF EndHosts, pool, results
  <2>2. answered = {} /\ finished = {} /\ endpoints = {}
    BY <2>1 DEF ResultInvariant, TypeInvariant
  <2>3. found = <<>>
    BY <2>1 DEF ResultInvariant
  <2> QED
    BY <2>1, <2>2, <2>3 DEF ResultInvariant, SameBoard, Waiting, AnswersKept, IsSorted, ToSet
<1>3. CASE StartProbe
  <2>1. UNCHANGED <<phase, tasks, finished, endpoints, found, answered>>
        /\ phase = "probe"
    BY <1>3 DEF StartProbe, results
  <2> QED
    BY <2>1 DEF ResultInvariant, SameBoard, Waiting
<1>4. ASSUME NEW t \in running, EndProbe(t) PROVE ResultInvariant'
  <2>1. phase = "probe" /\ UNCHANGED <<phase, tasks, endpoints, found>>
    BY <1>4 DEF EndProbe, TypeInvariant
  <2>2. PICK board \in ProbeResults(t) :
          /\ finished' = finished \union {[task |-> t, board |-> board]}
          /\ answered' = IF board = None THEN answered
                         ELSE answered \union {[at |-> tasks[t], board |-> board]}
    BY <1>4 DEF EndProbe
  <2>3. CASE board = None
    <3>1. answered' = answered
      BY <2>2, <2>3
    <3>2. \A r \in finished' : r.board # None => r \in finished
      BY <2>2, <2>3
    <3>3. finished \subseteq finished'
      BY <2>2
    <3> QED
      BY <2>1, <3>1, <3>2, <3>3 DEF ResultInvariant, SameBoard, Waiting
  <2>4. CASE board # None
    <3> DEFINE new == [at |-> tasks[t], board |-> board]
               r == [task |-> t, board |-> board]
    <3>1. answered' = answered \union {new} /\ finished' = finished \union {r}
      BY <2>2, <2>4
    <3>2. tasks[t] \in DOMAIN Home /\ board = Home[tasks[t]]
      BY <2>4 DEF ProbeResults
    <3>3. tasks[t] \in Hosts \X PortNumbers /\ board \in Boards
      <4>1. tasks \in Seq(Hosts \X PortNumbers) /\ t \in 1 .. started
        BY DEF TypeInvariant, TypeOK
      <4>2. started \in 0 .. Len(tasks) /\ Len(tasks) \in Nat
        BY <4>1, LenProperties DEF TypeInvariant, TypeOK
      <4>3. t \in 1 .. Len(tasks)
        BY <4>1, <4>2
      <4> QED
        BY <3>2, <4>1, <4>3, HomeAssumption, ElementOfSeq
    <3>4. /\ new \in Endpoint /\ new.at = tasks[t] /\ new.board = board
          /\ r.task = t /\ r.board = board
      BY <3>3 DEF Endpoint
    <3> HIDE DEF new, r
    <3>5. answered' \subseteq Endpoint
      BY <3>1, <3>4 DEF ResultInvariant
    <3>6. \A e \in answered' : e.at \in DOMAIN Home /\ e.board = Home[e.at]
      BY <3>1, <3>2, <3>4 DEF ResultInvariant
    <3>7. \A e \in answered' : SameBoard(e)' \/ Waiting(e)'
      BY <2>1, <3>1, <3>4 DEF ResultInvariant, SameBoard, Waiting
    <3>8. \A q \in finished' :
            q.board # None => [at |-> tasks[q.task], board |-> q.board] \in answered'
      BY <3>1, <3>4 DEF ResultInvariant, new
    <3> QED
      BY <2>1, <3>1, <3>5, <3>6, <3>7, <3>8 DEF ResultInvariant
  <2> QED
    BY <2>3, <2>4
<1>5. ASSUME NEW r \in finished, Collect(r) PROVE ResultInvariant'
  <2> DEFINE e == [at |-> tasks[r.task], board |-> r.board]
  <2>1. /\ phase = "probe"
        /\ finished' = finished \ {r}
        /\ UNCHANGED <<phase, tasks, found, answered>>
    BY <1>5 DEF Collect, TypeInvariant
  <2>2. endpoints' =
          IF r.board = None \/ \E f \in endpoints : Identity(f) = Identity(e)
            THEN endpoints ELSE endpoints \union {e}
    BY <1>5 DEF Collect
  <2>3. e.at = tasks[r.task] /\ e.board = r.board
    OBVIOUS
  <2>4. r.board # None => e \in answered
    BY DEF ResultInvariant
  <2> HIDE DEF e
  <2>5. endpoints \subseteq endpoints' /\ endpoints' \subseteq answered
    BY <2>2, <2>4 DEF ResultInvariant
  <2>6. r.board # None => \E f \in endpoints' : Identity(f) = Identity(e)
    BY <2>2
  <2>7. ASSUME NEW g \in answered PROVE SameBoard(g)' \/ Waiting(g)'
    <3>1. CASE SameBoard(g)
      BY <2>5, <3>1 DEF SameBoard
    <3>2. CASE tasks[r.task] = g.at /\ r.board = g.board
      <4>1. r.board \in Boards /\ g \in Endpoint
        BY <3>2 DEF ResultInvariant, Endpoint
      <4>2. r.board # None
        BY <4>1, NoneAssumption
      <4>3. e = g
        BY <2>3, <2>4, <3>2, <4>2, OneAnswerPerAddress
      <4> QED
        BY <2>6, <4>2, <4>3 DEF SameBoard
    <3>3. CASE Waiting(g) /\ ~(tasks[r.task] = g.at /\ r.board = g.board)
      BY <2>1, <3>3 DEF Waiting
    <3> QED
      BY <3>1, <3>2, <3>3 DEF ResultInvariant
  <2>8. IsFiniteSet(endpoints')
    BY <2>2, FS_AddElement DEF ResultInvariant
  <2>9. \A f, g \in endpoints' : Identity(f) = Identity(g) => f = g
    BY <2>2 DEF ResultInvariant
  <2> QED
    BY <2>1, <2>5, <2>7, <2>8, <2>9 DEF ResultInvariant
<1>6. CASE Finish
  <2>1. AnswersKept'
    BY <1>6, FinishKeeps
  <2>2. UNCHANGED <<tasks, finished, endpoints, answered>> /\ phase' = "done"
    BY <1>6 DEF Finish, pool
  <2> QED
    BY <2>1, <2>2 DEF ResultInvariant, SameBoard, Waiting
<1>7. CASE UNCHANGED vars
  BY <1>7 DEF ResultInvariant, SameBoard, Waiting, AnswersKept, vars, pool, results
<1> QED
  BY <1>1, <1>2, <1>3, <1>4, <1>5, <1>6, <1>7
  DEF Next, Listing, Probing, Collecting

(* At first nobody has answered.                                           *)
LEMMA ResultBegins ==
  ASSUME Init
  PROVE  ResultInvariant
<1>1. endpoints = {} /\ found = <<>> /\ answered = {} /\ finished = {}
  BY DEF Init
<1>2. AnswersKept
  BY <1>1 DEF AnswersKept, IsSorted, ToSet
<1> QED
  BY <1>1, <1>2, FS_EmptySet DEF ResultInvariant

(* In whatever order the probes end, what a scan returns has each board    *)
(* that answered, once, at an address it answered at (each address of one  *)
(* without a uuid), in the order of the keys.                              *)
THEOREM ScanKeepsAnswers == Spec => []AnswersKept
<1>1. Init => ListInvariant /\ TypeInvariant
  BY ScanBegins
<1>2. Init => ResultInvariant
  BY ResultBegins
<1>3. ListInvariant /\ TypeInvariant /\ ResultInvariant /\ [Next]_vars
        => (ListInvariant /\ TypeInvariant /\ ResultInvariant)'
  BY ListStep, TypeStep, ResultStep
<1>4. ResultInvariant => AnswersKept
  BY DEF ResultInvariant, AnswersKept
<1> QED
  BY <1>1, <1>2, <1>3, <1>4, PTL DEF Spec

-----------------------------------------------------------------------------
(* The scan implements ScanCall.                                           *)

(* What AnswersKept says of the list is what the caller is promised.       *)
LEMMA KeptIsOneOfEach ==
  ASSUME ResultInvariant, NEW s, ToSet(s) \subseteq answered,
         \A e \in answered :
           IF e.board \in Anonymous THEN e \in ToSet(s)
           ELSE \E i \in DOMAIN s : s[i].board = e.board,
         \A i, j \in DOMAIN s :
           s[i].board = s[j].board => i = j \/ s[i].board \in Anonymous
  PROVE  Promise!OneOfEach(ToSet(s), answered)
<1>1. ASSUME NEW a \in answered PROVE \E k \in ToSet(s) : Promise!Same(k, a)
  <2>1. CASE a.board \in Anonymous
    BY <2>1 DEF Promise!Same
  <2>2. CASE a.board \notin Anonymous
    <3>1. PICK i \in DOMAIN s : s[i].board = a.board
      BY <2>2
    <3>2. s[i] \in ToSet(s)
      BY DEF ToSet
    <3> QED
      BY <2>2, <3>1, <3>2 DEF Promise!Same
  <2> QED
    BY <2>1, <2>2
<1>2. ASSUME NEW k \in ToSet(s), NEW l \in ToSet(s), Promise!Same(k, l)
      PROVE  k = l
  <2>1. PICK i \in DOMAIN s, j \in DOMAIN s : s[i] = k /\ s[j] = l
    BY DEF ToSet
  <2>2. CASE i = j
    BY <2>1, <2>2
  <2>3. CASE k.board \in Anonymous
    BY <1>2, <2>3, OneAnswerPerAddress DEF Promise!Same
  <2> QED
    BY <1>2, <2>1, <2>2, <2>3 DEF Promise!Same
<1> QED
  BY <1>1, <1>2 DEF Promise!OneOfEach

(* Every step of the scan is a step of the promise or a stutter.           *)
LEMMA CallStep ==
  ASSUME ListInvariant, TypeInvariant, ResultInvariant, [Next]_vars
  PROVE  [Promise!CallNext]_(Promise!callVars)
<1>2. CASE NextNetwork /\ phase' = "failed"
  <2>1. phase = "hosts" /\ UNCHANGED <<found, answered>>
    BY <1>2 DEF NextNetwork, results
  <2>2. answered = {}
    BY <2>1 DEF ResultInvariant
  <2>3. Promise!Raise
    BY <1>2, <2>1, <2>2 DEF Promise!Raise
  <2> QED
    BY <2>3 DEF Promise!CallNext
<1>3. CASE EndHosts
  <2>1. /\ phase = "hosts" /\ phase' \in {"done", "probe"}
        /\ UNCHANGED <<found, answered>>
    BY <1>3 DEF EndHosts, results
  <2>2. answered = {} /\ found = <<>>
    BY <2>1 DEF ResultInvariant
  <2>3. ToSet(found) = {}
    BY <2>2 DEF ToSet
  <2>4. Promise!OneOfEach(ToSet(found), answered)
    BY <2>2, <2>3 DEF Promise!OneOfEach
  <2>5. CASE phase' = "done"
    <3>1. Promise!Return
      BY <2>1, <2>4, <2>5 DEF Promise!Return
    <3> QED
      BY <3>1 DEF Promise!CallNext
  <2>6. CASE phase' = "probe"
    BY <2>1, <2>6 DEF Promise!callVars
  <2> QED
    BY <2>1, <2>5, <2>6
<1>4. ASSUME NEW t \in running, EndProbe(t)
      PROVE  [Promise!CallNext]_(Promise!callVars)
  <2>1. phase = "probe" /\ UNCHANGED <<phase, tasks, found>>
    BY <1>4 DEF EndProbe, TypeInvariant
  <2>2. PICK board \in ProbeResults(t) :
          answered' = IF board = None THEN answered
                      ELSE answered \union {[at |-> tasks[t], board |-> board]}
    BY <1>4 DEF EndProbe
  <2> DEFINE e == [at |-> tasks[t], board |-> board]
  <2>3. CASE board = None \/ e \in answered
    BY <2>1, <2>2, <2>3 DEF Promise!callVars
  <2>4. CASE board # None /\ e \notin answered
    <3>1. board \in Boards
      BY <2>4, HomeAssumption DEF ProbeResults
    <3>2. tasks[t] \in Hosts \X PortNumbers
      <4>1. /\ tasks \in Seq(Hosts \X PortNumbers) /\ t \in 1 .. started
            /\ started \in 0 .. Len(tasks)
        BY DEF TypeInvariant, TypeOK
      <4>2. t \in 1 .. Len(tasks)
        BY <4>1, LenProperties
      <4> QED
        BY <4>1, <4>2, ElementOfSeq
    <3>3. e \in [at : Hosts \X PortNumbers, board : Boards]
      BY <3>1, <3>2
    <3> HIDE DEF e
    <3>4. Promise!Hear(e)
      BY <2>1, <2>2, <2>4 DEF Promise!Hear, e
    <3> QED
      BY <3>3, <3>4 DEF Promise!CallNext
  <2> QED
    BY <2>3, <2>4
<1>5. CASE Finish
  <2>1. AnswersKept' /\ phase = "probe" /\ phase' = "done" /\ answered' = answered
    BY <1>5, FinishKeeps DEF Finish
  <2>2. Promise!OneOfEach(ToSet(found'), answered)
    BY <2>1, KeptIsOneOfEach DEF AnswersKept
  <2>3. Promise!Return
    BY <2>1, <2>2 DEF Promise!Return
  <2> QED
    BY <2>3 DEF Promise!CallNext
<1>6. CASE UNCHANGED <<phase, found, answered>>
  BY <1>6 DEF Promise!callVars
<1>7. \/ NextNetwork /\ phase' = "failed"
      \/ EndHosts \/ (\E t \in running : EndProbe(t)) \/ Finish
      \/ UNCHANGED <<phase, found, answered>>
  BY DEF Next, Listing, Probing, Collecting, AddHost, NextNetwork, StartProbe,
     Collect, vars, results
<1> QED
  BY <1>2, <1>3, <1>4, <1>5, <1>6, <1>7

(* A scan implements ScanCall: it returns one answer of each board with a  *)
(* uuid and every other one, and when it raises nobody was probed.         *)
THEOREM ScanKeepsItsPromise == Spec => CallSpec
<1>1. Init => Promise!CallInit
  <2> SUFFICES ASSUME Init PROVE Promise!CallInit
    OBVIOUS
  <2>1. phase \in {"hosts", "done"} /\ found = <<>> /\ answered = {}
    BY DEF Init
  <2>2. ToSet(found) = {}
    BY <2>1 DEF ToSet
  <2> QED
    BY <2>1, <2>2 DEF Promise!CallInit
<1>2. Init => ListInvariant /\ TypeInvariant /\ ResultInvariant
  BY ScanBegins, ResultBegins
<1>3. ListInvariant /\ TypeInvariant /\ ResultInvariant /\ [Next]_vars
        => (ListInvariant /\ TypeInvariant /\ ResultInvariant)'
  BY ListStep, TypeStep, ResultStep
<1>4. ListInvariant /\ TypeInvariant /\ ResultInvariant /\ [Next]_vars
        => [Promise!CallNext]_(Promise!callVars)
  BY CallStep
<1> QED
  BY <1>1, <1>2, <1>3, <1>4, PTL DEF Spec, CallSpec, Promise!CallSpec

-----------------------------------------------------------------------------
(* The list of hosts.                                                      *)

(* The network that is looked at, how many of its addresses are taken, and *)
(* how many of these are looked at.                                        *)
Expanded == Len(config.networks) - Len(networks)
Taken ==
  IF Expanded = 0 THEN Len(Explicit(config))
  ELSE Lesser(Len(config.networks[Expanded].addresses), MaxHosts(config))
Looked == Taken - Len(left)

(* The places that are looked at, or are behind the cut of their network.  *)
Seen == {p \in Places(config, Expanded) : p[1] < Expanded \/ p[2] <= Looked}

(* While hosts are listed: what is left is the rest of the section; below  *)
(* the limit every place seen has its host in the list; and the list is    *)
(* the expected one of the places seen.                                    *)
SeenInvariant ==
  /\ Expanded \in 0 .. Len(config.networks) /\ Looked \in Nat
  /\ \A i \in DOMAIN networks : networks[i] = config.networks[Expanded + i]
  /\ \A i \in DOMAIN left : left[i] = Source(config, Expanded)[Looked + i]
  /\ \A n \in 1 .. Expanded : ~Refused(config, config.networks[n])
  /\ Len(hosts) < MaxHosts(config) =>
       \A p \in Seen : HostAt(config, p) \in ToSet(hosts)
  /\ \A h \in ToSet(hosts) : \E p \in Seen : HostAt(config, p) = h
  /\ ListedAs(hosts, FirstsAmong(config, Seen), config)

HostsInvariant ==
  /\ phase = "hosts" => config.enabled /\ SeenInvariant
  /\ HostsAsListed

(* The first places come before all others.                                *)
Leads(S, T) ==
  /\ S \subseteq T
  /\ \A x \in S, y \in T : y \notin S => Before(x, y) /\ ~Before(y, x)

(* What the section names is a sequence of hosts.                          *)
LEMMA SourceType ==
  ASSUME NEW c \in Configs, NEW n \in 0 .. Len(c.networks)
  PROVE  /\ Source(c, n) \in Seq(Hosts)
         /\ DOMAIN Source(c, n) = 1 .. Len(Source(c, n))
         /\ Len(Source(c, n)) \in Nat
<1>1. Source(c, n) \in Seq(Hosts)
  <2>1. CASE n = 0
    BY <2>1, ConfigAssumption DEF Source
  <2>2. CASE n # 0
    <3>1. c.networks \in Seq(NetworkType)
      BY ConfigAssumption DEF NetworkType
    <3>2. n \in 1 .. Len(c.networks)
      BY <2>2, <3>1
    <3>3. c.networks[n] \in NetworkType
      BY <3>1, <3>2, ElementOfSeq
    <3> QED
      BY <2>2, <3>3 DEF Source, NetworkType
  <2> QED
    BY <2>1, <2>2
<1> QED
  BY <1>1, LenProperties

(* A place is a source and a position in it, and there are finitely many.  *)
LEMMA PlaceFacts ==
  ASSUME NEW c \in Configs, NEW last \in 0 .. Len(c.networks)
  PROVE  /\ IsFiniteSet(Places(c, last))
         /\ \A p \in Places(c, last) :
              /\ p = <<p[1], p[2]>> /\ p[1] \in 0 .. last
              /\ p[2] \in 1 .. Len(Source(c, p[1])) /\ p[2] \in Nat
         /\ \A n \in 0 .. last : \A i \in 1 .. Len(Source(c, n)) :
              <<n, i>> \in Places(c, last)
<1> DEFINE Of(n) == {n} \X DOMAIN Source(c, n)
           Parts == {Of(n) : n \in 0 .. last}
<1>1. Len(c.networks) \in Nat /\ last \in Nat
  BY ConfigAssumption, LenProperties
<1>2. \A n \in 0 .. last : /\ DOMAIN Source(c, n) = 1 .. Len(Source(c, n))
                           /\ Len(Source(c, n)) \in Nat
  BY <1>1, SourceType
<1>3. Places(c, last) = UNION Parts
  BY DEF Places
<1>4. ASSUME NEW n \in 0 .. last PROVE IsFiniteSet(Of(n))
  <2>1. IsFiniteSet({n})
    BY FS_Singleton
  <2>2. IsFiniteSet(DOMAIN Source(c, n))
    BY <1>2, FS_Interval
  <2> QED
    BY <2>1, <2>2, FS_Product
<1>5. IsFiniteSet(Parts)
  <2>1. IsFiniteSet(0 .. last)
    BY <1>1, FS_Interval
  <2> DEFINE f == [n \in 0 .. last |-> Of(n)]
  <2>2. Parts = {f[n] : n \in 0 .. last}
    OBVIOUS
  <2>3. f \in Surjection(0 .. last, Parts)
    BY <2>2 DEF Surjection
  <2> HIDE DEF f, Parts
  <2> QED
    BY <2>1, <2>3, FS_Surjection
<1>6. IsFiniteSet(Places(c, last))
  <2> HIDE DEF Of
  <2> QED
    BY <1>3, <1>4, <1>5, FS_UNION
<1>7. ASSUME NEW p \in Places(c, last)
      PROVE  /\ p = <<p[1], p[2]>> /\ p[1] \in 0 .. last
             /\ p[2] \in 1 .. Len(Source(c, p[1])) /\ p[2] \in Nat
  <2>1. PICK n \in 0 .. last : p \in {n} \X DOMAIN Source(c, n)
    BY DEF Places
  <2>2. p[1] = n /\ p[2] \in DOMAIN Source(c, n) /\ p = <<p[1], p[2]>>
    BY <2>1
  <2> QED
    BY <1>2, <2>2
<1>8. ASSUME NEW n \in 0 .. last, NEW i \in 1 .. Len(Source(c, n))
      PROVE  <<n, i>> \in Places(c, last)
  BY <1>2 DEF Places
<1> QED
  BY <1>6, <1>7, <1>8

(* The firsts of a beginning are a beginning of the firsts.                *)
LEMMA FirstsLead ==
  ASSUME NEW c, NEW S, NEW T, Leads(S, T)
  PROVE  Leads(FirstsAmong(c, S), FirstsAmong(c, T))
BY DEF Leads, FirstsAmong

(* Later places leave the ranks of the first ones as they are.             *)
LEMMA RanksOfBeginning ==
  ASSUME NEW S, NEW T, IsFiniteSet(T), Leads(S, T)
  PROVE  /\ Cardinality(S) \in Nat /\ Cardinality(S) <= Cardinality(T)
         /\ Cardinality(T) \in Nat
         /\ \A x \in S : RankAmong(x, T) = RankAmong(x, S)
         /\ \A y \in T \ S : RankAmong(y, T) \in Nat
                             /\ RankAmong(y, T) >= Cardinality(S)
<1>1. S \in SUBSET T
  BY DEF Leads
<1>2. /\ IsFiniteSet(S) /\ Cardinality(S) \in Nat /\ Cardinality(T) \in Nat
      /\ Cardinality(S) <= Cardinality(T)
  BY <1>1, FS_Subset, FS_CardinalityType
<1>3. ASSUME NEW x \in S PROVE RankAmong(x, T) = RankAmong(x, S)
  <2>1. Below(x, T, Earlier(T)) = Below(x, S, Earlier(S))
    BY DEF Below, Earlier, Leads
  <2> QED
    BY <2>1 DEF RankAmong, Rank
<1>4. ASSUME NEW y \in T \ S
      PROVE  RankAmong(y, T) \in Nat /\ RankAmong(y, T) >= Cardinality(S)
  <2>1. Below(y, T, Earlier(T)) \in SUBSET T
    BY DEF Below
  <2>2. S \in SUBSET Below(y, T, Earlier(T))
    BY DEF Below, Earlier, Leads
  <2>3. IsFiniteSet(Below(y, T, Earlier(T)))
    BY <2>1, FS_Subset
  <2> QED
    BY <1>2, <2>2, <2>3, FS_Subset, FS_CardinalityType DEF RankAmong, Rank
<1> QED
  BY <1>2, <1>3, <1>4

(* A list that is full is the expected one whatever places follow.         *)
LEMMA ListedWhenFull ==
  ASSUME NEW c \in Configs, NEW S, NEW T, IsFiniteSet(T), Leads(S, T),
         NEW listed, ListedAs(listed, S, c), Len(listed) >= MaxHosts(c)
  PROVE  ListedAs(listed, T, c) /\ Cardinality(T) >= MaxHosts(c)
<1>1. /\ Cardinality(S) \in Nat /\ Cardinality(S) <= Cardinality(T)
      /\ Cardinality(T) \in Nat /\ MaxHosts(c) \in Nat
      /\ \A x \in S : RankAmong(x, T) = RankAmong(x, S)
      /\ \A y \in T \ S : RankAmong(y, T) \in Nat
                          /\ RankAmong(y, T) >= Cardinality(S)
  BY RanksOfBeginning, LimitTypes
<1>2. /\ Len(listed) = Lesser(Cardinality(S), MaxHosts(c))
      /\ \A p \in S : RankAmong(p, S) < Len(listed) =>
           listed[RankAmong(p, S) + 1] = HostAt(c, p)
  BY DEF ListedAs
<1>3. Len(listed) = MaxHosts(c) /\ Cardinality(S) >= MaxHosts(c)
  BY <1>1, <1>2 DEF Lesser
<1>4. Len(listed) = Lesser(Cardinality(T), MaxHosts(c))
  BY <1>1, <1>3 DEF Lesser
<1>5. ASSUME NEW p \in T, RankAmong(p, T) < Len(listed)
      PROVE  listed[RankAmong(p, T) + 1] = HostAt(c, p)
  <2>1. p \in S
    BY <1>1, <1>3, <1>5
  <2> QED
    BY <1>1, <1>2, <1>5, <2>1
<1> QED
  BY <1>1, <1>3, <1>4, <1>5 DEF ListedAs

(* Below the limit the list grows by the host of the next first place.     *)
LEMMA ListedNext ==
  ASSUME NEW c \in Configs, NEW S, NEW p, p \notin S, IsFiniteSet(S),
         Leads(S, S \union {p}), \A x \in S \union {p} : ~Before(x, x),
         NEW listed \in Seq(Hosts), HostAt(c, p) \in Hosts,
         ListedAs(listed, S, c), Len(listed) < MaxHosts(c)
  PROVE  ListedAs(Append(listed, HostAt(c, p)), S \union {p}, c)
<1> DEFINE T == S \union {p}
           longer == Append(listed, HostAt(c, p))
<1>1. IsFiniteSet(T) /\ Cardinality(T) = Cardinality(S) + 1
  BY FS_AddElement
<1>2. /\ Cardinality(S) \in Nat /\ MaxHosts(c) \in Nat
      /\ \A x \in S : RankAmong(x, T) = RankAmong(x, S)
  BY <1>1, RanksOfBeginning, LimitTypes
<1>3. /\ Len(listed) = Lesser(Cardinality(S), MaxHosts(c))
      /\ \A q \in S : RankAmong(q, S) < Len(listed) =>
           listed[RankAmong(q, S) + 1] = HostAt(c, q)
  BY DEF ListedAs
<1>4. Len(listed) = Cardinality(S)
  BY <1>2, <1>3 DEF Lesser
<1>5. /\ Len(longer) = Cardinality(S) + 1
      /\ \A i \in 1 .. Cardinality(S) : longer[i] = listed[i]
      /\ longer[Cardinality(S) + 1] = HostAt(c, p)
  BY <1>2, <1>4, AppendProperties
<1>6. ASSUME NEW q \in S
      PROVE  RankAmong(q, S) \in 0 .. Cardinality(S) - 1
  <2>1. /\ Below(q, S, Earlier(S)) \in SUBSET S
        /\ q \notin Below(q, S, Earlier(S))
    BY DEF Below, Earlier
  <2>2. /\ Cardinality(Below(q, S, Earlier(S))) \in Nat
        /\ Cardinality(Below(q, S, Earlier(S))) <= Cardinality(S)
        /\ Cardinality(Below(q, S, Earlier(S))) # Cardinality(S)
    BY <2>1, FS_Subset, FS_CardinalityType
  <2> QED
    BY <1>2, <2>2 DEF RankAmong, Rank
<1>7. RankAmong(p, T) = Cardinality(S)
  <2>1. Below(p, T, Earlier(T)) = S
    BY DEF Below, Earlier, Leads
  <2> QED
    BY <2>1 DEF RankAmong, Rank
<1>8. Len(longer) = Lesser(Cardinality(T), MaxHosts(c))
  BY <1>1, <1>2, <1>4, <1>5 DEF Lesser
<1> HIDE DEF longer
<1>9. ASSUME NEW q \in S PROVE longer[RankAmong(q, T) + 1] = HostAt(c, q)
  <2> DEFINE r == RankAmong(q, S)
  <2>1. r \in 0 .. Cardinality(S) - 1 /\ RankAmong(q, T) = r
    BY <1>2, <1>6
  <2>2. r < Len(listed) => listed[r + 1] = HostAt(c, q)
    BY <1>3
  <2> HIDE DEF r, T
  <2>3. r < Len(listed) /\ r + 1 \in 1 .. Cardinality(S)
    BY <1>2, <1>4, <2>1
  <2> QED
    BY <1>5, <2>1, <2>2, <2>3
<1>10. longer[RankAmong(p, T) + 1] = HostAt(c, p)
  BY <1>5, <1>7
<1>11. ListedAs(longer, T, c)
  BY <1>8, <1>9, <1>10 DEF ListedAs
<1> QED
  BY <1>11 DEF longer

(* The places seen are a beginning of all places of these and more networks*)
LEMMA SeenLeads ==
  ASSUME ListInvariant, SeenInvariant,
         NEW last \in Expanded .. Len(config.networks)
  PROVE  Leads(Seen, Places(config, last))
<1>1. /\ config \in Configs /\ Len(config.networks) \in Nat /\ Looked \in Nat
      /\ Expanded \in 0 .. Len(config.networks)
  BY ConfigAssumption, LenProperties DEF ListInvariant, SeenInvariant
<1>2. /\ last \in 0 .. Len(config.networks) /\ Expanded <= last
      /\ Expanded \in Nat
  BY <1>1
<1>3. /\ \A p \in Places(config, last) : p[1] \in 0 .. last /\ p[2] \in Nat
      /\ Seen \subseteq Places(config, Expanded)
      /\ \A p \in Places(config, Expanded) :
           p \in Places(config, last) /\ p[1] \in 0 .. Expanded
  <2>1. \A p \in Places(config, last) : p[1] \in 0 .. last /\ p[2] \in Nat
    BY <1>1, <1>2, PlaceFacts
  <2>2. \A p \in Places(config, Expanded) : p[1] \in 0 .. Expanded
    BY <1>1, PlaceFacts
  <2>3. Places(config, Expanded) \subseteq Places(config, last)
    BY <1>1, <1>2 DEF Places
  <2> QED
    BY <2>1, <2>2, <2>3 DEF Seen
<1>4. ASSUME NEW x \in Seen
      PROVE  x[1] < Expanded \/ (x[1] = Expanded /\ x[2] <= Looked)
  BY <1>1, <1>3 DEF Seen
<1>5. ASSUME NEW y \in Places(config, last), y \notin Seen
      PROVE  y[1] > Expanded \/ (y[1] = Expanded /\ y[2] > Looked)
  <2>1. y[1] <= Expanded => y \in Places(config, Expanded)
    <3>1. y = <<y[1], y[2]>> /\ y[2] \in 1 .. Len(Source(config, y[1]))
      BY <1>1, <1>2, PlaceFacts
    <3>2. y[1] <= Expanded => y[1] \in 0 .. Expanded
      BY <1>2, <1>3
    <3> QED
      BY <1>1, <3>1, <3>2, PlaceFacts
  <2>2. y[1] \in Nat /\ y[2] \in Nat
    BY <1>2, <1>3
  <2> QED
    BY <1>1, <1>2, <1>5, <2>1, <2>2 DEF Seen
<1>6. \A x \in Seen : x[1] \in Nat /\ x[2] \in Nat
  BY <1>2, <1>3
<1>7. \A y \in Places(config, last) : y[1] \in Nat /\ y[2] \in Nat
  BY <1>2, <1>3
<1>8. ASSUME NEW x \in Seen, NEW y \in Places(config, last), y \notin Seen
      PROVE  Before(x, y) /\ ~Before(y, x)
  <2> HIDE DEF Seen
  <2> QED
    BY <1>1, <1>2, <1>4, <1>5, <1>6, <1>7, <1>8 DEF Before
<1> QED
  BY <1>3, <1>8 DEF Leads

(* Below the limit no network is cut: what is behind a cut would be among  *)
(* more different hosts than the list may have.                            *)
LEMMA NothingCut ==
  ASSUME ListInvariant, SeenInvariant, left = <<>>,
         Len(hosts) < MaxHosts(config)
  PROVE  Seen = Places(config, Expanded)
<1> DEFINE c == config
           m == Expanded
           max == MaxHosts(c)
<1>1. /\ c \in Configs /\ hosts \in Seq(Hosts) /\ Len(hosts) \in Nat
      /\ max \in Nat /\ m \in 0 .. Len(c.networks)
      /\ Len(c.networks) \in Nat
  BY ConfigAssumption, LenProperties, LimitTypes DEF ListInvariant, SeenInvariant
<1>2. /\ Source(c, m) \in Seq(Hosts) /\ Len(Source(c, m)) \in Nat
      /\ DOMAIN Source(c, m) = 1 .. Len(Source(c, m))
  BY <1>1, SourceType
<1>3. Looked = Taken
  <2>1. Looked = Taken - 0 /\ Looked \in Nat
    BY DEF Looked, SeenInvariant
  <2>2. Taken \in Int
    BY <1>1, <1>2, ConfigAssumption, LenProperties DEF Taken, Lesser, Source
  <2> QED
    BY <2>1, <2>2
<1>4. Taken = Len(Source(c, m)) \/ (m # 0 /\ Taken = max /\ max < Len(Source(c, m)))
  BY <1>1, <1>2 DEF Taken, Source, Lesser
<1>5. CASE Taken = Len(Source(c, m))
  <2>1. \A p \in Places(c, m) : /\ p[1] \in 0 .. m
                                /\ p[2] \in 1 .. Len(Source(c, p[1]))
    BY <1>1, PlaceFacts
  <2>2. \A p \in Places(c, m) : p[1] < m \/ p[2] <= Looked
    BY <1>1, <1>2, <1>3, <1>5, <2>1
  <2> QED
    BY <2>2 DEF Seen
<1>6. CASE m # 0 /\ Taken = max /\ max < Len(Source(c, m))
  <2> DEFINE at == [i \in 1 .. max |->
                      CHOOSE j \in 1 .. Len(hosts) : hosts[j] = Source(c, m)[i]]
  <2>1. ASSUME NEW i \in 1 .. max
        PROVE  at[i] \in 1 .. Len(hosts) /\ hosts[at[i]] = Source(c, m)[i]
    <3>1. i \in 1 .. Len(Source(c, m)) /\ m \in 0 .. m
      BY <1>1, <1>2, <1>6
    <3>2. <<m, i>> \in Places(c, m)
      BY <1>1, <3>1, PlaceFacts
    <3>3. <<m, i>> \in Seen
      BY <1>1, <1>3, <1>6, <3>2 DEF Seen
    <3>4. HostAt(c, <<m, i>>) \in ToSet(hosts)
      BY <3>3 DEF SeenInvariant
    <3>5. \E j \in 1 .. Len(hosts) : hosts[j] = Source(c, m)[i]
      BY <1>1, <3>4, LenProperties DEF HostAt, ToSet
    <3> QED
      BY <3>5
  <2>2. IsInjective(Source(c, m))
    <3>1. m \in DOMAIN c.networks
      BY <1>1, <1>6, ConfigAssumption, LenProperties
    <3> QED
      BY <1>1, <1>6, <3>1, ConfigAssumption DEF Source
  <2>3. \A i, j \in 1 .. max : at[i] = at[j] => i = j
    <3> HIDE DEF at
    <3>1. \A i \in 1 .. max : i \in DOMAIN Source(c, m)
      BY <1>1, <1>2, <1>6
    <3> QED
      BY <2>1, <2>2, <3>1 DEF IsInjective
  <2>4. at \in [1 .. max -> 1 .. Len(hosts)]
    <3>1. at = [i \in 1 .. max |-> at[i]]
      OBVIOUS
    <3> HIDE DEF at
    <3> QED
      BY <2>1, <3>1
  <2>5. at \in Injection(1 .. max, 1 .. Len(hosts))
    <3>1. DOMAIN at = 1 .. max
      OBVIOUS
    <3> HIDE DEF at
    <3> QED
      BY <2>3, <2>4, <3>1 DEF Injection, IsInjective
  <2>6. /\ IsFiniteSet(1 .. Len(hosts)) /\ Cardinality(1 .. Len(hosts)) = Len(hosts)
        /\ Cardinality(1 .. max) = max
    <3>1. \A k \in Nat : IsFiniteSet(1 .. k) /\ Cardinality(1 .. k) = k
      <4> TAKE k \in Nat
      <4>1. 1 \in Int /\ k \in Int
        OBVIOUS
      <4> QED
        BY <4>1, FS_Interval
    <3> HIDE DEF max
    <3> QED
      BY <1>1, <3>1
  <2>7. Cardinality(1 .. max) <= Cardinality(1 .. Len(hosts))
    <3> HIDE DEF at
    <3> QED
      BY <2>5, <2>6, FS_Injection
  <2> QED
    BY <1>1, <2>6, <2>7
<1> QED
  BY <1>4, <1>5, <1>6

(* Below the limit as many hosts are listed as there are first places.     *)
LEMMA ListedBelow ==
  ASSUME ListInvariant, SeenInvariant, Len(hosts) < MaxHosts(config)
  PROVE  Cardinality(FirstsAmong(config, Seen)) = Len(hosts)
<1>1. Len(hosts) = Lesser(Cardinality(FirstsAmong(config, Seen)), MaxHosts(config))
  BY DEF SeenInvariant, ListedAs
<1>2. MaxHosts(config) \in Nat /\ Len(hosts) \in Nat
  BY LimitTypes, LenProperties DEF ListInvariant
<1> QED
  BY <1>1, <1>2 DEF Lesser

(* Looking at a host keeps the list the expected one.                      *)
LEMMA AddHostKeepsSeen ==
  ASSUME ListInvariant, SeenInvariant, AddHost
  PROVE  SeenInvariant'
<1> DEFINE c == config
           m == Expanded
           p == <<m, Looked + 1>>
           h == Head(left)
<1>1. /\ left # <<>> /\ Add(h) /\ left' = Tail(left)
      /\ UNCHANGED <<config, networks>>
  BY DEF AddHost
<1>2. /\ c \in Configs /\ hosts \in Seq(Hosts) /\ left \in Seq(Hosts)
      /\ Len(hosts) \in Nat /\ Len(left) \in Nat \ {0}
      /\ MaxHosts(c) \in Nat /\ Len(c.networks) \in Nat
      /\ m \in 0 .. Len(c.networks) /\ Looked \in Nat
  <2>1. /\ c \in Configs /\ hosts \in Seq(Hosts) /\ left \in Seq(Hosts)
        /\ m \in 0 .. Len(c.networks) /\ Looked \in Nat
    BY DEF ListInvariant, SeenInvariant
  <2>2. Len(hosts) \in Nat /\ Len(left) \in Nat \ {0}
    BY <1>1, <2>1
  <2>3. Len(c.networks) \in Nat
    BY <2>1, ConfigAssumption, LenProperties
  <2> QED
    BY <2>1, <2>2, <2>3, LimitTypes
<1>3. /\ h = left[1] /\ h \in Hosts /\ Len(left') = Len(left) - 1
      /\ left' \in Seq(Hosts) /\ DOMAIN left' = 1 .. Len(left) - 1
      /\ \A i \in 1 .. Len(left) - 1 : left'[i] = left[i + 1]
  BY <1>1, <1>2, HeadTailProperties, LenProperties
<1>4. Expanded' = m /\ Taken' = Taken
  BY <1>1 DEF Expanded, Taken, MaxHosts
<1>5. Taken \in Int /\ Taken <= Len(Source(c, m)) /\ Looked = Taken - Len(left)
  <2>1. Len(Source(c, m)) \in Nat
    BY <1>2, SourceType
  <2>2. Len(Explicit(c)) \in Nat
    BY <1>2, ConfigAssumption, LenProperties
  <2>3. /\ m = 0 => Source(c, m) = Explicit(c)
        /\ m # 0 => Source(c, m) = c.networks[m].addresses
    BY DEF Source
  <2>4. CASE m = 0
    BY <2>1, <2>2, <2>3, <2>4 DEF Taken, Looked
  <2>5. CASE m # 0
    <3>1. Taken = Lesser(Len(Source(c, m)), MaxHosts(c))
      BY <2>3, <2>5 DEF Taken
    <3> QED
      BY <1>2, <2>1, <3>1 DEF Lesser, Looked
  <2> QED
    BY <2>4, <2>5
<1>6. Looked' = Looked + 1
  BY <1>2, <1>3, <1>4, <1>5 DEF Looked
<1>7. p \in Places(c, m) /\ HostAt(c, p) = h
  <2>1. Looked + 1 \in 1 .. Len(Source(c, m))
    BY <1>2, <1>5, SourceType
  <2>2. m \in 0 .. m
    BY <1>2
  <2>3. p \in Places(c, m)
    BY <1>2, <2>1, <2>2, PlaceFacts
  <2>4. left[1] = Source(c, m)[Looked + 1]
    BY <1>2, LenProperties DEF SeenInvariant
  <2> QED
    BY <1>3, <2>3, <2>4 DEF HostAt
<1>8. /\ \A q \in Places(c, m) : /\ q = <<q[1], q[2]>>
                                 /\ q[1] \in Nat /\ q[2] \in Nat
      /\ IsFiniteSet(Places(c, m))
  <2>1. \A q \in Places(c, m) : /\ q = <<q[1], q[2]>>
                                /\ q[1] \in 0 .. m /\ q[2] \in Nat
    BY <1>2, PlaceFacts
  <2> QED
    BY <1>2, <2>1, PlaceFacts
<1>9. p[1] = m /\ p[2] = Looked + 1 /\ m \in Nat
  BY <1>2
<1> HIDE DEF p, h
<1>10. Seen' = Seen \union {p} /\ p \notin Seen
  <2>1. Seen' = {q \in Places(c, m) : q[1] < m \/ q[2] <= Looked + 1}
    BY <1>1, <1>4, <1>6 DEF Seen
  <2>2. \A q \in Places(c, m) :
          q[1] < m \/ q[2] <= Looked + 1 <=> q \in Seen \/ q = p
    <3> SUFFICES ASSUME NEW q \in Places(c, m)
                 PROVE  q[1] < m \/ q[2] <= Looked + 1 <=> q \in Seen \/ q = p
      OBVIOUS
    <3>1. q[1] <= m
      BY <1>2, PlaceFacts
    <3>2. q = p <=> q[1] = m /\ q[2] = Looked + 1
      BY <1>8, <1>9 DEF p
    <3>3. q \in Seen <=> q[1] < m \/ q[2] <= Looked
      BY DEF Seen
    <3> QED
      BY <1>2, <1>8, <3>1, <3>2, <3>3
  <2> QED
    BY <1>2, <1>7, <1>9, <2>1, <2>2 DEF Seen
<1>11. Leads(Seen, Seen \union {p})
  <2>1. Leads(Seen, Places(c, m))
    <3>1. m \in m .. Len(c.networks)
      BY <1>2
    <3> QED
      BY <3>1, SeenLeads
  <2> QED
    BY <1>7, <1>10, <2>1 DEF Leads
<1> DEFINE S == FirstsAmong(c, Seen)
           T == FirstsAmong(c, Seen \union {p})
<1>12. /\ S \subseteq T /\ T \subseteq Places(c, m) /\ IsFiniteSet(T) /\ IsFiniteSet(S)
       /\ p \notin S
  <2>1. S \subseteq Seen /\ T \subseteq Places(c, m)
    BY <1>7 DEF FirstsAmong, Seen
  <2>2. Leads(S, T)
    BY <1>11, FirstsLead
  <2> QED
    BY <1>8, <1>10, <2>1, <2>2, FS_Subset DEF Leads
<1>13. \A q \in Seen : Before(q, p)
  BY <1>10, <1>11 DEF Leads
<1>14. T = IF \E q \in Seen : HostAt(c, q) = h THEN S ELSE S \union {p}
  <2>1. \A q \in Seen : ~Before(p, q)
    BY <1>10, <1>11 DEF Leads
  <2>2. ~Before(p, p)
    BY <1>2, <1>9 DEF Before
  <2> QED
    BY <1>7, <1>13, <2>1, <2>2 DEF FirstsAmong
<1>15. ListedAs(hosts, S, c)
  BY DEF SeenInvariant
<1>16. CASE Len(hosts) >= MaxHosts(c)
  <2>1. hosts' = hosts
    BY <1>1, <1>16 DEF Add
  <2>2. ListedAs(hosts, T, c)
    BY <1>2, <1>11, <1>12, <1>15, <1>16, FirstsLead, ListedWhenFull
  <2>3. \A g \in ToSet(hosts) : \E q \in Seen \union {p} : HostAt(c, q) = g
    BY DEF SeenInvariant
  <2>4. \A i \in DOMAIN left' : left'[i] = Source(c, m)[Looked + 1 + i]
    <3>1. \A i \in 1 .. Len(left) - 1 : i + 1 \in DOMAIN left
      BY <1>2, LenProperties
    <3> QED
      BY <1>2, <1>3, <3>1 DEF SeenInvariant
  <2> QED
    BY <1>1, <1>2, <1>4, <1>6, <1>10, <1>16, <2>1, <2>2, <2>3, <2>4
    DEF SeenInvariant
<1>17. CASE Len(hosts) < MaxHosts(c)
  <2>1. h \in ToSet(hosts) <=> \E q \in Seen : HostAt(c, q) = h
    BY <1>17 DEF SeenInvariant
  <2>2. hosts' = IF h \in ToSet(hosts) THEN hosts ELSE Append(hosts, h)
    BY <1>2, <1>1, <1>17 DEF Add
  <2>3. /\ ToSet(hosts) \subseteq ToSet(hosts') /\ h \in ToSet(hosts')
        /\ \A g \in ToSet(hosts') : g \in ToSet(hosts) \/ g = h
        /\ hosts' \in Seq(Hosts)
    <3>1. CASE h \in ToSet(hosts)
      BY <1>2, <2>2, <3>1
    <3>2. CASE h \notin ToSet(hosts)
      <4>1. /\ hosts' = Append(hosts, h) /\ hosts' \in Seq(Hosts)
            /\ DOMAIN hosts' = 1 .. Len(hosts) + 1 /\ DOMAIN hosts = 1 .. Len(hosts)
            /\ \A i \in 1 .. Len(hosts) : hosts'[i] = hosts[i]
            /\ hosts'[Len(hosts) + 1] = h
        BY <1>2, <1>3, <2>2, <3>2, AppendProperties, LenProperties
      <4>2. \A i \in 1 .. Len(hosts) + 1 : i \in 1 .. Len(hosts) \/ i = Len(hosts) + 1
        BY <1>2
      <4>3. Len(hosts) + 1 \in 1 .. Len(hosts) + 1 /\ 1 .. Len(hosts) \subseteq 1 .. Len(hosts) + 1
        BY <1>2
      <4> QED
        BY <4>1, <4>2, <4>3 DEF ToSet
    <3> QED
      BY <3>1, <3>2
  <2>4. ListedAs(hosts', T, c)
    <3>1. CASE h \in ToSet(hosts)
      BY <1>14, <1>15, <2>1, <2>2, <3>1
    <3>2. CASE h \notin ToSet(hosts)
      <4>1. T = S \union {p}
        BY <1>14, <2>1, <3>2
      <4>2. hosts' = Append(hosts, HostAt(c, p))
        BY <1>7, <2>2, <3>2
      <4>3. Leads(S, T)
        BY <1>11, FirstsLead
      <4> HIDE DEF S, T
      <4>4. \A x \in S \union {p} : x[1] \in Nat /\ x[2] \in Nat
        BY <1>7, <1>8, <1>12
      <4>5. \A x \in S \union {p} : ~Before(x, x)
        BY <4>4 DEF Before
      <4>6. ListedAs(Append(hosts, HostAt(c, p)), S \union {p}, c)
        BY <1>2, <1>3, <1>7, <1>12, <1>15, <1>17, <4>1, <4>3, <4>5, ListedNext
      <4> QED
        BY <4>1, <4>2, <4>6
    <3> QED
      BY <3>1, <3>2
  <2>5. \A q \in Seen \union {p} : HostAt(c, q) \in ToSet(hosts')
    BY <1>7, <1>17, <2>3 DEF SeenInvariant
  <2>6. \A g \in ToSet(hosts') : \E q \in Seen \union {p} : HostAt(c, q) = g
    BY <1>7, <2>3 DEF SeenInvariant
  <2>7. \A i \in DOMAIN left' : left'[i] = Source(c, m)[Looked + 1 + i]
    <3>1. \A i \in 1 .. Len(left) - 1 : i + 1 \in DOMAIN left
      BY <1>2, LenProperties
    <3> QED
      BY <1>2, <1>3, <3>1 DEF SeenInvariant
  <2> QED
    BY <1>1, <1>2, <1>4, <1>6, <1>10, <2>4, <2>5, <2>6, <2>7
    DEF SeenInvariant
<1> QED
  BY <1>2, <1>16, <1>17

(* The next network starts behind all places of those before it.           *)
LEMMA NetworkKeepsSeen ==
  ASSUME ListInvariant, SeenInvariant, NextNetwork, phase' # "failed"
  PROVE  SeenInvariant'
<1> DEFINE c == config
           m == Expanded
           network == Head(networks)
<1>1. /\ left = <<>> /\ networks # <<>> /\ Len(hosts) < MaxHosts(c)
      /\ ~Refused(c, network)
      /\ left' = FirstAddresses(network) /\ networks' = Tail(networks)
      /\ UNCHANGED <<config, hosts>>
  BY DEF NextNetwork
<1>2. /\ c \in Configs /\ networks \in Seq(NetworkType)
      /\ m \in 0 .. Len(c.networks) /\ m = Len(c.networks) - Len(networks)
  BY DEF ListInvariant, SeenInvariant, Expanded
<1>3. /\ Len(c.networks) \in Nat /\ Len(networks) \in Nat \ {0}
      /\ MaxHosts(c) \in Nat
  <2>1. Len(networks) \in Nat \ {0}
    BY <1>1, <1>2
  <2>2. Len(c.networks) \in Nat
    BY <1>2, ConfigAssumption, LenProperties
  <2> QED
    BY <1>2, <2>1, <2>2, LimitTypes
<1>4. /\ networks' \in Seq(NetworkType) /\ Len(networks') = Len(networks) - 1
      /\ DOMAIN networks' = 1 .. Len(networks) - 1
      /\ \A i \in 1 .. Len(networks) - 1 : networks'[i] = networks[i + 1]
      /\ network = networks[1] /\ network \in NetworkType
  BY <1>1, <1>2, HeadTailProperties, LenProperties
<1>5. Expanded' = m + 1 /\ m + 1 \in 1 .. Len(c.networks) /\ m \in Nat
  BY <1>1, <1>2, <1>3, <1>4 DEF Expanded
<1>6. network = c.networks[m + 1]
  <2>1. 1 \in DOMAIN networks
    BY <1>2, <1>3, LenProperties
  <2> QED
    BY <1>4, <2>1 DEF SeenInvariant
<1>7. /\ Source(c, m + 1) = network.addresses
      /\ Len(network.addresses) \in Nat
      /\ network.addresses \in Seq(Hosts)
  BY <1>4, <1>5, <1>6, LenProperties DEF Source, NetworkType
<1>8. Taken' = Lesser(Len(network.addresses), MaxHosts(c))
  BY <1>1, <1>5, <1>6 DEF Taken, MaxHosts
<1> DEFINE n == Lesser(Len(network.addresses), MaxHosts(c))
<1>9. n \in Nat /\ n <= Len(network.addresses)
  BY <1>3, <1>7 DEF Lesser
<1>10. /\ Len(left') = n /\ DOMAIN left' = 1 .. n
       /\ \A i \in 1 .. n : left'[i] = network.addresses[i]
  <2>1. left' = SubSeq(network.addresses, 1, n)
    BY <1>1 DEF FirstAddresses
  <2> HIDE DEF n, network
  <2>2. left' = [i \in 1 .. n |-> network.addresses[i]]
    BY <1>9, <2>1
  <2> QED
    BY <1>9, <2>2
<1>11. Looked' = 0
  BY <1>8, <1>9, <1>10 DEF Looked
<1>12. Seen = Places(c, m)
  BY <1>1, NothingCut
<1>13. Seen' = Seen
  <2>1. Seen' = {p \in Places(c, m + 1) : p[1] < m + 1 \/ p[2] <= 0}
    BY <1>1, <1>5, <1>11 DEF Seen
  <2>2. ASSUME NEW p \in Places(c, m)
        PROVE  p \in Places(c, m + 1) /\ p[1] < m + 1
    <3>1. /\ p = <<p[1], p[2]>> /\ p[1] \in 0 .. m
          /\ p[2] \in 1 .. Len(Source(c, p[1]))
      BY <1>2, PlaceFacts
    <3>2. p[1] \in 0 .. m + 1 /\ m + 1 \in 0 .. Len(c.networks)
      BY <1>5, <3>1
    <3>3. <<p[1], p[2]>> \in Places(c, m + 1)
      BY <1>2, <3>1, <3>2, PlaceFacts
    <3> QED
      BY <1>5, <3>1, <3>3
  <2>3. ASSUME NEW p \in Places(c, m + 1), p[1] < m + 1 \/ p[2] <= 0
        PROVE  p \in Places(c, m)
    <3>1. m + 1 \in 0 .. Len(c.networks)
      BY <1>5
    <3>2. /\ p = <<p[1], p[2]>> /\ p[1] \in 0 .. m + 1
          /\ p[2] \in 1 .. Len(Source(c, p[1])) /\ p[2] \in Nat
      BY <1>2, <3>1, PlaceFacts
    <3>3. p[2] > 0
      BY <3>2
    <3>4. p[1] \in 0 .. m
      BY <1>5, <2>3, <3>2, <3>3
    <3> QED
      BY <1>2, <3>2, <3>4, PlaceFacts
  <2> QED
    BY <1>12, <2>1, <2>2, <2>3
<1>14. \A i \in DOMAIN networks' :
         networks'[i] = config'.networks[Expanded' + i]
  <2> SUFFICES ASSUME NEW i \in 1 .. Len(networks) - 1
               PROVE  networks[i + 1] = c.networks[m + 1 + i]
    BY <1>1, <1>4, <1>5
  <2>1. i + 1 \in DOMAIN networks
    BY <1>2, <1>3, LenProperties
  <2>2. networks[i + 1] = c.networks[m + (i + 1)]
    BY <2>1 DEF SeenInvariant
  <2>3. m + (i + 1) = m + 1 + i
    BY <1>5
  <2> QED
    BY <2>2, <2>3
<1>15. \A i \in DOMAIN left' :
         left'[i] = Source(config', Expanded')[Looked' + i]
  BY <1>1, <1>5, <1>7, <1>9, <1>10, <1>11
<1>16. \A k \in 1 .. Expanded' : ~Refused(config', config'.networks[k])
  <2>1. \A k \in 1 .. m + 1 : k \in 1 .. m \/ k = m + 1
    BY <1>5
  <2> QED
    BY <1>1, <1>5, <1>6, <2>1 DEF SeenInvariant
<1> HIDE DEF network, n, c, m
<1>17. Expanded' \in 0 .. Len(config'.networks) /\ Looked' \in Nat
  BY <1>1, <1>5, <1>11 DEF c
<1> QED
  BY <1>1, <1>13, <1>14, <1>15, <1>16, <1>17
  DEF SeenInvariant, MaxHosts, HostAt, c

(* A refused network that is reached below the limit is what the property  *)
(* says of a scan that fails.                                              *)
LEMMA RefusedIsReached ==
  ASSUME ListInvariant, SeenInvariant, NextNetwork, phase' = "failed",
         phase = "hosts"
  PROVE  HostsAsListed'
<1> DEFINE c == config
           m == Expanded
<1>1. /\ left = <<>> /\ networks # <<>> /\ Len(hosts) < MaxHosts(c)
      /\ Refused(c, Head(networks))
      /\ UNCHANGED config
  BY DEF NextNetwork
<1>2. /\ c \in Configs /\ networks \in Seq(NetworkType)
      /\ m \in 0 .. Len(c.networks) /\ m = Len(c.networks) - Len(networks)
  BY DEF ListInvariant, SeenInvariant, Expanded
<1>3. /\ Len(c.networks) \in Nat /\ Len(networks) \in Nat \ {0}
      /\ DOMAIN c.networks = 1 .. Len(c.networks)
  BY <1>1, <1>2, ConfigAssumption, LenProperties
<1>4. m + 1 \in DOMAIN c.networks /\ (m + 1) - 1 = m
  BY <1>2, <1>3
<1>5. Head(networks) = c.networks[m + 1]
  <2>1. 1 \in DOMAIN networks /\ Head(networks) = networks[1]
    BY <1>1, <1>2, <1>3, HeadTailProperties, LenProperties
  <2> QED
    BY <2>1 DEF SeenInvariant
<1>6. Cardinality(Firsts(c, (m + 1) - 1)) < MaxHosts(c)
  BY <1>1, <1>4, NothingCut, ListedBelow DEF Firsts
<1> HIDE DEF m
<1>7. m + 1 \in {k \in DOMAIN c.networks :
                   /\ Refused(c, c.networks[k])
                   /\ Cardinality(Firsts(c, k - 1)) < MaxHosts(c)}
  BY <1>1, <1>4, <1>5, <1>6
<1> QED
  BY <1>1, <1>7 DEF HostsAsListed, MaxHosts

(* When the hosts are listed, they are the expected ones.                  *)
LEMMA ListIsExpected ==
  ASSUME ListInvariant, SeenInvariant, EndHosts
  PROVE  HostsAsListed'
<1> DEFINE c == config
           m == Expanded
           all == Len(c.networks)
<1>1. /\ (left = <<>> /\ networks = <<>>) \/ Len(hosts) >= MaxHosts(c)
      /\ phase' \in {"done", "probe"}
      /\ UNCHANGED <<config, hosts>>
  BY DEF EndHosts, listing
<1>2. /\ c \in Configs /\ hosts \in Seq(Hosts) /\ Len(hosts) \in Nat
      /\ m \in 0 .. all /\ m = all - Len(networks)
      /\ networks \in Seq(NetworkType)
      /\ ListedAs(hosts, FirstsAmong(c, Seen), c)
      /\ \A n \in 1 .. m : ~Refused(c, c.networks[n])
  BY LenProperties DEF ListInvariant, SeenInvariant, Expanded
<1>3. /\ all \in Nat /\ MaxHosts(c) \in Nat
      /\ DOMAIN c.networks = 1 .. all
  BY <1>2, ConfigAssumption, LenProperties, LimitTypes
<1>4. ASSUME NEW n \in m .. all, Len(hosts) >= MaxHosts(c)
      PROVE  /\ ListedAs(hosts, Firsts(c, n), c)
             /\ Cardinality(Firsts(c, n)) >= MaxHosts(c)
  <2>1. Leads(Seen, Places(c, n))
    BY SeenLeads
  <2>2. Leads(FirstsAmong(c, Seen), Firsts(c, n))
    BY <2>1, FirstsLead DEF Firsts
  <2>3. IsFiniteSet(Firsts(c, n))
    <3>1. n \in 0 .. all
      BY <1>2, <1>3
    <3>2. IsFiniteSet(Places(c, n))
      BY <1>2, <3>1, PlaceFacts
    <3>3. Firsts(c, n) \in SUBSET Places(c, n)
      BY DEF Firsts, FirstsAmong
    <3> QED
      BY <3>2, <3>3, FS_Subset
  <2> QED
    BY <1>2, <1>4, <2>2, <2>3, ListedWhenFull
<1>5. ListedAs(hosts, Firsts(c, all), c)
  <2>1. CASE Len(hosts) >= MaxHosts(c)
    <3>1. all \in m .. all
      BY <1>2, <1>3
    <3> QED
      BY <1>4, <2>1, <3>1
  <2>2. CASE Len(hosts) < MaxHosts(c)
    <3>1. left = <<>> /\ networks = <<>>
      BY <1>1, <1>2, <1>3, <2>2
    <3>2. m = all
      BY <1>2, <1>3, <3>1
    <3>3. Seen = Places(c, m)
      BY <2>2, <3>1, NothingCut
    <3> HIDE DEF m, all
    <3> QED
      BY <1>2, <3>2, <3>3 DEF Firsts
  <2> QED
    BY <1>2, <1>3, <2>1, <2>2
<1>6. ASSUME NEW n \in 1 .. all, Refused(c, c.networks[n])
      PROVE  ~(Cardinality(Firsts(c, n - 1)) < MaxHosts(c))
  <2>1. n - 1 \in m .. all
    BY <1>2, <1>3, <1>6
  <2>2. networks # <<>>
    <3>1. networks = <<>> => m = all
      BY <1>2, <1>3
    <3> QED
      BY <1>2, <1>3, <1>6, <3>1
  <2>3. Len(hosts) >= MaxHosts(c)
    BY <1>1, <2>2
  <2>4. Cardinality(Firsts(c, n - 1)) >= MaxHosts(c)
    BY <1>4, <2>1, <2>3
  <2>5. Cardinality(Firsts(c, n - 1)) \in Nat
    <3>1. n - 1 \in 0 .. all
      BY <1>2, <1>3, <2>1
    <3>2. IsFiniteSet(Places(c, n - 1))
      BY <1>2, <3>1, PlaceFacts
    <3>3. Firsts(c, n - 1) \in SUBSET Places(c, n - 1)
      BY DEF Firsts, FirstsAmong
    <3> QED
      BY <3>2, <3>3, FS_Subset, FS_CardinalityType
  <2> QED
    BY <1>3, <2>4, <2>5
<1>7. {n \in DOMAIN c.networks :
         /\ Refused(c, c.networks[n])
         /\ Cardinality(Firsts(c, n - 1)) < MaxHosts(c)} = {}
  BY <1>3, <1>6
<1> QED
  BY <1>1, <1>5, <1>7 DEF HostsAsListed, MaxHosts, ListedAs

(* Every step keeps the account of the places.                             *)
LEMMA HostsStep ==
  ASSUME ListInvariant, HostsInvariant, [Next]_vars
  PROVE  HostsInvariant'
<1>1. CASE AddHost
  <2>1. phase = "hosts" /\ UNCHANGED <<config, phase>>
    BY <1>1 DEF AddHost
  <2>2. SeenInvariant'
    BY <1>1, <2>1, AddHostKeepsSeen DEF HostsInvariant
  <2> QED
    BY <2>1, <2>2 DEF HostsInvariant, HostsAsListed
<1>2. CASE NextNetwork
  <2>1. /\ phase = "hosts" /\ UNCHANGED config
        /\ phase' = "failed" \/ phase' = "hosts"
    BY <1>2 DEF NextNetwork
  <2>2. CASE phase' = "failed"
    BY <1>2, <2>1, <2>2, RefusedIsReached DEF HostsInvariant
  <2>3. CASE phase' = "hosts"
    <3>1. SeenInvariant'
      BY <1>2, <2>1, <2>3, NetworkKeepsSeen DEF HostsInvariant
    <3> QED
      BY <2>1, <2>3, <3>1 DEF HostsInvariant, HostsAsListed
  <2> QED
    BY <2>1, <2>2, <2>3
<1>3. CASE EndHosts
  <2>1. phase = "hosts" /\ phase' \in {"done", "probe"}
    BY <1>3 DEF EndHosts
  <2> QED
    BY <1>3, <2>1, ListIsExpected DEF HostsInvariant
<1>4. CASE StartProbe \/ Finish
  <2>1. /\ phase = "probe" /\ phase' \in {"probe", "done"}
        /\ UNCHANGED <<config, hosts>>
    BY <1>4 DEF StartProbe, Finish, listing
  <2> QED
    BY <2>1 DEF HostsInvariant, HostsAsListed, ListedAs, MaxHosts
<1>5. CASE (\E t \in running : EndProbe(t)) \/ Collecting \/ UNCHANGED vars
  <2>1. UNCHANGED <<config, phase, hosts, left, networks>>
    BY <1>5 DEF EndProbe, Collecting, Collect, listing, vars
  <2>2. HostsAsListed'
    BY <2>1 DEF HostsInvariant, HostsAsListed, ListedAs, MaxHosts
  <2>3. Expanded' = Expanded /\ Taken' = Taken /\ Looked' = Looked
    BY <2>1 DEF Expanded, Taken, Looked, MaxHosts
  <2>4. Seen' = Seen
    BY <2>1, <2>3 DEF Seen
  <2>5. SeenInvariant => SeenInvariant'
    BY <2>1, <2>3, <2>4 DEF SeenInvariant, MaxHosts, ListedAs, HostAt
  <2> QED
    BY <2>1, <2>2, <2>5 DEF HostsInvariant
<1> QED
  BY <1>1, <1>2, <1>3, <1>4, <1>5 DEF Next, Listing, Probing

(* Before the first host is looked at, no place is.                        *)
LEMMA ListingBegins ==
  ASSUME Init
  PROVE  HostsInvariant
<1> DEFINE c == config
<1>1. /\ c \in Configs /\ hosts = <<>> /\ left = Explicit(c)
      /\ networks = c.networks
      /\ phase = IF c.enabled THEN "hosts" ELSE "done"
  BY DEF Init
<1>2. /\ Len(c.networks) \in Nat /\ Len(Explicit(c)) \in Nat
      /\ MaxHosts(c) \in Nat
      /\ DOMAIN Explicit(c) = 1 .. Len(Explicit(c))
  BY <1>1, ConfigAssumption, LenProperties, LimitTypes
<1>3. Expanded = 0 /\ Looked = 0
  BY <1>1, <1>2 DEF Expanded, Looked, Taken
<1>4. Seen = {}
  <2>1. 0 \in 0 .. Len(c.networks)
    BY <1>2
  <2>2. \A p \in Places(c, 0) : p[1] \in 0 .. 0 /\ p[2] \in 1 .. Len(Source(c, p[1]))
    BY <1>1, <2>1, PlaceFacts
  <2>3. \A p \in Places(c, 0) : p[1] = 0
    BY <2>2
  <2>4. Source(c, 0) = Explicit(c)
    BY DEF Source
  <2>5. \A p \in Places(c, 0) : p[2] > 0
    BY <1>2, <2>2, <2>3, <2>4
  <2>6. \A p \in Places(c, 0) : ~(p[1] < 0 \/ p[2] <= 0)
    BY <1>2, <2>2, <2>3, <2>4
  <2> QED
    BY <1>3, <2>6 DEF Seen
<1>5. ListedAs(hosts, FirstsAmong(c, Seen), c)
  <2>1. FirstsAmong(c, Seen) = {}
    BY <1>4 DEF FirstsAmong
  <2>2. Cardinality({}) = 0 /\ Len(hosts) = 0
    BY <1>1, FS_EmptySet
  <2> QED
    BY <1>2, <2>1, <2>2 DEF ListedAs, Lesser
<1>6. ToSet(hosts) = {}
  BY <1>1 DEF ToSet
<1>7. SeenInvariant
  <2>1. \A i \in DOMAIN networks : networks[i] = c.networks[0 + i]
    BY <1>1, ConfigAssumption, LenProperties
  <2>2. \A i \in DOMAIN left : left[i] = Source(c, 0)[0 + i]
    BY <1>1, <1>2 DEF Source
  <2> QED
    BY <1>2, <1>3, <1>4, <1>5, <1>6, <2>1, <2>2 DEF SeenInvariant
<1> QED
  BY <1>1, <1>7, ConfigAssumption DEF HostsInvariant, HostsAsListed

(* Whatever hosts and networks the section names, the hosts that are       *)
(* probed are those it names, each once, in its order, up to the limit;    *)
(* and a scan raises only for a refused network it reaches below the limit,*)
(* and does so for every one.                                              *)
THEOREM ScanListsTheSection == Spec => []HostsAsListed
<1>1. Init => ListInvariant /\ HostsInvariant
  BY ScanBegins, ListingBegins
<1>2. ListInvariant /\ HostsInvariant /\ [Next]_vars
        => (ListInvariant /\ HostsInvariant)'
  BY ListStep, HostsStep
<1>3. HostsInvariant => HostsAsListed
  BY DEF HostsInvariant
<1> QED
  BY <1>1, <1>2, <1>3, PTL DEF Spec
=============================================================================
