--------------------------- MODULE ShutdownProofs ---------------------------
(* ShutdownInv is an invariant of Shutdown, for any inputs whose packets   *)
(* and hosts are numbers, and any sizes of batches and chunks.             *)
EXTENDS ShutdownInvariant, SequencePartsProofs

----------------------------------------------------------------------------
(* The stages of main. *)

\* The lines that are not blank are lines.
LEMMA HostLinesAreLines ==
  ASSUME input \in Inputs
  PROVE  HostLines \in Seq(HostLine)
<1>1. input.hosts.lines \in Seq(HostLine)
  BY InputsAssumption
<1> DEFINE lines == input.hosts.lines
<1>2. \A S : Kept(lines, S) \in Seq(HostLine)
  BY <1>1, KeptElements
<1> QED
  BY <1>2 DEF HostLines

\* What follows --id on a command line is a number, perhaps 0 for a word.
LEMMA ArgumentsAreNumbers ==
  ASSUME input \in Inputs, argc >= 3
  PROVE  input.argv[2].value \in Nat
<1>1. input.argv \in Seq(Argument)
  BY InputsAssumption
<1>2. 2 \in DOMAIN input.argv
  BY <1>1 DEF argc
<1>3. input.argv[2] \in Argument
  BY <1>1, <1>2
<1> QED
  BY <1>3 DEF Argument

\* Finitely many numbers, and at least one, have a greatest.
LEMMA GreatestOf ==
  ASSUME NEW n \in Nat \ {0}, NEW f \in [1..n -> Nat]
  PROVE  \E i \in 1..n : \A j \in 1..n : f[i] >= f[j]
<1> DEFINE Good(m) == \E i \in 1..m : \A j \in 1..m : f[i] >= f[j]
           Bad     == {m \in 1..n : ~Good(m)}
<1>1. ASSUME Bad # {}
      PROVE  FALSE
  <2>1. Bad \in SUBSET Nat
    OBVIOUS
  <2>2. PICK m \in Bad : \A k \in Bad : m <= k
    BY <1>1, <2>1, LeastNat
  <2>3. m \in 1..n /\ ~Good(m)
    OBVIOUS
  <2>4. CASE m = 1
    <3>1. 1 \in 1..n /\ 1 \in 1..1 /\ \A j \in 1..1 : j = 1
      OBVIOUS
    <3>2. f[1] \in Nat
      BY <3>1
    <3>3. \A j \in 1..1 : f[1] >= f[j]
      BY <3>1, <3>2
    <3>4. Good(1)
      BY <3>1, <3>3
    <3> QED
      BY <2>3, <2>4, <3>4
  <2>5. CASE m # 1
    <3>1. m - 1 \in 1..n /\ m - 1 \notin Bad
      <4>1. m - 1 \in 1..n /\ ~(m <= m - 1)
        BY <2>3, <2>5
      <4> HIDE DEF Bad
      <4> QED
        BY <2>2, <4>1
    <3>2. PICK i \in 1..(m - 1) : \A j \in 1..(m - 1) : f[i] >= f[j]
      BY <3>1
    <3>3. i \in 1..m /\ m \in 1..m /\ f[i] \in Nat /\ f[m] \in Nat
      BY <2>3, <3>1
    <3>4. \A j \in 1..m : j = m \/ j \in 1..(m - 1)
      BY <2>3
    <3>5. \A j \in 1..(m - 1) : f[j] \in Nat
      BY <2>3
    <3>6. CASE f[i] >= f[m]
      <4>1. \A j \in 1..m : f[i] >= f[j]
        BY <3>2, <3>4, <3>6
      <4> QED
        BY <2>3, <3>3, <4>1
    <3>7. CASE ~(f[i] >= f[m])
      <4>1. \A j \in 1..m : f[m] >= f[j]
        BY <3>2, <3>3, <3>4, <3>5, <3>7
      <4> QED
        BY <2>3, <3>3, <4>1
    <3> QED
      BY <3>6, <3>7
  <2> QED
    BY <2>4, <2>5
<1>2. n \in 1..n
  OBVIOUS
<1>3. Bad = {}
  BY <1>1
<1> QED
  BY <1>2, <1>3

\* When hosts are accepted their ids are 1 to the number of hosts.
LEMMA IdsInRange ==
  ASSUME input \in Inputs, HostsAccepted
  PROVE  \A i \in DOMAIN HostLines : HostLines[i].id \in 1..Len(HostLines)
<1>1. HostLines \in Seq(HostLine)
  BY HostLinesAreLines
<1>2. \A i \in DOMAIN HostLines : HostLines[i].id \in Nat
  <2>1. \A l \in HostLine : l.id \in Nat
    BY DEF HostLine
  <2>2. \A i \in DOMAIN HostLines : HostLines[i] \in HostLine
    BY <1>1
  <2> QED
    BY <2>1, <2>2
<1>3. Len(HostLines) \in Nat /\ DOMAIN HostLines = 1..Len(HostLines)
  BY <1>1
<1>4. /\ Min(HostIds) = 1 /\ Max(HostIds) = Len(HostLines)
  BY DEF HostsAccepted, Compact
<1> DEFINE S == HostIds
           n == Len(HostLines)
<1>5. S \subseteq Nat /\ \A i \in DOMAIN HostLines : HostLines[i].id \in S
  BY <1>2 DEF HostIds
<1> HIDE DEF S, n
<1>6. S # {}
  BY <1>3, <1>5 DEF HostsAccepted, n
<1>7. \E x \in S : \A y \in S : x <= y
  <2>1. S \in SUBSET Nat
    BY <1>5
  <2> QED
    BY <1>6, <2>1, LeastNat
<1>8. \E x \in S : \A y \in S : x >= y
  <2> DEFINE f == [i \in 1..n |-> HostLines[i].id]
  <2>1. n \in Nat \ {0} /\ f \in [1..n -> Nat]
    BY <1>2, <1>3 DEF n, HostsAccepted
  <2>2. \A i \in 1..n : f[i] = HostLines[i].id
    OBVIOUS
  <2> HIDE DEF f
  <2>3. PICK i \in 1..n : \A j \in 1..n : f[i] >= f[j]
    BY <2>1, GreatestOf
  <2>4. HostLines[i].id \in S /\ \A j \in 1..n : HostLines[i].id >= HostLines[j].id
    BY <1>3, <1>5, <2>2, <2>3 DEF n
  <2>5. \A y \in S : HostLines[i].id >= y
    BY <1>3, <2>4 DEF S, HostIds, n
  <2> QED
    BY <2>4, <2>5
<1>9. Min(S) \in S /\ \A y \in S : Min(S) <= y
  BY <1>7 DEF Min
<1>10. Max(S) \in S /\ \A y \in S : Max(S) >= y
  BY <1>8 DEF Max
<1>11. Min(S) = 1 /\ Max(S) = n
  BY <1>4 DEF n, S
<1>12. \A y \in S : y \in Nat /\ 1 <= y /\ y <= n
  BY <1>5, <1>9, <1>10, <1>11
<1>13. n \in Nat
  BY <1>3 DEF n
<1>14. \A y \in S : y \in 1..n
  BY <1>12, <1>13
<1> QED
  BY <1>5, <1>14 DEF n

\* A sorting of a sequence has its elements, in a sequence as long.
LEMMA SortingsAre ==
  ASSUME NEW A, NEW s \in Seq(A), NEW t \in Sortings(s)
  PROVE  /\ t \in Seq(A)
         /\ Len(t) = Len(s)
         /\ \A i \in DOMAIN t : \E j \in DOMAIN s : t[i] = s[j]
<1>1. PICK f \in Bijection(DOMAIN s, DOMAIN s) : t = [i \in DOMAIN s |-> s[f[i]]]
  BY DEF Sortings
<1>2. f \in [DOMAIN s -> DOMAIN s]
  BY DEF Bijection, Injection
<1>3. Len(s) \in Nat /\ DOMAIN s = 1..Len(s) /\ \A i \in DOMAIN s : s[i] \in A
  OBVIOUS
<1>4. \A i \in DOMAIN s : f[i] \in DOMAIN s /\ t[i] = s[f[i]]
  BY <1>1, <1>2
<1>5. t \in [1..Len(s) -> A]
  BY <1>1, <1>2, <1>3
<1>6. t \in Seq(A) /\ Len(t) = Len(s) /\ DOMAIN t = DOMAIN s
  BY <1>3, <1>5
<1> QED
  BY <1>4, <1>6

----------------------------------------------------------------------------
(* Steps of main before the threads are started. *)

\* main, up to the threads.
ToThreads ==
  \/ Parse \/ Hosts \/ ReadConfig \/ FindMyself \/ Bind
  \/ OpenOutput

\* A stage is entered from the one before, or main ends where it is.
LEMMA StageSteps ==
  ASSUME MainInv, ToThreads, OpenOutput \/ UNCHANGED output_file
  PROVE  /\ process = "running" /\ ~finito /\ stage # "spawn"
         /\ input' = input /\ spawned' = spawned /\ finito' = finito
         /\ stage' \in {"parse", "hosts", "output", "config", "myself", "bind", "spawn"}
         /\ process' \in {"running", "refused", "unbound", "crashed"}
         /\ msgs_to_send_count' \in 0..MaxMsgs
         /\ stage' \in {"config", "myself", "bind", "spawn"} => output_file' = <<>>
<1>0. /\ msgs_to_send_count \in 0..MaxMsgs
      /\ stage \in {"config", "myself", "bind"} => output_file = <<>>
      /\ input \in Inputs
  BY DEF MainInv
<1> USE DEF At, Enter, Ends, settings
<1>1. CASE Parse
  BY <1>0, <1>1 DEF Parse, OpenOutput
<1>2. CASE Hosts
  BY <1>0, <1>2 DEF Hosts, OpenOutput
<1>3. CASE OpenOutput
  BY <1>0, <1>3 DEF OpenOutput
<1>4. CASE ReadConfig
  <2>1. input.config.count \in 0..MaxMsgs
    BY <1>0, BoundsAssumption
  <2>2. 0 \in 0..MaxMsgs
    BY BoundsAssumption
  <2>3. msgs_to_send_count' \in 0..MaxMsgs
    BY <1>4, <2>1, <2>2 DEF ReadConfig
  <2> QED
    BY <1>0, <1>4, <2>3 DEF ReadConfig, OpenOutput
<1>5. CASE FindMyself
  BY <1>0, <1>5 DEF FindMyself, OpenOutput
<1>6. CASE Bind
  BY <1>0, <1>6 DEF Bind, OpenOutput
<1> QED
  BY <1>1, <1>2, <1>3, <1>4, <1>5, <1>6 DEF ToThreads

\* The nodes are those of the hosts file, and this process is one of them.
LEMMA StageNodes ==
  ASSUME MainInv, NodesInv, ToThreads
  PROVE  NodesInv'
<1> USE DEF At, Enter, Ends, settings
<1>1. CASE Parse
  BY <1>1 DEF Parse, parseInternal, parseID, NodesInv, AsAsked, argc
<1>2. CASE Hosts
  <2>1. CASE HostsAccepted
    <3>1. PICK s \in Sortings(HostLines) :
            nodes' = [i \in DOMAIN s |-> [id |-> s[i].id, port |-> SwapBytes(s[i].port)]]
      BY <1>2, <2>1 DEF Hosts
    <3>2. HostLines \in Seq(HostLine)
      BY HostLinesAreLines DEF MainInv
    <3>3. \A i \in DOMAIN HostLines : HostLines[i].id \in 1..Len(HostLines)
      BY <2>1, IdsInRange DEF MainInv
    <3>4. /\ s \in Seq(HostLine)
          /\ Len(s) = Len(HostLines)
          /\ \A i \in DOMAIN s : \E j \in DOMAIN HostLines : s[i] = HostLines[j]
      BY <3>2, SortingsAre
    <3>5. \A i \in DOMAIN s : s[i].id \in 1..Len(s)
      BY <3>3, <3>4
    <3>6. \A l \in HostLine : l.id \in Nat /\ SwapBytes(l.port) \in Nat
      BY DEF HostLine, SwapBytes
    <3>7. /\ Len(s) \in Nat /\ DOMAIN s = 1..Len(s)
          /\ \A i \in DOMAIN s : s[i].id \in Nat /\ SwapBytes(s[i].port) \in Nat
      BY <3>4, <3>6
    <3>8. nodes' \in [1..Len(s) -> [id : Nat, port : Nat]]
      <4> DEFINE h(i) == [id |-> s[i].id, port |-> SwapBytes(s[i].port)]
                 R    == [id : Nat, port : Nat]
                 N    == 1..Len(s)
      <4>1. \A i \in N : h(i) \in R
        BY <3>7
      <4>2. nodes' = [i \in N |-> h(i)]
        BY <3>1, <3>7
      <4> HIDE DEF h, R, N
      <4>3. nodes' \in [N -> R]
        BY <4>1, <4>2
      <4> QED
        BY <4>3 DEF R, N
    <3>9. nodes' \in Seq([id : Nat, port : Nat]) /\ Len(nodes') = Len(s)
      <4>1. \A A : \A n \in Nat : \A t \in [1..n -> A] : t \in Seq(A) /\ Len(t) = n
        OBVIOUS
      <4> QED
        BY <3>7, <3>8, <4>1
    <3>10. \A i \in DOMAIN nodes' : nodes'[i].id \in 1..Len(nodes')
      BY <3>1, <3>5, <3>9
    <3>11. stage' = "output"
      BY <1>2, <2>1 DEF Hosts
    <3>12. argc' = argc /\ argc >= 3
      BY <1>2, <2>1 DEF Hosts, argc, NodesInv
    <3> QED
      BY <3>9, <3>10, <3>11, <3>12 DEF NodesInv
  <2>2. CASE ~HostsAccepted
    BY <1>2, <2>2 DEF Hosts, NodesInv, AsAsked, argc
  <2> QED
    BY <2>1, <2>2
<1>3. CASE OpenOutput
  BY <1>3 DEF OpenOutput, NodesInv, AsAsked, argc
<1>4. CASE ReadConfig
  BY <1>4 DEF ReadConfig, NodesInv, AsAsked, argc
<1>5. CASE FindMyself
  <2> DEFINE my_id == input.argv[2].value % 2 ^ WordBits
  <2>1. CASE IndicesOf(my_id) = {}
    BY <1>5, <2>1 DEF FindMyself, NodesInv, AsAsked, argc
  <2>2. CASE IndicesOf(my_id) # {}
    <3>1. /\ stage = "myself" /\ stage' = "bind" /\ nodes' = nodes
          /\ myself_node' = nodes[Min(IndicesOf(my_id))]
      BY <1>5, <2>2 DEF FindMyself
    <3>2. /\ nodes \in Seq([id : Nat, port : Nat])
          /\ \A i \in DOMAIN nodes : nodes[i].id \in 1..Len(nodes)
      BY <3>1 DEF NodesInv
    <3> DEFINE S == IndicesOf(my_id)
    <3>3. S \subseteq DOMAIN nodes
      BY DEF IndicesOf
    <3>4. DOMAIN nodes \subseteq Nat
      BY <3>2
    <3> HIDE DEF S
    <3>5. \E x \in S : \A y \in S : x <= y
      <4>1. S \in SUBSET Nat /\ S # {}
        BY <2>2, <3>3, <3>4 DEF S
      <4> QED
        BY <4>1, LeastNat
    <3>6. Min(S) \in S
      BY <3>5 DEF Min
    <3>7. myself_node' \in Range(nodes')
      BY <3>1, <3>3, <3>6 DEF S, Range
    <3>8. my_id' = my_id /\ input' = input /\ nodes' = nodes
      BY <1>5, <2>2 DEF FindMyself
    <3>9. argc >= 3 /\ argc' = argc
      BY <3>1, <3>8 DEF NodesInv, argc
    <3>10. input.argv[2].value \in Nat
      BY <3>9, ArgumentsAreNumbers DEF MainInv
    <3>11. myself_node'.id = my_id
      BY <3>1, <3>6 DEF S, IndicesOf
    <3>12. AsAsked'
      <4> DEFINE M == 2 ^ WordBits
                 v == input.argv[2].value
      <4>1. M \in Nat /\ M > 0 /\ v \in Nat /\ v' = v
        BY <3>8, <3>10, BoundsAssumption
      <4>2. myself_node'.id = v % M
        BY <3>11
      <4> HIDE DEF M, v
      <4>3. v >= M \/ v % M = v
        BY <4>1
      <4>4. myself_node'.id = v' \/ v' >= M
        BY <4>1, <4>2, <4>3
      <4> QED
        BY <4>4 DEF AsAsked, M, v
    <3> QED
      BY <3>1, <3>2, <3>7, <3>9, <3>12 DEF NodesInv
  <2> QED
    BY <2>1, <2>2
<1>6. CASE Bind
  <2>1. /\ stage = "bind" /\ stage' \in {"bind", "spawn"}
        /\ UNCHANGED <<input, nodes, myself_node>>
    BY <1>6 DEF Bind
  <2> QED
    BY <1>6, <2>1 DEF Bind, NodesInv, AsAsked, argc
<1> QED
  BY <1>1, <1>2, <1>3, <1>4, <1>5, <1>6 DEF ToThreads

----------------------------------------------------------------------------
(* Before the threads are started. *)

\* Nothing is in the queues and streams, and nothing has been produced.
LEMMA NothingProduced ==
  ASSUME NothingStarted
  PROVE  /\ \A k \in Kind : queue[k] = <<>> /\ Produced(k) = 0
         /\ \A d \in Dumper : buffer[d] = <<>> /\ until_size[d] = 0
         /\ pc["writer"] = "poll" /\ pc["handler"] = "none"
BY DEF NothingStarted, Produced, Kind, Dumper

\* An event is of a kind, and events are numbered from 1.
LEMMA EventIs ==
  \A e \in Event : e.kind \in Kind /\ e.uid \in Nat /\ e.uid >= 1 /\ e.uid <= MaxMsgs
BY BoundsAssumption DEF Event, Uid

\* The stages of the two loops of dump_to_output.
LEMMA LoopStages ==
  /\ Test["b"] = "test_b" /\ Take["b"] = "take_b"
  /\ Test["d"] = "test_d" /\ Take["d"] = "take_d"
  /\ \A k \in Kind : k = "b" \/ k = "d"
  /\ \A k \in Kind : Test[k] \in {"test_b", "test_d"} /\ Take[k] \in {"take_b", "take_d"}
  /\ \A k, l \in Kind : (Test[k] = Test[l] => k = l) /\ (Take[k] = Take[l] => k = l)
<1>1. /\ Test["b"] = "test_b" /\ Take["b"] = "take_b"
      /\ Test["d"] = "test_d" /\ Take["d"] = "take_d"
  BY DEF Test, Take
<1>2. \A k \in Kind : k = "b" \/ k = "d"
  BY DEF Kind
<1> QED
  BY <1>1, <1>2

LEMMA InitShutdown == Init => ShutdownInv
<1> SUFFICES ASSUME Init
             PROVE  ShutdownInv
  OBVIOUS
<1>1. NothingStarted
  BY DEF Init, NothingStarted
<1>2. /\ \A k \in Kind : queue[k] = <<>> /\ Produced(k) = 0
      /\ \A d \in Dumper : buffer[d] = <<>> /\ until_size[d] = 0
      /\ pc["writer"] = "poll" /\ pc["handler"] = "none"
  BY <1>1, NothingProduced
<1>3. /\ input \in Inputs /\ stage = "parse" /\ spawned = 0 /\ ~finito
      /\ msgs_to_send_count = 0 /\ process = "running"
      /\ output_file = <<[kind |-> "b", uid |-> 1]>>
      /\ at_signal = [b |-> 0, d |-> 0, started |-> 0]
      /\ finito \in BOOLEAN
  BY DEF Init, StartupInit
<1>4. TypeOK
  <2>1. 0 \in 0..MaxMsgs /\ 0 \in 0..msgs_to_send_count
    BY <1>3, BoundsAssumption
  <2>2. queue \in [Kind -> Seq(Event)] /\ buffer \in [Dumper -> Seq(Event)]
    BY DEF Init
  <2>3. output_file \in Seq(Event)
    <3>1. [kind |-> "b", uid |-> 1] \in Event
      BY BoundsAssumption DEF Event, Kind, Uid
    <3> QED
      BY <1>3, <3>1
  <2>4. pc \in [Dumper -> {"poll", "none", "test_b", "take_b", "test_d",
                           "take_d", "close", "join", "ended"}]
    BY DEF Init
  <2>5. until_size \in [Dumper -> 0..msgs_to_send_count]
    BY <2>1 DEF Init
  <2> QED
    BY <1>3, <2>1, <2>2, <2>3, <2>4, <2>5 DEF Init, TypeOK
<1>5. MainInv
  <2>1. 0 \in 0..MaxMsgs /\ 0 \in 0..Len(SpawnOrder)
    BY BoundsAssumption DEF SpawnOrder
  <2> QED
    BY <1>1, <1>3, <2>1 DEF MainInv
<1>6. NodesInv
  BY <1>3 DEF NodesInv
<1>7. EnqueuerInv
  BY <1>1, <1>3 DEF EnqueuerInv, NothingStarted, AtMostABatch
<1>8. QueueInv
  BY <1>2 DEF QueueInv
<1>9. DumperInv
  BY <1>2 DEF DumperInv, Dumper
<1>10. WriterInv /\ HandlerInv /\ EventsConserved
  BY <1>2, <1>3 DEF WriterInv, HandlerInv, EventsConserved
<1> QED
  BY <1>4, <1>5, <1>6, <1>7, <1>8, <1>9, <1>10 DEF ShutdownInv

\* The steps of main before the threads: there is no event yet to lose.
LEMMA ToThreadsShutdown ==
  ASSUME ShutdownInv, ToThreads, OpenOutput \/ UNCHANGED output_file,
         UNCHANGED <<producers, queue, pc, until_size, buffer, at_signal>>
  PROVE  ShutdownInv'
<1> USE DEF ShutdownInv, producers
<1>1. /\ process = "running" /\ ~finito /\ stage # "spawn"
      /\ input' = input /\ spawned' = spawned /\ finito' = finito
      /\ stage' \in {"parse", "hosts", "output", "config", "myself", "bind", "spawn"}
      /\ process' \in {"running", "refused", "unbound", "crashed"}
      /\ msgs_to_send_count' \in 0..MaxMsgs
      /\ stage' \in {"config", "myself", "bind", "spawn"} => output_file' = <<>>
  BY StageSteps
<1>2. NothingStarted
  BY <1>1 DEF MainInv
<1>3. NothingStarted'
  BY <1>2 DEF NothingStarted
<1>4. /\ \A k \in Kind : queue[k] = <<>> /\ Produced(k) = 0
      /\ \A d \in Dumper : buffer[d] = <<>> /\ until_size[d] = 0
      /\ pc["writer"] = "poll" /\ pc["handler"] = "none"
  BY <1>2, NothingProduced
<1>5. \A k : Produced(k)' = Produced(k)
  BY DEF Produced
<1>6. TypeOK'
  <2>1. 0 \in 0..msgs_to_send_count'
    BY <1>1, BoundsAssumption
  <2>2. until_size' \in [Dumper -> 0..msgs_to_send_count']
    <3> DEFINE N == 0..msgs_to_send_count'
    <3>1. until_size' = [d \in Dumper |-> 0] /\ 0 \in N
      BY <1>2, <2>1 DEF NothingStarted
    <3> HIDE DEF N
    <3>2. until_size' \in [Dumper -> N]
      BY <3>1
    <3> QED
      BY <3>2 DEF N
  <2>3. output_file' \in Seq(Event)
    <3>1. output_file' = <<>> \/ output_file' = output_file
      BY DEF OpenOutput
    <3>2. <<>> \in Seq(Event) /\ output_file \in Seq(Event)
      BY DEF TypeOK
    <3> QED
      BY <3>1, <3>2
  <2>4. /\ enqueued_messages' \in 0..msgs_to_send_count'
        /\ enqueue_until' \in 0..msgs_to_send_count'
        /\ delivered' \in 0..msgs_to_send_count'
    BY <1>2, <2>1 DEF NothingStarted
  <2> QED
    BY <1>1, <2>2, <2>3, <2>4 DEF TypeOK
<1>7. MainInv'
  BY <1>1, <1>3 DEF MainInv
<1>8. NodesInv'
  BY StageNodes
<1>9. EnqueuerInv'
  BY <1>1 DEF EnqueuerInv, AtMostABatch
<1>10. QueueInv' /\ DumperInv'
  BY <1>1, <1>5 DEF QueueInv, DumperInv
<1>11. HandlerInv'
  BY <1>1, <1>4 DEF HandlerInv
<1>12. WriterInv'
  <2> SUFFICES ASSUME stage' = "spawn", NEW k \in Kind
               PROVE  /\ LET s == Kept(output_file' \o buffer'["writer"],
                                       {e \in Event : e.kind = k})
                         IN  /\ Len(s) + Len(queue'[k]) = Produced(k)'
                             /\ \A i \in DOMAIN s : s[i].uid = i
                      /\ pc'["writer"] = Take[k] => queue'[k] # <<>>
    BY DEF WriterInv
  <2>1. output_file' = <<>> /\ buffer'["writer"] = <<>> /\ queue'[k] = <<>>
    BY <1>1, <1>4 DEF Dumper
  <2>2. output_file' \o buffer'["writer"] = <<>>
    BY <2>1
  <2>3. Kept(output_file' \o buffer'["writer"], {e \in Event : e.kind = k}) = <<>>
    BY <2>2, KeptEmpty
  <2>4. Produced(k)' = 0 /\ pc'["writer"] = "poll"
    BY <1>4, <1>5
  <2>5. Take[k] # "poll"
    BY LoopStages
  <2>6. Len(<<>>) + Len(<<>>) = 0 /\ DOMAIN <<>> = {}
    OBVIOUS
  <2> QED
    BY <2>1, <2>3, <2>4, <2>5, <2>6
<1>13. EventsConserved'
  <2> SUFFICES ASSUME stage' = "spawn", NEW e \in Event
               PROVE  Places(e)' = IF e.uid <= Produced(e.kind)' THEN 1 ELSE 0
    BY DEF EventsConserved
  <2>1. e.kind \in Kind /\ e.uid \in Nat /\ e.uid >= 1
    BY EventIs
  <2>2. /\ queue'[e.kind] = <<>> /\ output_file' = <<>>
        /\ buffer'["writer"] = <<>> /\ buffer'["handler"] = <<>>
    BY <1>1, <1>4, <2>1 DEF Dumper
  <2>3. Places(e)' = Occurrences(queue'[e.kind], {e}) + Occurrences(buffer'["writer"], {e})
                       + Occurrences(buffer'["handler"], {e}) + Occurrences(output_file', {e})
    BY DEF Places
  <2>4. Places(e)' = 0
    BY <2>2, <2>3, OccurrencesEmpty
  <2>5. Produced(e.kind)' = 0
    BY <1>4, <1>5, <2>1
  <2> QED
    BY <2>1, <2>4, <2>5
<1> QED
  BY <1>6, <1>7, <1>8, <1>9, <1>10, <1>11, <1>12, <1>13

\* A thread is started.
LEMMA SpawnShutdown ==
  ASSUME ShutdownInv, Spawn, UNCHANGED <<threadVars, at_signal>>
  PROVE  ShutdownInv'
<1> USE DEF ShutdownInv
<1>1. /\ stage = "spawn" /\ spawned < Len(SpawnOrder) /\ spawned' = spawned + 1
      /\ UNCHANGED <<input, stage, settings, finito, process>>
  BY DEF Spawn, At
<1>2. UNCHANGED <<producers, queue, dumpers>>
  BY DEF threadVars
<1>3. \A k : Produced(k)' = Produced(k)
  BY <1>2 DEF Produced, producers
<1>4. TypeOK'
  BY <1>1, <1>2 DEF TypeOK, producers, dumpers, settings
<1>5. MainInv'
  <2>1. spawned' \in 0..Len(SpawnOrder)
    BY <1>1 DEF MainInv, SpawnOrder
  <2> QED
    BY <1>1, <2>1 DEF MainInv, settings
<1>6. NodesInv'
  BY <1>1 DEF NodesInv, settings, AsAsked, argc
<1>7. EnqueuerInv'
  BY <1>1, <1>2 DEF EnqueuerInv, AtMostABatch, producers
<1>8. QueueInv' /\ DumperInv'
  BY <1>1, <1>2, <1>3 DEF QueueInv, DumperInv, dumpers
<1>9. HandlerInv'
  BY <1>1, <1>2, <1>3 DEF HandlerInv, Drained, dumpers
<1>10. WriterInv'
  BY <1>1, <1>2, <1>3 DEF WriterInv, dumpers
<1>11. EventsConserved'
  BY <1>1, <1>2, <1>3 DEF EventsConserved, Places, dumpers
<1> QED
  BY <1>4, <1>5, <1>6, <1>7, <1>8, <1>9, <1>10, <1>11

\* The signal that comes before the threads are started ends the process.
LEMMA SignalTooEarlyShutdown ==
  ASSUME ShutdownInv, SignalTooEarly, UNCHANGED <<threadVars, at_signal>>
  PROVE  ShutdownInv'
<1> USE DEF ShutdownInv
<1>1. /\ stage # "spawn" /\ finito' /\ finito' \in BOOLEAN
      /\ process' = "crashed" /\ UNCHANGED <<input, stage, settings, spawned>>
  BY DEF SignalTooEarly
<1>2. UNCHANGED <<producers, queue, dumpers, at_signal>>
  BY DEF threadVars
<1>3. NothingStarted
  BY <1>1 DEF MainInv
<1>4. \A k : Produced(k)' = Produced(k)
  BY <1>2 DEF Produced, producers
<1>5. pc["handler"] = "none"
  BY <1>3, NothingProduced
<1>6. TypeOK'
  BY <1>1, <1>2 DEF TypeOK, producers, dumpers, settings
<1>7. MainInv'
  <2>1. NothingStarted'
    BY <1>2, <1>3 DEF NothingStarted, producers, dumpers
  <2> QED
    BY <1>1, <1>2, <2>1 DEF MainInv, settings, dumpers
<1>8. NodesInv'
  BY <1>1 DEF NodesInv, settings, AsAsked, argc
<1>9. EnqueuerInv'
  <2>1. /\ enqueued_messages' = 0 /\ enqueuer' = "test" /\ delivered' = 0
        /\ at_signal'.started \in Nat /\ Batch \in Nat
    BY <1>2, <1>3, BoundsAssumption DEF NothingStarted, producers, TypeOK
  <2> QED
    BY <2>1 DEF EnqueuerInv, AtMostABatch
<1>10. QueueInv'
  BY <1>2, <1>4 DEF QueueInv
<1>11. DumperInv'
  BY <1>1, <1>2 DEF DumperInv, dumpers
<1>12. HandlerInv'
  BY <1>1, <1>2, <1>5 DEF HandlerInv, dumpers
<1>13. WriterInv' /\ EventsConserved'
  BY <1>1 DEF WriterInv, EventsConserved
<1> QED
  BY <1>6, <1>7, <1>8, <1>9, <1>10, <1>11, <1>12, <1>13

----------------------------------------------------------------------------
(* Steps of the threads. *)

\* The process runs, and its threads are started.
Running ==
  /\ ShutdownInv
  /\ process = "running"
  /\ stage = "spawn"

\* A thread is started only in the last stage.
LEMMA StartedIsSpawn ==
  ASSUME MainInv, NEW t, Started(t)
  PROVE  stage = "spawn"
<1>1. PICK i \in 1..spawned : SpawnOrder[i] = t
  BY DEF Started
<1>2. spawned > 0
  BY <1>1 DEF MainInv, SpawnOrder
<1> QED
  BY <1>2 DEF MainInv

\* The steps of the threads leave main as it is.
LEMMA ThreadKeepsMain ==
  ASSUME Running, UNCHANGED startupVars
  PROVE  MainInv' /\ NodesInv'
<1> USE DEF Running, ShutdownInv, startupVars, settings
<1>1. MainInv'
  BY DEF MainInv
<1>2. NodesInv'
  BY DEF NodesInv, AsAsked, argc
<1> QED
  BY <1>1, <1>2

\* The numbers of events of each kind are numbers.
LEMMA NumbersOfEvents ==
  ASSUME TypeOK, MainInv, EnqueuerInv
  PROVE  \A k \in Kind : at_signal[k] \in 0..MaxMsgs /\ Produced(k) \in 0..MaxMsgs
<1>1. at_signal["b"] \in 0..MaxMsgs /\ at_signal["d"] \in 0..MaxMsgs
  BY DEF TypeOK
<1>2. msgs_to_send_count \in 0..MaxMsgs
  BY DEF MainInv
<1>3. Produced("d") \in 0..MaxMsgs
  BY <1>2, BoundsAssumption DEF Produced, TypeOK
<1>4. Produced("b") \in 0..MaxMsgs
  BY <1>2, BoundsAssumption DEF Produced, TypeOK, EnqueuerInv
<1> QED
  BY <1>1, <1>3, <1>4, LoopStages

\* The places of an event, counted, are numbers.
LEMMA PlacesAreNumbers ==
  ASSUME TypeOK, NEW S
  PROVE  /\ \A k \in Kind : Occurrences(queue[k], S) \in Nat
         /\ Occurrences(buffer["writer"], S) \in Nat
         /\ Occurrences(buffer["handler"], S) \in Nat
         /\ Occurrences(output_file, S) \in Nat
<1>1. /\ \A k \in Kind : queue[k] \in Seq(Event)
      /\ buffer["writer"] \in Seq(Event)
      /\ buffer["handler"] \in Seq(Event)
      /\ output_file \in Seq(Event)
  BY DEF TypeOK, Dumper
<1>2. ASSUME NEW s \in Seq(Event)
      PROVE  Occurrences(s, S) \in Nat
  <2>1. Occurrences(s, S) \in 0..Len(s)
    BY PositionsFinite
  <2>2. Len(s) \in Nat
    OBVIOUS
  <2> QED
    BY <2>1, <2>2
<1> QED
  BY <1>1, <1>2

\* No event is produced or moved.
LEMMA EventsStay ==
  ASSUME Running, UNCHANGED <<startupVars, at_signal, queue, dumpers>>,
         \A k \in Kind : Produced(k)' = Produced(k)
  PROVE  QueueInv' /\ DumperInv' /\ WriterInv' /\ HandlerInv' /\ EventsConserved'
<1> USE DEF Running, ShutdownInv, startupVars, dumpers
<1>1. QueueInv'
  BY DEF QueueInv
<1>2. DumperInv'
  BY DEF DumperInv
<1>3. WriterInv'
  BY DEF WriterInv
<1>4. HandlerInv'
  BY DEF HandlerInv, Drained
<1>5. EventsConserved'
  BY EventIs DEF EventsConserved, Places
<1> QED
  BY <1>1, <1>2, <1>3, <1>4, <1>5

\* The next event of a kind is put on its queue.
LEMMA EventProduced ==
  ASSUME Running, UNCHANGED <<startupVars, at_signal, dumpers>>, NEW k \in Kind,
         Produced(k)' = Produced(k) + 1,
         \A l \in Kind : l # k => Produced(l)' = Produced(l),
         queue' = [queue EXCEPT ![k] = Append(@, [kind |-> k, uid |-> Produced(k) + 1])],
         Produced(k) + 1 \in Uid
  PROVE  /\ queue' \in [Kind -> Seq(Event)]
         /\ QueueInv' /\ DumperInv' /\ WriterInv' /\ HandlerInv' /\ EventsConserved'
<1> DEFINE new == [kind |-> k, uid |-> Produced(k) + 1]
           P   == Produced(k)
           q   == queue[k]
<1>1. \A l \in Kind : at_signal[l] \in 0..MaxMsgs /\ Produced(l) \in 0..MaxMsgs
  BY NumbersOfEvents DEF Running, ShutdownInv
<1>2. P \in Nat
  BY <1>1, BoundsAssumption
<1>3. queue \in [Kind -> Seq(Event)] /\ q \in Seq(Event) /\ new \in Event
  BY DEF Running, ShutdownInv, TypeOK, Event
<1> HIDE DEF new
<1>4. queue' = [queue EXCEPT ![k] = Append(q, new)]
  BY DEF new
<1>5. queue'[k] = Append(q, new) /\ \A l \in Kind : l # k => queue'[l] = queue[l]
  BY <1>3, <1>4
<1>6. Append(q, new) \in Seq(Event)
  BY <1>3
<1>7. queue' \in [Kind -> Seq(Event)]
  BY <1>3, <1>4, <1>6
<1>8. /\ Len(q) \in Nat /\ Len(queue'[k]) = Len(q) + 1
      /\ DOMAIN q = 1..Len(q)
      /\ DOMAIN queue'[k] = 1..(Len(q) + 1)
      /\ \A i \in 1..Len(q) : queue'[k][i] = q[i]
      /\ queue'[k][Len(q) + 1] = new
  BY <1>3, <1>5
<1>9. /\ Len(q) <= P
      /\ \A i \in DOMAIN q : q[i] = [kind |-> k, uid |-> (P - Len(q)) + i]
  BY DEF Running, ShutdownInv, QueueInv
<1>10. Produced(k)' = P + 1
  OBVIOUS
<1>11. new.kind = k /\ new.uid = P + 1 /\ new = [kind |-> k, uid |-> P + 1]
  BY DEF new
<1> HIDE DEF P, q
<1>12. QueueInv'
  <2> SUFFICES ASSUME NEW l \in Kind
               PROVE  /\ Len(queue'[l]) <= Produced(l)'
                      /\ \A i \in DOMAIN queue'[l] :
                           queue'[l][i]
                             = [kind |-> l, uid |-> (Produced(l)' - Len(queue'[l])) + i]
    BY DEF QueueInv
  <2>1. CASE l = k
    <3>1. Len(queue'[k]) <= Produced(k)'
      BY <1>2, <1>8, <1>9, <1>10
    <3>2. ASSUME NEW i \in 1..(Len(q) + 1)
          PROVE  queue'[k][i] = [kind |-> k, uid |-> (Produced(k)' - Len(queue'[k])) + i]
      <4>1. (Produced(k)' - Len(queue'[k])) + i = (P - Len(q)) + i
        BY <1>2, <1>8, <1>10
      <4>2. CASE i \in 1..Len(q)
        BY <1>8, <1>9, <4>1, <4>2
      <4>3. CASE i = Len(q) + 1
        <5>1. (P - Len(q)) + i = P + 1
          BY <1>2, <1>8, <4>3
        <5> QED
          BY <1>8, <1>11, <4>1, <4>3, <5>1
      <4> QED
        BY <1>8, <4>2, <4>3
    <3> QED
      BY <1>8, <2>1, <3>1, <3>2
  <2>2. CASE l # k
    BY <1>5, <2>2 DEF Running, ShutdownInv, QueueInv
  <2> QED
    BY <2>1, <2>2
<1>13. DumperInv'
  BY DEF Running, ShutdownInv, DumperInv, dumpers, startupVars
<1>14. WriterInv'
  <2> SUFFICES ASSUME ~finito, NEW l \in Kind
               PROVE  /\ LET s == Kept(output_file \o buffer["writer"],
                                       {e \in Event : e.kind = l})
                         IN  /\ Len(s) + Len(queue'[l]) = Produced(l)'
                             /\ \A i \in DOMAIN s : s[i].uid = i
                      /\ pc["writer"] = Take[l] => queue'[l] # <<>>
    BY DEF WriterInv, dumpers, startupVars
  <2> DEFINE s == Kept(output_file \o buffer["writer"], {e \in Event : e.kind = l})
  <2>1. /\ Len(s) + Len(queue[l]) = Produced(l)
        /\ \A i \in DOMAIN s : s[i].uid = i
        /\ pc["writer"] = Take[l] => queue[l] # <<>>
    BY DEF Running, ShutdownInv, WriterInv
  <2>2. Len(s) \in Nat
    <3>1. output_file \o buffer["writer"] \in Seq(Event)
      BY DEF Running, ShutdownInv, TypeOK, Dumper
    <3>2. s \in Seq(Event)
      BY <3>1, KeptElements
    <3> HIDE DEF s
    <3> QED
      BY <3>2
  <2> HIDE DEF s
  <2>3. CASE l = k
    <3>1. Len(s) + Len(q) = P
      <4>1. Len(s) + Len(queue[l]) = Produced(l)
        BY <2>1
      <4>2. Len(s) + Len(queue[k]) = Produced(k)
        BY <2>3, <4>1
      <4> QED
        BY <4>2 DEF P, q
    <3>2. Len(s) + Len(queue'[k]) = P + 1
      <4> DEFINE a == Len(s)
                 b == Len(q)
      <4>1. a \in Nat /\ b \in Nat /\ a + b = P
        BY <1>8, <2>2, <3>1
      <4>2. Len(queue'[k]) = b + 1
        BY <1>8
      <4> HIDE DEF a, b
      <4>3. a + (b + 1) = P + 1
        BY <1>2, <4>1
      <4> QED
        BY <4>2, <4>3 DEF a
    <3>3. queue'[k] # <<>>
      BY <1>3, <1>5
    <3> QED
      BY <1>10, <2>1, <2>3, <3>2, <3>3 DEF s
  <2>4. CASE l # k
    BY <1>5, <2>1, <2>4 DEF s
  <2> QED
    BY <2>3, <2>4
<1>15. HandlerInv'
  <2> SUFFICES ASSUME pc["handler"] # "none", NEW l \in Kind
               PROVE  /\ at_signal[l] <= Produced(l)'
                      /\ Drained(l) =>
                           \A i \in DOMAIN queue'[l] : queue'[l][i].uid > at_signal[l]
    BY DEF HandlerInv, Drained, dumpers, startupVars, Running
  <2>1. /\ at_signal[l] <= Produced(l)
        /\ Drained(l) => \A i \in DOMAIN queue[l] : queue[l][i].uid > at_signal[l]
    BY DEF Running, ShutdownInv, HandlerInv
  <2>2. at_signal[l] \in Nat
    BY <1>1, BoundsAssumption
  <2>3. CASE l = k
    <3>1. at_signal[k] <= P
      BY <2>1, <2>3 DEF P
    <3>2. P + 1 > at_signal[k] /\ at_signal[k] <= P + 1
      BY <1>2, <2>2, <2>3, <3>1
    <3>3. Drained(k) => \A i \in 1..(Len(q) + 1) : queue'[k][i].uid > at_signal[k]
      <4> SUFFICES ASSUME Drained(k), NEW i \in 1..(Len(q) + 1)
                   PROVE  queue'[k][i].uid > at_signal[k]
        OBVIOUS
      <4>1. CASE i \in 1..Len(q)
        BY <1>8, <2>1, <2>3, <4>1 DEF q
      <4>2. CASE i = Len(q) + 1
        BY <1>8, <1>11, <3>2, <4>2
      <4> QED
        BY <1>8, <4>1, <4>2
    <3> QED
      BY <1>8, <1>10, <2>3, <3>2, <3>3
  <2>4. CASE l # k
    BY <1>5, <2>1, <2>4
  <2> QED
    BY <2>3, <2>4
<1>16. EventsConserved'
  <2> SUFFICES ASSUME NEW e \in Event
               PROVE  Places(e)' = IF e.uid <= Produced(e.kind)' THEN 1 ELSE 0
    BY DEF EventsConserved
  <2>1. e.kind \in Kind /\ e.uid \in Nat
    BY EventIs
  <2>2. Places(e) = IF e.uid <= Produced(e.kind) THEN 1 ELSE 0
    BY DEF Running, ShutdownInv, EventsConserved
  <2> DEFINE r == Occurrences(buffer["writer"], {e}) + Occurrences(buffer["handler"], {e})
                    + Occurrences(output_file, {e})
  <2>3. r \in Nat /\ Occurrences(queue[e.kind], {e}) \in Nat
    BY <2>1, PlacesAreNumbers DEF Running, ShutdownInv
  <2>4. Places(e) = Occurrences(queue[e.kind], {e}) + r
    BY <2>1, PlacesAreNumbers DEF Places, Running, ShutdownInv
  <2>5. Places(e)' = Occurrences(queue'[e.kind], {e}) + r
    <3>1. queue'[e.kind] \in Seq(Event)
      BY <1>7, <2>1
    <3>2. \A s \in Seq(Event) : Occurrences(s, {e}) \in Nat
      <4> SUFFICES ASSUME NEW s \in Seq(Event)
                   PROVE  Occurrences(s, {e}) \in Nat
        OBVIOUS
      <4>1. Occurrences(s, {e}) \in 0..Len(s)
        BY PositionsFinite
      <4>2. Len(s) \in Nat
        OBVIOUS
      <4> QED
        BY <4>1, <4>2
    <3>3. Occurrences(queue'[e.kind], {e}) \in Nat
      BY <3>1, <3>2
    <3>4. Places(e)' = Occurrences(queue'[e.kind], {e}) + Occurrences(buffer["writer"], {e})
                         + Occurrences(buffer["handler"], {e}) + Occurrences(output_file, {e})
      BY DEF Places, dumpers
    <3> QED
      BY <3>3, <3>4, PlacesAreNumbers DEF Running, ShutdownInv
  <2> HIDE DEF r
  <2>6. CASE e.kind = k
    <3>1. Occurrences(queue'[k], {e}) = Occurrences(q, {e}) + (IF new \in {e} THEN 1 ELSE 0)
      <4>1. q \in Seq(Event) /\ new \in Event
        BY <1>3
      <4>2. Occurrences(Append(q, new), {e})
              = Occurrences(q, {e}) + (IF new \in {e} THEN 1 ELSE 0)
        BY <4>1, OccurrencesAppend
      <4> QED
        BY <1>5, <4>2
    <3>2. new = e <=> e.uid = P + 1
      <4>1. e = [kind |-> e.kind, uid |-> e.uid]
        BY DEF Event
      <4> QED
        BY <1>11, <2>6, <4>1
    <3>3. Occurrences(q, {e}) + r = IF e.uid <= P THEN 1 ELSE 0
      BY <2>2, <2>4, <2>6 DEF P, q
    <3>4. Occurrences(q, {e}) \in Nat
      BY <2>3, <2>6 DEF q
    <3>5. Places(e)' = (Occurrences(q, {e}) + (IF e.uid = P + 1 THEN 1 ELSE 0)) + r
      BY <2>5, <2>6, <3>1, <3>2
    <3>6. Places(e)' = IF e.uid <= P + 1 THEN 1 ELSE 0
      BY <1>2, <2>1, <2>3, <3>3, <3>4, <3>5
    <3> QED
      BY <1>10, <2>6, <3>6
  <2>7. CASE e.kind # k
    <3>1. queue'[e.kind] = queue[e.kind] /\ Produced(e.kind)' = Produced(e.kind)
      BY <1>5, <2>1, <2>7
    <3> QED
      BY <2>2, <2>4, <2>5, <3>1
  <2> QED
    BY <2>6, <2>7
<1> QED
  BY <1>7, <1>12, <1>13, <1>14, <1>15, <1>16

----------------------------------------------------------------------------
(* The enqueuer and the receiver. *)

\* A batch has at least one packet, and at most Batch.
LEMMA BatchEnd ==
  ASSUME TypeOK, MainInv, enqueued_messages < msgs_to_send_count
  PROVE  LET until == Min({enqueued_messages + Batch, msgs_to_send_count})
         IN  /\ until \in 0..msgs_to_send_count
             /\ enqueued_messages < until
             /\ until <= enqueued_messages + Batch
<1> DEFINE S == {enqueued_messages + Batch, msgs_to_send_count}
           until == Min(S)
<1>1. /\ msgs_to_send_count \in Nat /\ enqueued_messages \in Nat
      /\ enqueued_messages + Batch \in Nat
      /\ enqueued_messages < enqueued_messages + Batch
  BY BoundsAssumption DEF TypeOK, MainInv
<1>2. \E x \in S : \A y \in S : x <= y
  BY <1>1
<1>3. until \in S /\ \A y \in S : until <= y
  BY <1>2 DEF Min
<1> HIDE DEF until
<1>4. /\ until \in 0..msgs_to_send_count
      /\ enqueued_messages < until
      /\ until <= enqueued_messages + Batch
  BY <1>1, <1>3
<1> QED
  BY <1>4 DEF until

LEMMA EnqueuerTestShutdown ==
  ASSUME Running, UNCHANGED <<startupVars, at_signal>>, EnqueuerTest
  PROVE  ShutdownInv'
<1> USE DEF Running, ShutdownInv
<1>1. /\ enqueuer = "test"
      /\ UNCHANGED <<enqueued_messages, receiver, delivered, queue, dumpers>>
      /\ UNCHANGED <<msgs_to_send_count, finito, process, at_signal>>
  BY DEF EnqueuerTest, startupVars, settings
<1>2. \/ /\ enqueuer' = "batch" /\ ~finito
         /\ enqueued_messages < msgs_to_send_count
         /\ enqueue_until' = Min({enqueued_messages + Batch, msgs_to_send_count})
      \/ enqueuer' = "ended" /\ enqueue_until' = enqueue_until
  BY DEF EnqueuerTest
<1>3. \A k \in Kind : Produced(k)' = Produced(k)
  BY <1>1, <1>2 DEF Produced
<1>4. \/ /\ enqueuer' = "batch" /\ ~finito
         /\ enqueue_until' \in 0..msgs_to_send_count
         /\ enqueued_messages < enqueue_until'
         /\ enqueue_until' <= enqueued_messages + Batch
      \/ enqueuer' = "ended" /\ enqueue_until' = enqueue_until
  BY <1>2, BatchEnd
<1>5. TypeOK'
  BY <1>1, <1>4 DEF TypeOK, dumpers
<1>6. EnqueuerInv'
  BY <1>1, <1>4 DEF EnqueuerInv, AtMostABatch
<1>7. MainInv' /\ NodesInv'
  BY ThreadKeepsMain
<1>8. QueueInv' /\ DumperInv' /\ WriterInv' /\ HandlerInv' /\ EventsConserved'
  BY <1>1, <1>3, EventsStay
<1> QED
  BY <1>5, <1>6, <1>7, <1>8

LEMMA EnqueuerBroadcastShutdown ==
  ASSUME Running, UNCHANGED <<startupVars, at_signal>>, EnqueuerBroadcast
  PROVE  ShutdownInv'
<1> USE DEF Running, ShutdownInv
<1>1. /\ enqueuer = "batch" /\ enqueuer' = "log"
      /\ enqueued_messages' = enqueued_messages + 1
      /\ UNCHANGED <<enqueue_until, receiver, delivered, queue, dumpers>>
      /\ UNCHANGED <<msgs_to_send_count, finito, process, at_signal>>
  BY DEF EnqueuerBroadcast, startupVars, settings
<1>2. /\ enqueued_messages \in Nat /\ enqueue_until \in Nat /\ delivered \in Nat
      /\ enqueued_messages < enqueue_until /\ enqueue_until <= msgs_to_send_count
      /\ delivered <= enqueued_messages /\ msgs_to_send_count \in Nat
      /\ at_signal.started \in Nat /\ Batch \in Nat
  BY <1>1, BoundsAssumption DEF TypeOK, EnqueuerInv, MainInv
<1>3. /\ enqueued_messages' \in 1..enqueue_until
      /\ enqueued_messages' \in 0..msgs_to_send_count
      /\ delivered <= enqueued_messages'
  BY <1>1, <1>2
<1>4. \A k \in Kind : Produced(k)' = Produced(k)
  <2>1. (enqueued_messages + 1) - 1 = enqueued_messages
    BY <1>2
  <2> QED
    BY <1>1, <2>1 DEF Produced
<1>5. TypeOK'
  BY <1>1, <1>3 DEF TypeOK, dumpers
<1>6. EnqueuerInv'
  <2>1. enqueue_until <= (IF finito THEN at_signal.started ELSE enqueued_messages) + Batch
    BY <1>1 DEF EnqueuerInv
  <2>2. enqueue_until' <= (IF finito' THEN at_signal'.started ELSE enqueued_messages') + Batch
    BY <1>1, <1>2, <2>1
  <2>3. finito' => enqueued_messages' <= at_signal'.started + Batch
    BY <1>1, <1>2, <2>1
  <2> QED
    BY <1>1, <1>3, <2>2, <2>3 DEF EnqueuerInv, AtMostABatch
<1>7. MainInv' /\ NodesInv'
  BY ThreadKeepsMain
<1>8. QueueInv' /\ DumperInv' /\ WriterInv' /\ HandlerInv' /\ EventsConserved'
  BY <1>1, <1>4, EventsStay
<1> QED
  BY <1>5, <1>6, <1>7, <1>8

LEMMA EnqueuerLogShutdown ==
  ASSUME Running, UNCHANGED <<startupVars, at_signal>>, EnqueuerLog
  PROVE  ShutdownInv'
<1> USE DEF Running, ShutdownInv
<1>1. /\ enqueuer = "log"
      /\ enqueuer' = IF enqueued_messages < enqueue_until THEN "batch" ELSE "test"
      /\ queue' = [queue EXCEPT !["b"] = Append(@, [kind |-> "b", uid |-> enqueued_messages])]
      /\ UNCHANGED <<enqueued_messages, enqueue_until, receiver, delivered, dumpers>>
      /\ UNCHANGED <<msgs_to_send_count, finito, process, at_signal>>
  BY DEF EnqueuerLog, startupVars, settings
<1>2. /\ enqueued_messages \in 1..enqueue_until
      /\ enqueue_until \in 0..msgs_to_send_count /\ msgs_to_send_count \in 0..MaxMsgs
  BY <1>1 DEF TypeOK, EnqueuerInv, MainInv
<1>3. /\ enqueued_messages \in Nat /\ (enqueued_messages - 1) + 1 = enqueued_messages
      /\ enqueued_messages \in Uid
  BY <1>2, BoundsAssumption DEF Uid
<1>4. /\ Produced("b") = enqueued_messages - 1
      /\ Produced("b")' = enqueued_messages
      /\ Produced("d")' = Produced("d")
  BY <1>1 DEF Produced
<1>5. "b" \in Kind /\ \A l \in Kind : l # "b" => l = "d"
  BY DEF Kind
<1>6. /\ queue' \in [Kind -> Seq(Event)]
      /\ QueueInv' /\ DumperInv' /\ WriterInv' /\ HandlerInv' /\ EventsConserved'
  <2>1. Produced("b") + 1 = enqueued_messages
    BY <1>3, <1>4
  <2>2. queue' = [queue EXCEPT !["b"] =
                    Append(@, [kind |-> "b", uid |-> Produced("b") + 1])]
    BY <1>1, <2>1
  <2>3. Produced("b")' = Produced("b") + 1
    BY <1>4, <2>1
  <2>4. \A l \in Kind : l # "b" => Produced(l)' = Produced(l)
    BY <1>4, <1>5
  <2>5. Produced("b") + 1 \in Uid
    BY <1>3, <2>1
  <2> QED
    BY <1>1, <1>5, <2>2, <2>3, <2>4, <2>5, EventProduced
<1>7. TypeOK'
  BY <1>1, <1>6 DEF TypeOK, dumpers
<1>8. EnqueuerInv'
  BY <1>1, <1>3 DEF EnqueuerInv, AtMostABatch
<1>9. MainInv' /\ NodesInv'
  BY ThreadKeepsMain
<1> QED
  BY <1>6, <1>7, <1>8, <1>9

LEMMA ReceiverPollShutdown ==
  ASSUME Running, UNCHANGED <<startupVars, at_signal>>, ReceiverPoll \/ ReceiverDone
  PROVE  ShutdownInv'
<1> USE DEF Running, ShutdownInv
<1>1. /\ receiver' \in {"poll", "handle", "ended"}
      /\ UNCHANGED <<enqueuer, enqueued_messages, enqueue_until, delivered, queue, dumpers>>
      /\ UNCHANGED <<msgs_to_send_count, finito, process, at_signal>>
  BY DEF ReceiverPoll, ReceiverDone, startupVars, settings
<1>2. \A k \in Kind : Produced(k)' = Produced(k)
  BY <1>1 DEF Produced
<1>3. TypeOK'
  BY <1>1 DEF TypeOK, dumpers
<1>4. EnqueuerInv'
  BY <1>1 DEF EnqueuerInv, AtMostABatch
<1>5. MainInv' /\ NodesInv'
  BY ThreadKeepsMain
<1>6. QueueInv' /\ DumperInv' /\ WriterInv' /\ HandlerInv' /\ EventsConserved'
  BY <1>1, <1>2, EventsStay
<1> QED
  BY <1>3, <1>4, <1>5, <1>6

LEMMA DeliverShutdown ==
  ASSUME Running, UNCHANGED <<startupVars, at_signal>>, Deliver
  PROVE  ShutdownInv'
<1> USE DEF Running, ShutdownInv
<1>1. /\ delivered < enqueued_messages
      /\ delivered' = delivered + 1
      /\ queue' = [queue EXCEPT !["d"] = Append(@, [kind |-> "d", uid |-> delivered + 1])]
      /\ UNCHANGED <<enqueuer, enqueued_messages, enqueue_until, receiver, dumpers>>
      /\ UNCHANGED <<msgs_to_send_count, finito, process, at_signal>>
  BY DEF Deliver, startupVars, settings
<1>2. /\ delivered \in 0..msgs_to_send_count /\ enqueued_messages \in 0..msgs_to_send_count
      /\ msgs_to_send_count \in 0..MaxMsgs
  BY DEF TypeOK, MainInv
<1>3. /\ delivered + 1 \in Uid
      /\ delivered' \in 0..msgs_to_send_count
      /\ delivered' <= enqueued_messages
  BY <1>1, <1>2, BoundsAssumption DEF Uid
<1>4. /\ Produced("d") = delivered
      /\ Produced("d")' = delivered + 1
      /\ Produced("b")' = Produced("b")
  BY <1>1 DEF Produced
<1>5. "d" \in Kind /\ \A l \in Kind : l # "d" => l = "b"
  BY DEF Kind
<1>6. /\ queue' \in [Kind -> Seq(Event)]
      /\ QueueInv' /\ DumperInv' /\ WriterInv' /\ HandlerInv' /\ EventsConserved'
  <2>1. queue' = [queue EXCEPT !["d"] =
                    Append(@, [kind |-> "d", uid |-> Produced("d") + 1])]
    BY <1>1, <1>4
  <2>2. Produced("d")' = Produced("d") + 1 /\ Produced("d") + 1 \in Uid
    BY <1>3, <1>4
  <2>3. \A l \in Kind : l # "d" => Produced(l)' = Produced(l)
    BY <1>4, <1>5
  <2> QED
    BY <1>1, <1>5, <2>1, <2>2, <2>3, EventProduced
<1>7. TypeOK'
  BY <1>1, <1>3, <1>6 DEF TypeOK, dumpers
<1>8. EnqueuerInv'
  BY <1>1, <1>3 DEF EnqueuerInv, AtMostABatch
<1>9. MainInv' /\ NodesInv'
  BY ThreadKeepsMain
<1> QED
  BY <1>6, <1>7, <1>8, <1>9

----------------------------------------------------------------------------
(* The writer thread and stop. *)

\* What keep_dumping_to_output leaves on the queues is not more than there is.
LEMMA UntilSizeIs ==
  ASSUME NEW n \in Nat
  PROVE  UntilSize(n) \in 0..n
<1> DEFINE M == 2 ^ WordBits
           u == (n - DUMPING_CHUNK) % M
<1>1. M \in Nat /\ M > 0 /\ DUMPING_CHUNK \in Nat
  <2>1. M \in Nat /\ M > DUMPING_CHUNK + MaxMsgs /\ DUMPING_CHUNK \in Nat /\ MaxMsgs \in Nat
    BY BoundsAssumption
  <2> HIDE DEF M
  <2> QED
    BY <2>1
<1>2. UntilSize(n) = IF u > n THEN 0 ELSE u
  BY DEF UntilSize
<1>3. u \in Nat
  <2> HIDE DEF M
  <2> QED
    BY <1>1
<1> HIDE DEF u
<1> QED
  BY <1>2, <1>3

\* There are no more deliveries on the queue than packets to send.
LEMMA DeliverableIsShort ==
  ASSUME ShutdownInv
  PROVE  Len(queue["d"]) \in 0..msgs_to_send_count
<1>1. queue["d"] \in Seq(Event) /\ delivered \in 0..msgs_to_send_count
  BY DEF ShutdownInv, TypeOK, Kind
<1>2. Len(queue["d"]) <= delivered
  BY DEF ShutdownInv, QueueInv, Produced, Kind
<1>3. Len(queue["d"]) \in Nat /\ msgs_to_send_count \in Nat
  BY <1>1, BoundsAssumption DEF ShutdownInv, MainInv
<1> QED
  BY <1>1, <1>2, <1>3

LEMMA WriterPollShutdown ==
  ASSUME Running, UNCHANGED <<startupVars, at_signal>>, WriterPoll
  PROVE  ShutdownInv'
<1> USE DEF Running, ShutdownInv
<1>1. /\ pc["writer"] = "poll"
      /\ UNCHANGED <<producers, queue, buffer, output_file>>
      /\ UNCHANGED <<stage, msgs_to_send_count, finito, process, at_signal>>
      /\ \/ /\ finito
            /\ pc' = [pc EXCEPT !["writer"] = "ended"]
            /\ until_size' = until_size
         \/ /\ pc' = [pc EXCEPT !["writer"] = Test["b"]]
            /\ until_size' = [until_size EXCEPT !["writer"] = UntilSize(Len(queue["d"]))]
  BY DEF WriterPoll, startupVars, settings
<1>2. UntilSize(Len(queue["d"])) \in 0..msgs_to_send_count
  <2> DEFINE n == Len(queue["d"])
  <2>1. n \in 0..msgs_to_send_count /\ msgs_to_send_count \in Nat
    BY DeliverableIsShort, BoundsAssumption DEF MainInv
  <2> HIDE DEF n
  <2>2. UntilSize(n) \in 0..n
    BY <2>1, UntilSizeIs
  <2> QED
    BY <2>1, <2>2 DEF n
<1>3. pc \in [Dumper -> {"poll", "none", "test_b", "take_b", "test_d",
                         "take_d", "close", "join", "ended"}]
  BY DEF TypeOK
<1>4. /\ pc' \in [Dumper -> {"poll", "none", "test_b", "take_b", "test_d",
                             "take_d", "close", "join", "ended"}]
      /\ pc'["writer"] \in {"ended", "test_b"}
      /\ pc'["handler"] = pc["handler"]
      /\ pc'["writer"] = "ended" => finito
  BY <1>1, <1>3, LoopStages DEF Dumper
<1>5. /\ until_size' \in [Dumper -> 0..msgs_to_send_count]
      /\ until_size'["handler"] = until_size["handler"]
  BY <1>1, <1>2 DEF TypeOK, Dumper
<1>6. \A k : Produced(k)' = Produced(k)
  BY <1>1 DEF Produced, producers
<1>7. TypeOK'
  BY <1>1, <1>4, <1>5 DEF TypeOK, producers
<1>8. EnqueuerInv'
  BY <1>1 DEF EnqueuerInv, AtMostABatch, producers
<1>9. MainInv' /\ NodesInv'
  BY ThreadKeepsMain
<1>10. QueueInv' /\ EventsConserved'
  BY <1>1, <1>6 DEF QueueInv, EventsConserved, Places
<1>11. DumperInv'
  BY <1>1, <1>4, <1>5 DEF DumperInv
<1>12. WriterInv'
  <2>1. \A k \in Kind : pc'["writer"] # Take[k]
    BY <1>4, LoopStages
  <2> QED
    BY <1>1, <1>6, <2>1 DEF WriterInv
<1>13. HandlerInv'
  BY <1>1, <1>4, <1>6 DEF HandlerInv, Drained
<1> QED
  BY <1>7, <1>8, <1>9, <1>10, <1>11, <1>12, <1>13

LEMMA DumpTestShutdown ==
  ASSUME Running, UNCHANGED <<startupVars, at_signal>>, NEW d \in Dumper, DumpTest(d)
  PROVE  ShutdownInv'
<1> USE DEF Running, ShutdownInv
<1>1. PICK k \in Kind :
        /\ pc[d] = Test[k]
        /\ pc' = [pc EXCEPT ![d] = IF HasMore(d, k) THEN Take[k]
                                   ELSE IF k = "b" THEN Test["d"] ELSE "close"]
  BY DEF DumpTest
<1>2. /\ UNCHANGED <<producers, queue, until_size, buffer, output_file>>
      /\ UNCHANGED <<stage, msgs_to_send_count, finito, process, at_signal>>
  BY DEF DumpTest, startupVars, settings
<1>3. pc \in [Dumper -> {"poll", "none", "test_b", "take_b", "test_d",
                         "take_d", "close", "join", "ended"}]
  BY DEF TypeOK
<1> DEFINE next == IF HasMore(d, k) THEN Take[k] ELSE IF k = "b" THEN "test_d" ELSE "close"
<1>4. next \in {"take_b", "take_d", "test_d", "close"}
  BY LoopStages
<1>5. pc' = [pc EXCEPT ![d] = next]
  BY <1>1, LoopStages
<1> HIDE DEF next
<1>6. /\ pc' \in [Dumper -> {"poll", "none", "test_b", "take_b", "test_d",
                             "take_d", "close", "join", "ended"}]
      /\ pc'[d] = next
      /\ \A c \in Dumper : c # d => pc'[c] = pc[c]
  BY <1>3, <1>4, <1>5
<1>7. \A j : Produced(j)' = Produced(j)
  BY <1>2 DEF Produced, producers
<1>8. TypeOK'
  BY <1>2, <1>6 DEF TypeOK, producers
<1>9. EnqueuerInv'
  BY <1>2 DEF EnqueuerInv, AtMostABatch, producers
<1>10. MainInv' /\ NodesInv'
  BY ThreadKeepsMain
<1>11. QueueInv' /\ EventsConserved'
  BY <1>2, <1>7 DEF QueueInv, EventsConserved, Places
<1>12. d = "writer" \/ d = "handler"
  BY DEF Dumper
<1>13. pc[d] \in {"test_b", "test_d"}
  BY <1>1, LoopStages
<1>14. ~finito => d = "writer"
  BY <1>12, <1>13 DEF DumperInv
<1>15. DumperInv'
  BY <1>2, <1>4, <1>6, <1>12, <1>14 DEF DumperInv, Dumper
<1>16. /\ queue[k] \in Seq(Event) /\ until_size[d] \in Nat
       /\ HasMore(d, k) => queue[k] # <<>>
  <2>1. queue[k] \in Seq(Event)
    BY DEF TypeOK
  <2>2. until_size[d] \in 0..msgs_to_send_count /\ msgs_to_send_count \in Nat
    BY BoundsAssumption DEF TypeOK, MainInv
  <2>3. until_size[d] \in Nat
    BY <2>2
  <2>4. HasMore(d, k) => queue[k] # <<>>
    BY <2>1, <2>3 DEF HasMore
  <2> QED
    BY <2>1, <2>3, <2>4
<1>17. WriterInv'
  <2> SUFFICES ASSUME ~finito
               PROVE  WriterInv'
    BY <1>2 DEF WriterInv
  <2>1. d = "writer"
    BY <1>14
  <2>2. \A l \in Kind : next = Take[l] => queue[l] # <<>>
    <3> SUFFICES ASSUME NEW l \in Kind, next = Take[l]
                 PROVE  queue[l] # <<>>
      OBVIOUS
    <3>1. HasMore(d, k) /\ next = Take[k]
      <4>1. Take[l] # "test_d" /\ Take[l] # "close"
        BY LoopStages
      <4> QED
        BY <4>1 DEF next
    <3>2. l = k
      BY <3>1, LoopStages
    <3> QED
      BY <1>16, <3>1, <3>2
  <2> QED
    BY <1>2, <1>6, <1>7, <2>1, <2>2 DEF WriterInv
<1>18. HandlerInv'
  <2>1. CASE d = "writer"
    <3>1. pc'["handler"] = pc["handler"]
      BY <1>6, <2>1 DEF Dumper
    <3> QED
      BY <1>2, <1>7, <3>1 DEF HandlerInv, Drained
  <2>2. CASE d = "handler"
    <3>1. ~HasMore(d, k) => queue[k] = <<>>
      <4>1. until_size[d] = 0
        BY <2>2 DEF DumperInv
      <4>2. Len(queue[k]) = 0 => queue[k] = <<>>
        BY <1>16
      <4>3. Len(queue[k]) \in Nat
        BY <1>16
      <4> QED
        BY <4>1, <4>2, <4>3 DEF HasMore
    <3>2. \A l \in Kind : Drained(l)' => Drained(l) \/ queue[l] = <<>>
      <4> SUFFICES ASSUME NEW l \in Kind, Drained(l)'
                   PROVE  Drained(l) \/ queue[l] = <<>>
        OBVIOUS
      <4>1. next \in {"close", "join"} \cup (IF l = "b" THEN {"test_d", "take_d"} ELSE {})
        BY <1>6, <2>2 DEF Drained
      <4>2. CASE HasMore(d, k)
        <5>1. next = Take[k]
          BY <4>2 DEF next
        <5>2. k = "d" /\ l = "b"
          BY <4>1, <5>1, LoopStages
        <5>3. pc["handler"] = "test_d"
          BY <1>1, <2>2, <5>2, LoopStages
        <5> QED
          BY <5>2, <5>3 DEF Drained
      <4>3. CASE ~HasMore(d, k)
        <5>1. queue[k] = <<>>
          BY <3>1, <4>3
        <5>2. CASE k = l
          BY <5>1, <5>2
        <5>3. CASE k # l
          <6>1. k = "d" /\ l = "b"
            BY <4>1, <4>3, <5>3, LoopStages DEF next
          <6>2. pc["handler"] = "test_d"
            BY <1>1, <2>2, <6>1, LoopStages
          <6> QED
            BY <6>1, <6>2 DEF Drained
        <5> QED
          BY <5>2, <5>3
      <4> QED
        BY <4>2, <4>3
    <3>3. pc["handler"] # "none"
      BY <1>13, <2>2
    <3>4. \A l \in Kind :
            /\ at_signal[l] <= Produced(l)
            /\ Drained(l) => \A i \in DOMAIN queue[l] : queue[l][i].uid > at_signal[l]
      BY <3>3 DEF HandlerInv
    <3>5. \A l \in Kind : queue[l] = <<>> =>
            \A i \in DOMAIN queue[l] : queue[l][i].uid > at_signal[l]
      <4>1. DOMAIN <<>> = {}
        OBVIOUS
      <4> QED
        BY <4>1
    <3>6. process' # "exited"
      BY <1>2
    <3> QED
      BY <1>2, <1>7, <3>2, <3>4, <3>5, <3>6 DEF HandlerInv
  <2> QED
    BY <1>12, <2>1, <2>2
<1> QED
  BY <1>8, <1>9, <1>10, <1>11, <1>15, <1>17, <1>18

\* What a dequeue does to a queue.
LEMMA TailIs ==
  ASSUME NEW q \in Seq(Event), q # <<>>
  PROVE  /\ Tail(q) \in Seq(Event) /\ Head(q) \in Event
         /\ Len(q) \in Nat /\ Len(q) >= 1 /\ Len(Tail(q)) = Len(q) - 1
         /\ DOMAIN q = 1..Len(q) /\ DOMAIN Tail(q) = 1..(Len(q) - 1)
         /\ Head(q) = q[1]
         /\ \A i \in 1..(Len(q) - 1) : Tail(q)[i] = q[i + 1]
OBVIOUS

LEMMA DumpTakeShutdown ==
  ASSUME Running, UNCHANGED <<startupVars, at_signal>>, NEW d \in Dumper, DumpTake(d)
  PROVE  ShutdownInv'
<1> USE DEF Running, ShutdownInv
<1>1. PICK k \in Kind :
        /\ pc[d] = Take[k]
        /\ queue[k] # <<>>
        /\ queue' = [queue EXCEPT ![k] = Tail(@)]
        /\ buffer' = [buffer EXCEPT ![d] = Append(@, Head(queue[k]))]
        /\ pc' = [pc EXCEPT ![d] = Test[k]]
  BY DEF DumpTake
<1>2. /\ UNCHANGED <<producers, until_size, output_file>>
      /\ UNCHANGED <<stage, msgs_to_send_count, finito, process, at_signal>>
  BY DEF DumpTake, startupVars, settings
<1>3. /\ pc \in [Dumper -> {"poll", "none", "test_b", "take_b", "test_d",
                            "take_d", "close", "join", "ended"}]
      /\ queue \in [Kind -> Seq(Event)]
      /\ buffer \in [Dumper -> Seq(Event)]
      /\ output_file \in Seq(Event)
  BY DEF TypeOK
<1> DEFINE q == queue[k]
           x == Head(q)
           b == buffer[d]
<1>4. /\ q \in Seq(Event) /\ q # <<>> /\ b \in Seq(Event)
  BY <1>1, <1>3
<1>5. /\ Tail(q) \in Seq(Event) /\ x \in Event
      /\ Len(q) \in Nat /\ Len(q) >= 1 /\ Len(Tail(q)) = Len(q) - 1
      /\ DOMAIN q = 1..Len(q) /\ DOMAIN Tail(q) = 1..(Len(q) - 1)
      /\ x = q[1]
      /\ \A i \in 1..(Len(q) - 1) : Tail(q)[i] = q[i + 1]
  <2> HIDE DEF q
  <2> QED
    BY <1>4, TailIs
<1>6. Append(b, x) \in Seq(Event)
  <2> HIDE DEF b, x
  <2> QED
    BY <1>4, <1>5
<1>7. /\ queue' = [queue EXCEPT ![k] = Tail(q)]
      /\ buffer' = [buffer EXCEPT ![d] = Append(b, x)]
  BY <1>1
<1> HIDE DEF q, x, b
<1>8. /\ queue' \in [Kind -> Seq(Event)]
      /\ queue'[k] = Tail(q)
      /\ \A l \in Kind : l # k => queue'[l] = queue[l]
      /\ buffer' \in [Dumper -> Seq(Event)]
      /\ buffer'[d] = Append(b, x)
      /\ \A c \in Dumper : c # d => buffer'[c] = buffer[c]
  BY <1>3, <1>5, <1>6, <1>7
<1>9. Test[k] \in {"test_b", "test_d"} /\ pc[d] \in {"take_b", "take_d"}
  BY <1>1, LoopStages
<1>10. /\ pc' \in [Dumper -> {"poll", "none", "test_b", "take_b", "test_d",
                              "take_d", "close", "join", "ended"}]
       /\ pc'[d] = Test[k]
       /\ \A c \in Dumper : c # d => pc'[c] = pc[c]
  BY <1>1, <1>3, <1>9
<1>11. \A j : Produced(j)' = Produced(j)
  BY <1>2 DEF Produced, producers
<1>12. d = "writer" \/ d = "handler"
  BY DEF Dumper
<1>13. ~finito => d = "writer"
  BY <1>9, <1>12 DEF DumperInv
<1>14. TypeOK'
  BY <1>2, <1>8, <1>10 DEF TypeOK, producers
<1>15. EnqueuerInv'
  BY <1>2 DEF EnqueuerInv, AtMostABatch, producers
<1>16. MainInv' /\ NodesInv'
  BY ThreadKeepsMain
<1>17. DumperInv'
  BY <1>2, <1>8, <1>9, <1>10, <1>12, <1>13 DEF DumperInv, Dumper
<1> DEFINE P == Produced(k)
<1>18. P \in Nat
  BY NumbersOfEvents, BoundsAssumption
<1>19. /\ Len(q) <= P
       /\ \A i \in DOMAIN q : q[i] = [kind |-> k, uid |-> (P - Len(q)) + i]
  BY DEF QueueInv, q
<1> HIDE DEF P
<1>20. x.kind = k /\ x.uid = (P - Len(q)) + 1
  <2>1. 1 \in DOMAIN q
    BY <1>5
  <2> QED
    BY <1>5, <1>19, <2>1
<1>21. QueueInv'
  <2> SUFFICES ASSUME NEW l \in Kind
               PROVE  /\ Len(queue'[l]) <= Produced(l)
                      /\ \A i \in DOMAIN queue'[l] :
                           queue'[l][i]
                             = [kind |-> l, uid |-> (Produced(l) - Len(queue'[l])) + i]
    BY <1>11 DEF QueueInv
  <2>1. CASE l = k
    <3>1. Len(queue'[k]) <= P
      BY <1>5, <1>8, <1>18, <1>19
    <3>2. ASSUME NEW i \in 1..(Len(q) - 1)
          PROVE  Tail(q)[i] = [kind |-> k, uid |-> (P - (Len(q) - 1)) + i]
      <4>1. i + 1 \in DOMAIN q
        BY <1>5
      <4>2. (P - Len(q)) + (i + 1) = (P - (Len(q) - 1)) + i
        BY <1>5, <1>18
      <4> QED
        BY <1>5, <1>19, <4>1, <4>2
    <3> QED
      BY <1>5, <1>8, <2>1, <3>1, <3>2 DEF P
  <2>2. CASE l # k
    BY <1>8, <2>2 DEF QueueInv
  <2> QED
    BY <2>1, <2>2
<1>22. WriterInv'
  <2> SUFFICES ASSUME ~finito, NEW l \in Kind
               PROVE  /\ LET s == Kept(output_file \o buffer'["writer"],
                                       {e \in Event : e.kind = l})
                         IN  /\ Len(s) + Len(queue'[l]) = Produced(l)
                             /\ \A i \in DOMAIN s : s[i].uid = i
                      /\ pc'["writer"] = Take[l] => queue'[l] # <<>>
    BY <1>2, <1>11 DEF WriterInv
  <2>1. d = "writer"
    BY <1>13
  <2>2. pc'["writer"] # Take[l]
    BY <1>9, <1>10, <2>1, LoopStages
  <2> DEFINE S == {e \in Event : e.kind = l}
             w == output_file \o b
             s == Kept(w, S)
             t == Kept(output_file \o buffer'["writer"], S)
  <2>3. /\ Len(s) + Len(queue[l]) = Produced(l)
        /\ \A i \in DOMAIN s : s[i].uid = i
    BY <2>1 DEF WriterInv, b
  <2>4. w \in Seq(Event)
    BY <1>3, <1>4
  <2>5. output_file \o buffer'["writer"] = Append(w, x)
    <3>1. output_file \in Seq(Event) /\ b \in Seq(Event) /\ x \in Event
      BY <1>3, <1>4, <1>5
    <3>2. Joined(output_file, Append(b, x)) = Append(Joined(output_file, b), x)
      BY <3>1, JoinedAppend
    <3>3. buffer'["writer"] = Append(b, x)
      BY <1>8, <2>1
    <3> QED
      BY <3>2, <3>3 DEF Joined
  <2> HIDE DEF w
  <2>6. Kept(Append(w, x), S) = IF x \in S THEN Append(Kept(w, S), x) ELSE Kept(w, S)
    <3>1. x \in Event
      BY <1>5
    <3> HIDE DEF S
    <3> QED
      BY <2>4, <3>1, KeptAppend
  <2>7. t = IF x \in S THEN Append(s, x) ELSE s
    BY <2>5, <2>6
  <2>8. s \in Seq(Event)
    <3> HIDE DEF S
    <3> QED
      BY <2>4, KeptElements
  <2>9. x \in S <=> l = k
    BY <1>5, <1>20
  <2> HIDE DEF S, s, t
  <2>10. CASE l = k
    <3>1. t = Append(s, x)
      BY <2>7, <2>9, <2>10
    <3>2. /\ Len(s) \in Nat /\ DOMAIN s = 1..Len(s)
          /\ Len(t) = Len(s) + 1 /\ DOMAIN t = 1..(Len(s) + 1)
          /\ \A i \in 1..Len(s) : t[i] = s[i]
          /\ t[Len(s) + 1] = x
      BY <1>5, <2>8, <3>1
    <3>3. Len(s) + Len(q) = P
      <4>1. Len(s) + Len(queue[k]) = Produced(k)
        BY <2>3, <2>10
      <4> QED
        BY <4>1 DEF P, q
    <3>4. Len(t) + Len(queue'[k]) = P
      <4> DEFINE m == Len(s)
                 n == Len(q)
      <4>1. /\ m \in Nat /\ n \in Nat /\ m + n = P
            /\ Len(t) = m + 1 /\ Len(queue'[k]) = n - 1
        BY <1>5, <1>8, <3>2, <3>3
      <4> HIDE DEF m, n
      <4>2. (m + 1) + (n - 1) = P
        BY <4>1
      <4> QED
        BY <4>1, <4>2
    <3>5. x.uid = Len(s) + 1
      <4> DEFINE m == Len(s)
                 n == Len(q)
      <4>1. m \in Nat /\ n \in Nat /\ m + n = P /\ x.uid = (P - n) + 1
        BY <1>5, <1>20, <3>2, <3>3
      <4> HIDE DEF m, n
      <4>2. x.uid = m + 1
        BY <4>1
      <4> QED
        BY <4>2 DEF m
    <3>6. \A i \in DOMAIN t : t[i].uid = i
      <4> SUFFICES ASSUME NEW i \in 1..(Len(s) + 1)
                   PROVE  t[i].uid = i
        BY <3>2
      <4>1. CASE i \in 1..Len(s)
        BY <2>3, <3>2, <4>1
      <4>2. CASE i = Len(s) + 1
        BY <3>2, <3>5, <4>2
      <4> QED
        BY <3>2, <4>1, <4>2
    <3>7. Len(t) + Len(queue'[l]) = Produced(l)
      BY <2>10, <3>4 DEF P
    <3> QED
      BY <2>2, <3>6, <3>7 DEF t, S
  <2>11. CASE l # k
    <3>1. t = s
      BY <2>7, <2>9, <2>11
    <3>2. queue'[l] = queue[l]
      BY <1>8, <2>11
    <3>3. Len(t) + Len(queue'[l]) = Produced(l)
      BY <2>3, <3>1, <3>2
    <3>4. \A i \in DOMAIN t : t[i].uid = i
      BY <2>3, <3>1
    <3> QED
      BY <2>2, <3>3, <3>4 DEF t, S
  <2> QED
    BY <2>10, <2>11
<1>23. HandlerInv'
  <2> SUFFICES ASSUME pc["handler"] # "none", NEW l \in Kind
               PROVE  /\ at_signal[l] <= Produced(l)
                      /\ Drained(l)' =>
                           \A i \in DOMAIN queue'[l] : queue'[l][i].uid > at_signal[l]
    <3>1. pc'["handler"] # "none" => pc["handler"] # "none"
      BY <1>9, <1>10, <1>12 DEF Dumper
    <3>2. process' # "exited"
      BY <1>2
    <3> QED
      BY <1>2, <1>11, <3>1, <3>2 DEF HandlerInv
  <2>1. /\ at_signal[l] <= Produced(l)
        /\ Drained(l) => \A i \in DOMAIN queue[l] : queue[l][i].uid > at_signal[l]
    BY DEF HandlerInv
  <2>2. Drained(l)' => Drained(l)
    <3>1. CASE d = "writer"
      <4>1. pc'["handler"] = pc["handler"]
        BY <1>10, <3>1 DEF Dumper
      <4> QED
        BY <4>1 DEF Drained
    <3>2. CASE d = "handler"
      <4>1. CASE k = "b"
        <5>1. pc'["handler"] = "test_b"
          BY <1>10, <3>2, <4>1, LoopStages
        <5> QED
          BY <5>1 DEF Drained
      <4>2. CASE k = "d"
        <5>1. pc["handler"] = "take_d" /\ pc'["handler"] = "test_d"
          BY <1>1, <1>10, <3>2, <4>2, LoopStages
        <5> QED
          BY <5>1 DEF Drained
      <4> QED
        BY <4>1, <4>2, LoopStages
    <3> QED
      BY <1>12, <3>1, <3>2
  <2>3. \A i \in DOMAIN queue'[l] : \E j \in DOMAIN queue[l] : queue'[l][i] = queue[l][j]
    <3>1. CASE l = k
      <4>1. ASSUME NEW i \in 1..(Len(q) - 1)
            PROVE  \E j \in DOMAIN q : Tail(q)[i] = q[j]
        <5>1. i + 1 \in DOMAIN q
          BY <1>5
        <5> QED
          BY <1>5, <5>1
      <4>2. queue'[l] = Tail(q) /\ queue[l] = q
        BY <1>8, <3>1 DEF q
      <4> QED
        BY <1>5, <4>1, <4>2
    <3>2. CASE l # k
      BY <1>8, <3>2
    <3> QED
      BY <3>1, <3>2
  <2> QED
    BY <2>1, <2>2, <2>3
<1>24. EventsConserved'
  <2> SUFFICES ASSUME NEW e \in Event
               PROVE  Places(e)' = IF e.uid <= Produced(e.kind) THEN 1 ELSE 0
    BY <1>2, <1>11 DEF EventsConserved
  <2>1. e.kind \in Kind
    BY EventIs
  <2>2. Places(e) = IF e.uid <= Produced(e.kind) THEN 1 ELSE 0
    BY DEF EventsConserved
  <2> DEFINE one == IF x \in {e} THEN 1 ELSE 0
             Q  == Occurrences(queue[e.kind], {e})
             R  == Occurrences(queue'[e.kind], {e})
             B  == Occurrences(b, {e})
  <2>3. Occurrences(buffer'[d], {e}) = B + one
    <3>1. b \in Seq(Event) /\ x \in Event
      BY <1>4, <1>5
    <3>2. Occurrences(Append(b, x), {e}) = Occurrences(b, {e}) + (IF x \in {e} THEN 1 ELSE 0)
      BY <3>1, OccurrencesAppend
    <3> QED
      BY <1>8, <3>2
  <2>4. Q = R + one
    <3>1. CASE e.kind = k
      <4>1. Occurrences(q, {e}) = Occurrences(Tail(q), {e}) + (IF x \in {e} THEN 1 ELSE 0)
        BY <1>4, OccurrencesTail DEF x
      <4> QED
        BY <1>8, <3>1, <4>1 DEF q
    <3>2. CASE e.kind # k
      <4>1. x # e
        BY <1>20, <3>2
      <4>2. one = 0
        BY <4>1
      <4>3. R = Q
        BY <1>8, <2>1, <3>2
      <4>4. Q \in Nat
        BY <2>1, PlacesAreNumbers
      <4> HIDE DEF one, Q, R
      <4> QED
        BY <4>2, <4>3, <4>4
    <3> QED
      BY <3>1, <3>2
  <2>5. R \in Nat
    <3>1. queue'[e.kind] \in Seq(Event)
      BY <1>8, <2>1
    <3>2. \A s \in Seq(Event) : Occurrences(s, {e}) \in Nat
      <4> SUFFICES ASSUME NEW s \in Seq(Event)
                   PROVE  Occurrences(s, {e}) \in Nat
        OBVIOUS
      <4>1. Occurrences(s, {e}) \in 0..Len(s)
        BY PositionsFinite
      <4>2. Len(s) \in Nat
        OBVIOUS
      <4> QED
        BY <4>1, <4>2
    <3> QED
      BY <3>1, <3>2
  <2>6. one \in Nat
    OBVIOUS
  <2>7. /\ Occurrences(buffer["writer"], {e}) \in Nat
        /\ Occurrences(buffer["handler"], {e}) \in Nat
        /\ Occurrences(output_file, {e}) \in Nat
    BY PlacesAreNumbers
  <2>8. Places(e)' = R + Occurrences(buffer'["writer"], {e})
                       + Occurrences(buffer'["handler"], {e}) + Occurrences(output_file, {e})
    BY <1>2 DEF Places
  <2>9. Places(e) = Q + Occurrences(buffer["writer"], {e})
                      + Occurrences(buffer["handler"], {e}) + Occurrences(output_file, {e})
    BY DEF Places
  <2>10. Places(e)' = Places(e)
    <3>1. CASE d = "writer"
      <4>1. /\ Occurrences(buffer'["writer"], {e}) = Occurrences(buffer["writer"], {e}) + one
            /\ buffer'["handler"] = buffer["handler"]
        BY <1>8, <2>3, <3>1 DEF b, Dumper
      <4> HIDE DEF one, Q, R, B
      <4> QED
        BY <2>4, <2>5, <2>6, <2>7, <2>8, <2>9, <4>1
    <3>2. CASE d = "handler"
      <4>1. /\ Occurrences(buffer'["handler"], {e}) = Occurrences(buffer["handler"], {e}) + one
            /\ buffer'["writer"] = buffer["writer"]
        BY <1>8, <2>3, <3>2 DEF b, Dumper
      <4> HIDE DEF one, Q, R, B
      <4> QED
        BY <2>4, <2>5, <2>6, <2>7, <2>8, <2>9, <4>1
    <3> QED
      BY <1>12, <3>1, <3>2
  <2> QED
    BY <2>2, <2>10
<1> QED
  BY <1>14, <1>15, <1>16, <1>17, <1>21, <1>22, <1>23, <1>24

LEMMA DumpCloseShutdown ==
  ASSUME Running, UNCHANGED <<startupVars, at_signal>>, NEW d \in Dumper, DumpClose(d)
  PROVE  ShutdownInv'
<1> USE DEF Running, ShutdownInv
<1>1. /\ pc[d] = "close"
      /\ output_file' = output_file \o buffer[d]
      /\ buffer' = [buffer EXCEPT ![d] = <<>>]
      /\ pc' = [pc EXCEPT ![d] = IF d = "writer" THEN "poll" ELSE "join"]
      /\ UNCHANGED <<producers, queue, until_size>>
      /\ UNCHANGED <<stage, msgs_to_send_count, finito, process, at_signal>>
  BY DEF DumpClose, startupVars, settings
<1>2. /\ pc \in [Dumper -> {"poll", "none", "test_b", "take_b", "test_d",
                            "take_d", "close", "join", "ended"}]
      /\ buffer \in [Dumper -> Seq(Event)]
      /\ output_file \in Seq(Event)
  BY DEF TypeOK
<1>3. d = "writer" \/ d = "handler"
  BY DEF Dumper
<1>4. /\ pc' \in [Dumper -> {"poll", "none", "test_b", "take_b", "test_d",
                             "take_d", "close", "join", "ended"}]
      /\ pc'[d] = IF d = "writer" THEN "poll" ELSE "join"
      /\ \A c \in Dumper : c # d => pc'[c] = pc[c]
  BY <1>1, <1>2
<1>5. buffer[d] \in Seq(Event)
  BY <1>2
<1>6. output_file' \in Seq(Event)
  BY <1>1, <1>2, <1>5
<1>7. /\ buffer' \in [Dumper -> Seq(Event)]
      /\ buffer'[d] = <<>>
      /\ \A c \in Dumper : c # d => buffer'[c] = buffer[c]
  BY <1>1, <1>2
<1>8. \A j : Produced(j)' = Produced(j)
  BY <1>1 DEF Produced, producers
<1>9. ~finito => d = "writer"
  BY <1>1, <1>3 DEF DumperInv
<1>10. TypeOK'
  BY <1>1, <1>4, <1>6, <1>7 DEF TypeOK, producers
<1>11. EnqueuerInv'
  BY <1>1 DEF EnqueuerInv, AtMostABatch, producers
<1>12. MainInv' /\ NodesInv'
  BY ThreadKeepsMain
<1>13. QueueInv'
  BY <1>1, <1>8 DEF QueueInv
<1>14. DumperInv'
  BY <1>1, <1>3, <1>4, <1>7, <1>9 DEF DumperInv, Dumper
<1>15. WriterInv'
  <2> SUFFICES ASSUME ~finito, NEW l \in Kind
               PROVE  /\ LET s == Kept(output_file' \o buffer'["writer"],
                                       {e \in Event : e.kind = l})
                         IN  /\ Len(s) + Len(queue[l]) = Produced(l)
                             /\ \A i \in DOMAIN s : s[i].uid = i
                      /\ pc'["writer"] = Take[l] => queue[l] # <<>>
    BY <1>1, <1>8 DEF WriterInv
  <2>1. d = "writer"
    BY <1>9
  <2>2. pc'["writer"] = "poll" /\ Take[l] # "poll"
    BY <1>4, <2>1, LoopStages
  <2>3. output_file' \o buffer'["writer"] = output_file \o buffer["writer"]
    <3>1. output_file' \o <<>> = output_file'
      BY <1>6
    <3> QED
      BY <1>1, <1>7, <2>1, <3>1
  <2> DEFINE s == Kept(output_file \o buffer["writer"], {e \in Event : e.kind = l})
  <2>4. /\ Len(s) + Len(queue[l]) = Produced(l)
        /\ \A i \in DOMAIN s : s[i].uid = i
    BY DEF WriterInv
  <2> QED
    BY <2>2, <2>3, <2>4
<1>16. HandlerInv'
  <2>1. \A l \in Kind : Drained(l)' => Drained(l)
    BY <1>1, <1>3, <1>4 DEF Drained, Dumper
  <2>2. pc'["handler"] # "none" => pc["handler"] # "none"
    BY <1>1, <1>3, <1>4 DEF Dumper
  <2> QED
    BY <1>1, <1>8, <2>1, <2>2 DEF HandlerInv
<1>17. EventsConserved'
  <2> SUFFICES ASSUME NEW e \in Event
               PROVE  Places(e)' = IF e.uid <= Produced(e.kind) THEN 1 ELSE 0
    BY <1>1, <1>8 DEF EventsConserved
  <2>1. e.kind \in Kind
    BY EventIs
  <2>2. Places(e) = IF e.uid <= Produced(e.kind) THEN 1 ELSE 0
    BY DEF EventsConserved
  <2>3. Occurrences(output_file', {e})
          = Occurrences(output_file, {e}) + Occurrences(buffer[d], {e})
    BY <1>1, <1>2, <1>5, OccurrencesConcat
  <2>4. Occurrences(buffer'[d], {e}) = 0
    BY <1>7, OccurrencesEmpty
  <2>5. /\ Occurrences(queue[e.kind], {e}) \in Nat
        /\ Occurrences(buffer["writer"], {e}) \in Nat
        /\ Occurrences(buffer["handler"], {e}) \in Nat
        /\ Occurrences(output_file, {e}) \in Nat
    BY <2>1, PlacesAreNumbers
  <2>6. Places(e)' = Occurrences(queue[e.kind], {e}) + Occurrences(buffer'["writer"], {e})
                       + Occurrences(buffer'["handler"], {e}) + Occurrences(output_file', {e})
    BY <1>1 DEF Places
  <2>7. Places(e) = Occurrences(queue[e.kind], {e}) + Occurrences(buffer["writer"], {e})
                      + Occurrences(buffer["handler"], {e}) + Occurrences(output_file, {e})
    BY DEF Places
  <2>8. Places(e)' = Places(e)
    <3>1. CASE d = "writer"
      <4>1. buffer'["handler"] = buffer["handler"]
        BY <1>7, <3>1 DEF Dumper
      <4> QED
        BY <2>3, <2>4, <2>5, <2>6, <2>7, <3>1, <4>1
    <3>2. CASE d = "handler"
      <4>1. buffer'["writer"] = buffer["writer"]
        BY <1>7, <3>2 DEF Dumper
      <4> QED
        BY <2>3, <2>4, <2>5, <2>6, <2>7, <3>2, <4>1
    <3> QED
      BY <1>3, <3>1, <3>2
  <2> QED
    BY <2>2, <2>8
<1> QED
  BY <1>10, <1>11, <1>12, <1>13, <1>14, <1>15, <1>16, <1>17

\* stop begins with what has been produced, and finds nothing in its own hands.
LEMMA SignalShutdown ==
  ASSUME ShutdownInv, Signal
  PROVE  ShutdownInv'
<1> USE DEF ShutdownInv
<1>1. /\ process = "running" /\ ~finito /\ stage = "spawn"
      /\ finito' = TRUE
      /\ pc' = [pc EXCEPT !["handler"] = Test["b"]]
      /\ at_signal' = [b |-> Produced("b"), d |-> Produced("d"), started |-> enqueued_messages]
      /\ UNCHANGED <<input, stage, settings, spawned, process, producers, queue,
                     until_size, buffer, output_file>>
  BY DEF Signal, At
<1>2. pc \in [Dumper -> {"poll", "none", "test_b", "take_b", "test_d",
                         "take_d", "close", "join", "ended"}]
  BY DEF TypeOK
<1>3. /\ pc' \in [Dumper -> {"poll", "none", "test_b", "take_b", "test_d",
                             "take_d", "close", "join", "ended"}]
      /\ pc'["writer"] = pc["writer"]
      /\ pc'["handler"] = "test_b"
  BY <1>1, <1>2, LoopStages DEF Dumper
<1>4. \A k : Produced(k)' = Produced(k)
  BY <1>1 DEF Produced, producers
<1>5. \A k \in Kind : Produced(k) \in 0..MaxMsgs /\ at_signal'[k] = Produced(k)
  <2>1. /\ at_signal'["b"] = Produced("b") /\ at_signal'["d"] = Produced("d")
    BY <1>1
  <2> QED
    BY <2>1, NumbersOfEvents, LoopStages
<1>6. /\ enqueued_messages \in 0..MaxMsgs
      /\ enqueued_messages \in Nat /\ Batch \in Nat
      /\ at_signal'.started = enqueued_messages
  BY <1>1, BoundsAssumption DEF TypeOK, MainInv
<1>7. at_signal' \in [b : 0..MaxMsgs, d : 0..MaxMsgs, started : 0..MaxMsgs]
  <2>1. Produced("b") \in 0..MaxMsgs /\ Produced("d") \in 0..MaxMsgs
    BY <1>5 DEF Kind
  <2> QED
    BY <1>1, <1>6, <2>1
<1>8. finito' /\ finito' \in BOOLEAN
  BY <1>1
<1>9. TypeOK'
  BY <1>1, <1>3, <1>7 DEF TypeOK, producers, settings
<1>10. MainInv'
  BY <1>1, <1>8 DEF MainInv, settings
<1>11. NodesInv'
  BY <1>1 DEF NodesInv, settings, AsAsked, argc
<1>12. EnqueuerInv'
  <2>1. /\ enqueuer' = enqueuer /\ enqueued_messages' = enqueued_messages
        /\ enqueue_until' = enqueue_until /\ delivered' = delivered
    BY <1>1 DEF producers
  <2>2. enqueued_messages <= enqueued_messages + Batch
    BY <1>6
  <2>3. enqueuer \in {"batch", "log"} => enqueue_until <= enqueued_messages + Batch
    BY <1>1 DEF EnqueuerInv
  <2> QED
    BY <1>6, <1>8, <2>1, <2>2, <2>3 DEF EnqueuerInv, AtMostABatch
<1>13. QueueInv' /\ EventsConserved'
  BY <1>1, <1>4 DEF QueueInv, EventsConserved, Places
<1>14. DumperInv'
  BY <1>1, <1>3, <1>8 DEF DumperInv
<1>15. WriterInv'
  BY <1>8 DEF WriterInv
<1>16. HandlerInv'
  <2>1. \A k \in Kind : ~Drained(k)'
    BY <1>3 DEF Drained
  <2>2. \A k \in Kind : at_signal'[k] <= Produced(k)'
    <3> SUFFICES ASSUME NEW k \in Kind
                 PROVE  at_signal'[k] <= Produced(k)'
      OBVIOUS
    <3>1. at_signal'[k] = Produced(k) /\ Produced(k)' = Produced(k) /\ Produced(k) \in Nat
      BY <1>4, <1>5, BoundsAssumption
    <3> QED
      BY <3>1
  <2> QED
    BY <1>1, <2>1, <2>2 DEF HandlerInv
<1> QED
  BY <1>9, <1>10, <1>11, <1>12, <1>13, <1>14, <1>15, <1>16

\* exit comes after join of the writer thread.
LEMMA HandlerEndsShutdown ==
  ASSUME ShutdownInv, HandlerAborts \/ HandlerExits
  PROVE  ShutdownInv'
<1> USE DEF ShutdownInv
<1>1. /\ pc["handler"] = "join"
      /\ UNCHANGED <<input, stage, settings, spawned, finito, threadVars, at_signal>>
      /\ process' \in {"aborted", "exited"}
      /\ process' = "exited" => \A t \in Range(JoinOrder) : HasEnded(t)
  BY DEF HandlerAborts, HandlerExits, HandlerEnds
<1>2. process' = "exited" => pc["writer"] = "ended"
  <2>1. "writer" \in Range(JoinOrder)
    <3>1. 4 \in DOMAIN JoinOrder /\ JoinOrder[4] = "writer"
      BY DEF JoinOrder
    <3> QED
      BY <3>1 DEF Range
  <2>2. HasEnded("writer") => pc["writer"] = "ended"
    BY DEF HasEnded
  <2> QED
    BY <1>1, <2>1, <2>2
<1>3. UNCHANGED <<producers, queue, dumpers>>
  BY <1>1 DEF threadVars
<1>4. \A k : Produced(k)' = Produced(k)
  BY <1>3 DEF Produced, producers
<1>5. TypeOK'
  BY <1>1, <1>3 DEF TypeOK, producers, dumpers, settings
<1>6. MainInv'
  BY <1>1, <1>3 DEF MainInv, NothingStarted, settings, dumpers, producers
<1>7. NodesInv'
  BY <1>1 DEF NodesInv, settings, AsAsked, argc
<1>8. EnqueuerInv'
  BY <1>1, <1>3 DEF EnqueuerInv, AtMostABatch, producers
<1>9. QueueInv' /\ DumperInv'
  BY <1>1, <1>3, <1>4 DEF QueueInv, DumperInv, dumpers
<1>10. WriterInv' /\ EventsConserved'
  BY <1>1, <1>3, <1>4 DEF WriterInv, EventsConserved, Places, dumpers
<1>11. HandlerInv'
  BY <1>1, <1>2, <1>3, <1>4 DEF HandlerInv, Drained, dumpers
<1> QED
  BY <1>5, <1>6, <1>7, <1>8, <1>9, <1>10, <1>11

----------------------------------------------------------------------------
(* The theorems. *)

\* A thread that is not started is where it begins.
LEMMA StepOfStarted ==
  ASSUME MainInv, EnqueuerStep \/ ReceiverStep \/ WriterPoll \/ \E d \in Dumper : DumperStep(d)
  PROVE  stage = "spawn"
<1> SUFFICES ASSUME stage # "spawn"
             PROVE  FALSE
  OBVIOUS
<1>1. NothingStarted /\ \A t : ~Started(t)
  BY StartedIsSpawn DEF MainInv
<1>2. enqueuer = "test" /\ receiver = "poll" /\ pc["writer"] = "poll" /\ pc["handler"] = "none"
  BY <1>1, NothingProduced DEF NothingStarted
<1>3. ~EnqueuerStep
  BY <1>1, <1>2
  DEF EnqueuerStep, EnqueuerTest, EnqueuerBroadcast, EnqueuerDeliver, EnqueuerLog
<1>4. ~ReceiverStep
  BY <1>1, <1>2 DEF ReceiverStep, ReceiverPoll, ReceiverDeliver, ReceiverDone
<1>5. ~WriterPoll
  BY <1>1 DEF WriterPoll
<1>6. ASSUME NEW d \in Dumper, DumperStep(d)
      PROVE  FALSE
  <2>1. pc[d] \in {"poll", "none"}
    BY <1>2 DEF Dumper
  <2>2. \A k \in Kind : pc[d] # Test[k] /\ pc[d] # Take[k]
    BY <2>1, LoopStages
  <2> QED
    BY <1>6, <2>1, <2>2 DEF DumperStep, DumpTest, DumpTake, DumpClose
<1> QED
  BY <1>3, <1>4, <1>5, <1>6

LEMMA StepShutdown == ShutdownInv /\ [Next]_vars => ShutdownInv'
<1> SUFFICES ASSUME ShutdownInv, [Next]_vars
             PROVE  ShutdownInv'
  OBVIOUS
<1>1. CASE MainStep /\ UNCHANGED <<threadVars, at_signal>>
  <2>1. CASE Spawn
    BY <1>1, <2>1, SpawnShutdown
  <2>2. CASE ~Spawn
    <3>1. ToThreads
      BY <1>1, <2>2 DEF MainStep, ToThreads
    <3>2. UNCHANGED <<producers, queue, pc, until_size, buffer, at_signal, output_file>>
      BY <1>1 DEF threadVars, dumpers
    <3> QED
      BY <3>1, <3>2, ToThreadsShutdown
  <2> QED
    BY <2>1, <2>2
<1>2. CASE OpenOutput
  <2>1. ToThreads
    BY <1>2 DEF ToThreads
  <2>2. UNCHANGED <<producers, queue, pc, until_size, buffer, at_signal>>
    BY <1>2 DEF OpenOutput
  <2> QED
    BY <1>2, <2>1, <2>2, ToThreadsShutdown
<1>3. CASE SignalTooEarly /\ UNCHANGED <<threadVars, at_signal>>
  BY <1>3, SignalTooEarlyShutdown
<1>4. CASE Signal
  BY <1>4, SignalShutdown
<1>5. CASE ThreadStep
  <2>1. Running /\ UNCHANGED <<startupVars, at_signal>>
    BY <1>5, StepOfStarted DEF ThreadStep, Running, ShutdownInv
  <2>2. CASE EnqueuerTest
    BY <2>1, <2>2, EnqueuerTestShutdown
  <2>3. CASE EnqueuerBroadcast
    BY <2>1, <2>3, EnqueuerBroadcastShutdown
  <2>4. CASE EnqueuerLog
    BY <2>1, <2>4, EnqueuerLogShutdown
  <2>5. CASE ReceiverPoll \/ ReceiverDone
    BY <2>1, <2>5, ReceiverPollShutdown
  <2>6. CASE ReceiverDeliver \/ EnqueuerDeliver
    BY <2>1, <2>6, DeliverShutdown DEF ReceiverDeliver, EnqueuerDeliver
  <2>7. CASE WriterPoll
    BY <2>1, <2>7, WriterPollShutdown
  <2>8. ASSUME NEW d \in Dumper, DumperStep(d)
        PROVE  ShutdownInv'
    <3>1. CASE DumpTest(d)
      BY <2>1, <3>1, DumpTestShutdown
    <3>2. CASE DumpTake(d)
      BY <2>1, <3>2, DumpTakeShutdown
    <3>3. CASE DumpClose(d)
      BY <2>1, <3>3, DumpCloseShutdown
    <3> QED
      BY <2>8, <3>1, <3>2, <3>3 DEF DumperStep
  <2> QED
    BY <1>5, <2>2, <2>3, <2>4, <2>5, <2>6, <2>7, <2>8
    DEF ThreadStep, EnqueuerStep, ReceiverStep
<1>6. CASE HandlerAborts \/ HandlerExits
  BY <1>6, HandlerEndsShutdown
<1>7. CASE UNCHANGED vars
  <2>1. UNCHANGED <<startupVars, producers, queue, dumpers, at_signal>>
    BY <1>7 DEF vars, threadVars
  <2>2. \A k : Produced(k)' = Produced(k)
    BY <2>1 DEF Produced, producers
  <2> USE DEF ShutdownInv, startupVars, settings, producers, dumpers
  <2>3. TypeOK'
    BY <2>1 DEF TypeOK
  <2>4. MainInv'
    BY <2>1 DEF MainInv, NothingStarted
  <2>5. NodesInv'
    BY <2>1 DEF NodesInv, AsAsked, argc
  <2>6. EnqueuerInv'
    BY <2>1 DEF EnqueuerInv, AtMostABatch
  <2>7. QueueInv' /\ DumperInv'
    BY <2>1, <2>2 DEF QueueInv, DumperInv
  <2>8. WriterInv' /\ EventsConserved'
    BY <2>1, <2>2 DEF WriterInv, EventsConserved, Places
  <2>9. HandlerInv'
    BY <2>1, <2>2 DEF HandlerInv, Drained
  <2> QED
    BY <2>3, <2>4, <2>5, <2>6, <2>7, <2>8, <2>9
<1> QED
  BY <1>1, <1>2, <1>3, <1>4, <1>5, <1>6, <1>7 DEF Next, Main

\* ShutdownInv is an invariant.
THEOREM ShutdownInvHolds == Spec => []ShutdownInv
BY InitShutdown, StepShutdown, PTL DEF Spec

\* Each variable has values of its type.
THEOREM ShutdownTypesCorrect == Spec => []TypeOK
BY ShutdownInvHolds, PTL DEF ShutdownInv

\* Every event put on a queue is in exactly one place, the queue, a stream or the
\* file, however the writer thread and stop dequeue.
THEOREM EventsConservedHolds == Spec => []EventsConserved
BY ShutdownInvHolds, PTL DEF ShutdownInv

\* After the signal the enqueuer starts no more packets than one batch has.
THEOREM AtMostABatchHolds == Spec => []AtMostABatch
BY ShutdownInvHolds, PTL DEF ShutdownInv, EnqueuerInv

\* When threads run, the process is one of the nodes, the one asked for unless its
\* id was too large, and the ids are in range.
THEOREM RunsAsNodeHolds == Spec => []RunsAsNode
<1>1. ShutdownInv => RunsAsNode
  BY DEF ShutdownInv, MainInv, NodesInv, RunsAsNode
<1> QED
  BY <1>1, ShutdownInvHolds, PTL

\* What is kept of a sequence begins what is kept of a longer one: the lines of a
\* kind in the file come before those the writer still holds.
LEMMA KeptPrefix ==
  ASSUME NEW A, NEW f \in Seq(A), NEW w \in Seq(A), NEW S
  PROVE  \A i \in DOMAIN Kept(f, S) : /\ i \in DOMAIN Kept(f \o w, S)
                                      /\ Kept(f \o w, S)[i] = Kept(f, S)[i]
<1> DEFINE s == Kept(f, S)
           t == Kept(w, S)
<1>1. Kept(f \o w, S) = s \o t
  BY KeptConcat
<1>2. s \in Seq(A)
  BY KeptElements
<1>3. t \in Seq(A)
  BY KeptElements
<1> HIDE DEF s, t
<1>4. \A i \in DOMAIN s : i \in DOMAIN (s \o t) /\ (s \o t)[i] = s[i]
  BY <1>2, <1>3
<1>5. \A i \in DOMAIN s : i \in DOMAIN Kept(f \o w, S) /\ Kept(f \o w, S)[i] = s[i]
  BY <1>1, <1>4
<1> QED
  BY <1>5 DEF s

\* Until a signal arrives the log is valid, and the writer thread never waits in
\* a dequeue.
THEOREM WriterAloneHolds == Spec => []WriterAlone
<1>1. ShutdownInv => WriterAlone
  <2> SUFFICES ASSUME ShutdownInv, stage = "spawn", ~finito
               PROVE  /\ CheckProcess(output_file)
                      /\ \A k \in Kind : pc["writer"] = Take[k] => queue[k] # <<>>
    BY DEF WriterAlone
  <2>1. \A k \in Kind : pc["writer"] = Take[k] => queue[k] # <<>>
    BY DEF ShutdownInv, WriterInv
  <2>2. ASSUME NEW k \in Kind
        PROVE  LET s == Kept(output_file, {e \in Event : e.kind = k})
               IN  \A i \in DOMAIN s : s[i].uid = i
    <3> DEFINE S == {e \in Event : e.kind = k}
               f == output_file
               w == buffer["writer"]
               s == Kept(f, S)
               r == Kept(f \o w, S)
    <3>1. f \in Seq(Event) /\ w \in Seq(Event)
      BY DEF ShutdownInv, TypeOK, Dumper
    <3>2. \A i \in DOMAIN r : r[i].uid = i
      BY DEF ShutdownInv, WriterInv
    <3> HIDE DEF S, f, w
    <3>3. \A i \in DOMAIN s : i \in DOMAIN r /\ r[i] = s[i]
      BY <3>1, KeptPrefix
    <3> HIDE DEF s, r
    <3>4. \A i \in DOMAIN s : s[i].uid = i
      BY <3>2, <3>3
    <3> QED
      BY <3>4 DEF s, f, S
  <2> QED
    BY <2>1, <2>2 DEF CheckProcess
<1> QED
  BY <1>1, ShutdownInvHolds, PTL

\* When stop has dumped, the events from before the signal are in the file or in
\* the hands of the writer thread.
LEMMA DumpedEvents ==
  ASSUME ShutdownInv, pc["handler"] = "join", NEW k \in Kind, NEW u \in 1..at_signal[k]
  PROVE  LET e == [kind |-> k, uid |-> u]
         IN  InFile(e) \/ (process # "exited" /\ Occurrences(buffer["writer"], {e}) > 0)
<1> USE DEF ShutdownInv
<1> DEFINE e == [kind |-> k, uid |-> u]
<1>1. stage = "spawn"
  <2>1. stage # "spawn" => pc["handler"] = "none"
    BY NothingProduced DEF MainInv
  <2> QED
    BY <2>1
<1>2. /\ buffer["handler"] = <<>>
      /\ process = "exited" => buffer["writer"] = <<>>
  BY DEF DumperInv, HandlerInv
<1>3. /\ at_signal[k] \in 0..MaxMsgs /\ Produced(k) \in 0..MaxMsgs
      /\ at_signal[k] \in Nat /\ Produced(k) \in Nat /\ MaxMsgs \in Nat
  BY NumbersOfEvents, BoundsAssumption
<1>4. at_signal[k] <= Produced(k)
  BY DEF HandlerInv
<1>5. u \in Uid /\ u <= Produced(k) /\ u <= at_signal[k]
  BY <1>3, <1>4 DEF Uid
<1>6. e \in Event /\ e.kind = k /\ e.uid = u
  BY <1>5 DEF Event
<1>7. \A i \in DOMAIN queue[k] : queue[k][i] # e
  <2>1. Drained(k)
    BY DEF Drained
  <2>2. \A i \in DOMAIN queue[k] : queue[k][i].uid > at_signal[k]
    BY <2>1 DEF HandlerInv
  <2>3. ~(u > at_signal[k])
    BY <1>3, <1>5
  <2> QED
    BY <1>6, <2>2, <2>3
<1> HIDE DEF e
<1>8. Places(e) = 1
  BY <1>1, <1>5, <1>6 DEF EventsConserved
<1>9. Occurrences(queue[k], {e}) = 0
  <2>1. queue[k] \in Seq(Event)
    BY DEF TypeOK
  <2>2. \A i \in DOMAIN queue[k] : queue[k][i] \notin {e}
    BY <1>7
  <2> QED
    BY <2>1, <2>2, OccurrencesNone
<1>10. /\ Occurrences(buffer["handler"], {e}) = 0
       /\ process = "exited" => Occurrences(buffer["writer"], {e}) = 0
  BY <1>2, OccurrencesEmpty
<1>11. /\ Occurrences(output_file, {e}) \in Nat
       /\ Occurrences(buffer["writer"], {e}) \in Nat
  BY PlacesAreNumbers
<1>12. Occurrences(output_file, {e}) + Occurrences(buffer["writer"], {e}) = 1
  BY <1>6, <1>8, <1>9, <1>10, <1>11 DEF Places
<1>13. InFile(e) \/ (process # "exited" /\ Occurrences(buffer["writer"], {e}) > 0)
  BY <1>10, <1>11, <1>12 DEF InFile
<1> QED
  BY <1>13 DEF e

\* Whoever has just found that a queue is not empty leaves it so until the other
\* dumper takes the last element, and goes on: at most one of the two waits.
OneGoesOn == \E d \in Dumper : ~Waits(d)

\* A queue that is not empty becomes empty only when a dumper takes from it, and
\* who is not in a dequeue enters one only after testing the size.
LEMMA StepGoesOn ==
  ASSUME ShutdownInv, OneGoesOn, [Next]_vars
  PROVE  OneGoesOn'
<1> USE DEF ShutdownInv
<1>1. PICK d \in Dumper : ~Waits(d)
  BY DEF OneGoesOn
<1>2. \A c \in Dumper : pc[c] \in {"poll", "none", "test_b", "take_b", "test_d",
                                   "take_d", "close", "join", "ended"}
  BY DEF TypeOK
<1>3. ASSUME pc'[d] = pc[d],
             \A k \in Kind : queue[k] # <<>> => queue'[k] # <<>>
      PROVE  OneGoesOn'
  BY <1>1, <1>3 DEF OneGoesOn, Waits, Dumper
<1>4. CASE UNCHANGED <<pc, queue>>
  BY <1>3, <1>4
<1>5. ASSUME NEW k \in Kind, NEW e, queue' = [queue EXCEPT ![k] = Append(@, e)], pc' = pc
      PROVE  OneGoesOn'
  <2>1. queue \in [Kind -> Seq(Event)]
    BY DEF TypeOK
  <2>2. \A l \in Kind : queue[l] # <<>> => queue'[l] # <<>>
    BY <1>5, <2>1
  <2> QED
    BY <1>3, <1>5, <2>2
<1>6. ASSUME NEW c \in Dumper, \A k \in Kind : pc'[c] # Take[k]
      PROVE  OneGoesOn'
  BY <1>6 DEF OneGoesOn, Waits
<1>7. "b" \in Kind /\ "d" \in Kind /\ "writer" \in Dumper /\ "handler" \in Dumper
  BY DEF Kind, Dumper
<1>8. CASE Signal
  <2>1. pc'["handler"] = Test["b"]
    BY <1>8 DEF Signal, TypeOK, Dumper
  <2> QED
    BY <1>6, <1>7, <2>1, LoopStages
<1>9. CASE ThreadStep
  <2>1. CASE EnqueuerTest \/ EnqueuerBroadcast \/ ReceiverPoll \/ ReceiverDone
    BY <1>4, <2>1 DEF EnqueuerTest, EnqueuerBroadcast, ReceiverPoll, ReceiverDone, dumpers
  <2>2. CASE EnqueuerLog \/ EnqueuerDeliver \/ ReceiverDeliver
    BY <1>5, <1>7, <2>2
    DEF EnqueuerLog, EnqueuerDeliver, ReceiverDeliver, Deliver, dumpers
  <2>3. CASE WriterPoll
    <3>1. pc'["writer"] \in {"ended", Test["b"]}
      BY <1>7, <2>3 DEF WriterPoll, TypeOK
    <3> QED
      BY <1>6, <1>7, <3>1, LoopStages
  <2>4. ASSUME NEW c \in Dumper, DumpTake(c) \/ DumpClose(c)
        PROVE  OneGoesOn'
    <3>1. pc'[c] \in {Test["b"], Test["d"], "poll", "join"}
      BY <2>4 DEF DumpTake, DumpClose, TypeOK, Kind
    <3> QED
      BY <1>6, <3>1, LoopStages
  <2>5. ASSUME NEW c \in Dumper, DumpTest(c)
        PROVE  OneGoesOn'
    <3>1. PICK k \in Kind :
            pc' = [pc EXCEPT ![c] = IF HasMore(c, k) THEN Take[k]
                                    ELSE IF k = "b" THEN Test["d"] ELSE "close"]
      BY <2>5 DEF DumpTest
    <3>2. queue' = queue /\ queue[k] \in Seq(Event) /\ until_size[c] \in Nat
      BY <2>5, BoundsAssumption DEF DumpTest, TypeOK, MainInv
    <3>3. CASE ~HasMore(c, k)
      <4>1. pc'[c] \in {Test["d"], "close"}
        BY <3>1, <3>3 DEF TypeOK
      <4> QED
        BY <1>6, <4>1, LoopStages
    <3>4. CASE HasMore(c, k)
      <4>1. queue'[k] # <<>>
        BY <3>2, <3>4 DEF HasMore
      <4>2. pc'[c] = Take[k]
        BY <3>1, <3>4 DEF TypeOK
      <4>3. \A l \in Kind : Take[l] = Take[k] => l = k
        BY LoopStages
      <4> QED
        BY <4>1, <4>2, <4>3 DEF OneGoesOn, Waits
    <3> QED
      BY <3>3, <3>4
  <2> QED
    BY <1>9, <2>1, <2>2, <2>3, <2>4, <2>5
    DEF ThreadStep, EnqueuerStep, ReceiverStep, DumperStep
<1>10. CASE \/ Main \/ HandlerAborts \/ HandlerExits \/ UNCHANGED vars
            \/ SignalTooEarly /\ UNCHANGED <<threadVars, at_signal>>
  <2>1. UNCHANGED <<pc, queue>>
    BY <1>10 DEF Main, OpenOutput, HandlerAborts, HandlerExits, HandlerEnds, vars,
                 threadVars, dumpers
  <2> QED
    BY <1>4, <2>1
<1> QED
  BY <1>8, <1>9, <1>10 DEF Next

\* When stop has dumped, every event from before the signal is in the file, or in
\* the stream of the writer thread and the process has not reached exit; and at no
\* time do both dumpers wait in a dequeue.
THEOREM StopKeepsEventsHolds == Spec => []StopKeepsEvents
<1>1. Init => OneGoesOn
  <2> SUFFICES ASSUME Init
               PROVE  OneGoesOn
    OBVIOUS
  <2>1. "writer" \in Dumper /\ pc["writer"] = "poll"
    BY DEF Init, Dumper
  <2> QED
    BY <2>1, LoopStages DEF OneGoesOn, Waits
<1>2. ShutdownInv /\ OneGoesOn /\ [Next]_vars => OneGoesOn'
  BY StepGoesOn
<1>3. ShutdownInv /\ OneGoesOn => StopKeepsEvents
  BY DumpedEvents DEF StopKeepsEvents, OneGoesOn
<1>4. Spec => []OneGoesOn
  BY <1>1, <1>2, ShutdownInvHolds, PTL DEF Spec
<1> QED
  BY <1>3, <1>4, ShutdownInvHolds, PTL

----------------------------------------------------------------------------
(* The configuration of each node. *)

\* Numbers 1..n, all of them, none smaller than one before it, are 1..n in order.
LEMMA InOrderIsIdentity ==
  ASSUME NEW n \in Nat, NEW f \in [1..n -> 1..n],
         \A y \in 1..n : \E x \in 1..n : f[x] = y,
         \A i, j \in 1..n : i < j => f[i] <= f[j]
  PROVE  \A i \in 1..n : f[i] = i
<1>1. \A i, j \in 1..n : f[i] = f[j] => i = j
  <2>1. f \in Surjection(1..n, 1..n)
    BY Fun_IsSurj
  <2>2. IsFiniteSet(1..n)
    BY FS_Interval
  <2>3. f \in Injection(1..n, 1..n)
    BY <2>1, <2>2, FS_SurjSameCardinalityImpliesInj
  <2> QED
    BY <2>3, Fun_InjectionProperties
<1> DEFINE Bad == {i \in 1..n : f[i] # i}
<1>2. ASSUME Bad # {}
      PROVE  FALSE
  <2>1. Bad \in SUBSET Nat
    OBVIOUS
  <2>2. PICK m \in Bad : \A k \in Bad : m <= k
    BY <1>2, <2>1, LeastNat
  <2>3. m \in 1..n /\ f[m] \in 1..n /\ f[m] # m
    OBVIOUS
  <2>4. \A k \in 1..n : k < m => f[k] = k
    BY <2>2, <2>3
  <2>5. f[m] > m
    <3>1. f[m] \notin 1..(m - 1)
      <4> SUFFICES ASSUME f[m] \in 1..(m - 1)
                   PROVE  FALSE
        OBVIOUS
      <4>1. f[m] \in 1..n /\ f[m] < m
        BY <2>3
      <4>2. f[f[m]] = f[m]
        BY <2>4, <4>1
      <4> QED
        BY <1>1, <2>3, <4>1, <4>2
    <3> QED
      BY <2>3, <3>1
  <2>6. PICK k \in 1..n : f[k] = m
    BY <2>3
  <2>7. CASE k < m
    BY <2>4, <2>6, <2>7
  <2>8. CASE k = m
    BY <2>3, <2>6, <2>8
  <2>9. CASE m < k
    <3>1. f[m] <= f[k]
      BY <2>3, <2>9
    <3> QED
      BY <2>3, <2>5, <2>6, <3>1
  <2> QED
    BY <2>3, <2>7, <2>8, <2>9
<1> QED
  BY <1>2

\* What FlattenSeq chooses: f[m] is the first m sequences of s joined.
JoinsFirst(f, s, n) ==
  f = [m \in 1..n |-> IF m = 1 THEN s[m] ELSE f[m - 1] \o s[m]]

\* Of sequences that are all empty but one, joined, that one is left.
LEMMA FlattenOne ==
  ASSUME NEW A, NEW n \in Nat, NEW i \in 1..n, NEW line \in Seq(A)
  PROVE  FlattenSeq([j \in 1..n |-> IF j = i THEN line ELSE <<>>]) = line
<1> DEFINE s == [j \in 1..n |-> IF j = i THEN line ELSE <<>>]
           g == [m \in 1..n |-> IF m < i THEN <<>> ELSE line]
           h == CHOOSE f : JoinsFirst(f, s, n)
<1>1. /\ DOMAIN s = 1..n
      /\ \A m \in 1..n : s[m] = IF m = i THEN line ELSE <<>>
  OBVIOUS
<1>2. Len(s) = n
  BY <1>1
<1> HIDE DEF s
<1>3. FlattenSeq(s) = h[n]
  BY <1>2 DEF FlattenSeq, JoinsFirst
<1>4. \A m \in 1..n : g[m] = IF m = 1 THEN s[m] ELSE g[m - 1] \o s[m]
  <2> SUFFICES ASSUME NEW m \in 1..n
               PROVE  g[m] = IF m = 1 THEN s[m] ELSE g[m - 1] \o s[m]
    OBVIOUS
  <2>1. CASE m = 1
    BY <1>1, <2>1
  <2>2. CASE m # 1
    <3>1. m - 1 \in 1..n
      BY <2>2
    <3>2. /\ g[m] = IF m < i THEN <<>> ELSE line
          /\ g[m - 1] = IF m - 1 < i THEN <<>> ELSE line
      BY <3>1
    <3>3. <<>> \o line = line /\ line \o <<>> = line /\ <<>> \o <<>> = <<>>
      OBVIOUS
    <3> HIDE DEF g
    <3>4. CASE m < i
      BY <1>1, <2>2, <3>2, <3>3, <3>4
    <3>5. CASE m = i
      BY <1>1, <2>2, <3>2, <3>3, <3>5
    <3>6. CASE i < m
      BY <1>1, <2>2, <3>2, <3>3, <3>6
    <3> QED
      BY <3>4, <3>5, <3>6
  <2> QED
    BY <2>1, <2>2
<1>5. JoinsFirst(g, s, n)
  <2>1. g = [m \in 1..n |-> g[m]]
    OBVIOUS
  <2> HIDE DEF g, h
  <2> QED
    BY <1>4, <2>1 DEF JoinsFirst
<1>6. JoinsFirst(h, s, n)
  <2> HIDE DEF g
  <2> QED
    BY <1>5
<1>7. \A m \in 1..n : h[m] = IF m = 1 THEN s[m] ELSE h[m - 1] \o s[m]
  <2> HIDE DEF g, h
  <2> QED
    BY <1>6 DEF JoinsFirst
<1>8. g[n] = line
  OBVIOUS
<1> HIDE DEF g, h
<1> DEFINE Bad == {m \in 1..n : h[m] # g[m]}
<1>9. ASSUME Bad # {}
      PROVE  FALSE
  <2>1. Bad \in SUBSET Nat
    OBVIOUS
  <2>2. PICK m \in Bad : \A k \in Bad : m <= k
    BY <1>9, <2>1, LeastNat
  <2>3. m \in 1..n /\ h[m] # g[m]
    OBVIOUS
  <2>4. m # 1
    BY <1>4, <1>7, <2>3
  <2>5. m - 1 \in 1..n /\ m - 1 \notin Bad
    BY <2>2, <2>3, <2>4
  <2>6. h[m - 1] = g[m - 1]
    BY <2>5
  <2> QED
    BY <1>4, <1>7, <2>3, <2>4, <2>6
<1>10. n \in 1..n
  OBVIOUS
<1>11. h[n] = g[n]
  BY <1>9, <1>10
<1> QED
  BY <1>3, <1>8, <1>11 DEF s

\* What WellFormed says of the lines of the hosts file.
LEMMA WellFormedLines ==
  ASSUME input \in Inputs, WellFormed(input)
  PROVE  LET lines == input.hosts.lines
         IN  /\ lines \in Seq(HostLine)
             /\ HostLines = lines
             /\ {lines[i].id : i \in DOMAIN lines} = 1..Len(lines)
             /\ Len(input.config.lines) = Len(lines)
             /\ input.config.readable
             /\ input.config.lines \in Seq(Seq(Nat))
<1> DEFINE lines == input.hosts.lines
           S == {l \in Range(lines) : l.kind # "blank"}
<1>1. lines \in Seq(HostLine) /\ input.config.lines \in Seq(Seq(Nat))
  BY InputsAssumption
<1>2. /\ \A i \in DOMAIN lines : lines[i].kind = "host"
      /\ {lines[i].id : i \in DOMAIN lines} = 1..Len(lines)
      /\ Len(input.config.lines) = Len(lines)
      /\ input.config.readable
  BY DEF WellFormed
<1>3. HostLines = Kept(lines, S)
  BY DEF HostLines
<1>4. \A i \in DOMAIN lines : lines[i] \in S
  BY <1>2 DEF Range
<1> HIDE DEF lines, S
<1>5. Kept(lines, S) = lines
  BY <1>1, <1>4, KeptAll
<1> QED
  BY <1>1, <1>2, <1>3, <1>5 DEF lines

\* When hosts are sorted host i comes to place i, if the ids are as they should be.
LEMMA SortedInPlace ==
  ASSUME NEW lines \in Seq(HostLine), NEW t \in Sortings(lines),
         {lines[i].id : i \in DOMAIN lines} = 1..Len(lines)
  PROVE  /\ DOMAIN t = 1..Len(lines)
         /\ \A i \in DOMAIN t : t[i].id = i
<1> DEFINE n == Len(lines)
           D == DOMAIN lines
           ids == [i \in 1..n |-> t[i].id]
<1>1. n \in Nat /\ D = 1..n
  OBVIOUS
<1>2. PICK f \in Bijection(D, D) : t = [i \in D |-> lines[f[i]]]
  BY DEF Sortings
<1>3. Sorted(t)
  BY DEF Sortings
<1>4. /\ f \in [D -> D]
      /\ \A y \in D : \E x \in D : f[x] = y
  BY Fun_BijectionProperties
<1>5. {lines[i].id : i \in D} = 1..n
  OBVIOUS
<1> HIDE DEF n, D
<1>6. DOMAIN t = 1..n /\ \A i \in 1..n : t[i] = lines[f[i]] /\ f[i] \in 1..n
  BY <1>1, <1>2, <1>4
<1>7. \A i \in 1..n : lines[i].id \in 1..n
  BY <1>1, <1>5
<1>8. ids \in [1..n -> 1..n]
  BY <1>6, <1>7
<1>9. \A y \in 1..n : \E x \in 1..n : ids[x] = y
  <2> SUFFICES ASSUME NEW y \in 1..n
               PROVE  \E x \in 1..n : ids[x] = y
    OBVIOUS
  <2>1. PICK k \in 1..n : lines[k].id = y
    BY <1>1, <1>5
  <2>2. PICK x \in 1..n : f[x] = k
    BY <1>1, <1>4
  <2>3. ids[x] = y
    BY <1>6, <2>1, <2>2
  <2> QED
    BY <2>3
<1>10. \A i, j \in 1..n : i < j => ids[i] <= ids[j]
  BY <1>3, <1>6 DEF Sorted
<1>11. \A i \in 1..n : ids[i] = t[i].id
  OBVIOUS
<1> HIDE DEF ids
<1>12. \A i \in 1..n : ids[i] = i
  BY <1>1, <1>8, <1>9, <1>10, InOrderIsIdentity
<1> QED
  BY <1>6, <1>11, <1>12 DEF n

\* Where main reads no file, what the configuration was stays what it is.
LEMMA KeepsCausality ==
  ASSUME CausalityInv, UNCHANGED <<input, nodes, causality>>,
         \/ stage' = stage
         \/ stage = "output" /\ stage' = "config"
         \/ stage \in {"myself", "bind"} /\ stage' \in {"bind", "spawn"}
         \/ stage' = "hosts"
  PROVE  CausalityInv'
BY DEF CausalityInv, CausalityAsWritten, WellFormed

\* The i-th node is host i after the hosts file.
LEMMA HostsCausality ==
  ASSUME input \in Inputs, CausalityInv, Hosts
  PROVE  CausalityInv'
<1>1. stage = "hosts" /\ input' = input
  BY DEF Hosts, At, Enter, Ends
<1>2. CASE HostsAccepted
  <2>1. PICK s \in Sortings(HostLines) :
          nodes' = [i \in DOMAIN s |-> [id |-> s[i].id, port |-> SwapBytes(s[i].port)]]
    BY <1>2 DEF Hosts
  <2>2. stage' = "output"
    BY <1>2 DEF Hosts, Enter
  <2>3. ASSUME WellFormed(input)
        PROVE  /\ DOMAIN nodes' = 1..Len(input.hosts.lines)
               /\ \A i \in DOMAIN nodes' : nodes'[i].id = i
    <3> DEFINE lines == input.hosts.lines
    <3>1. /\ lines \in Seq(HostLine)
          /\ HostLines = lines
          /\ {lines[i].id : i \in DOMAIN lines} = 1..Len(lines)
      BY <2>3, WellFormedLines
    <3> HIDE DEF lines
    <3>2. DOMAIN s = 1..Len(lines) /\ \A i \in DOMAIN s : s[i].id = i
      BY <2>1, <3>1, SortedInPlace
    <3>3. DOMAIN nodes' = DOMAIN s /\ \A i \in DOMAIN s : nodes'[i].id = s[i].id
      BY <2>1
    <3> QED
      BY <3>2, <3>3 DEF lines
  <2> QED
    BY <1>1, <2>2, <2>3 DEF CausalityInv, CausalityAsWritten
<1>3. CASE ~HostsAccepted
  <2>1. UNCHANGED <<input, stage, nodes, causality>>
    BY <1>3 DEF Hosts, Ends, settings
  <2> QED
    BY <2>1, KeepsCausality
<1> QED
  BY <1>2, <1>3

\* For each host main reads the line of the configuration of its number.
LEMMA ReadConfigCausality ==
  ASSUME input \in Inputs, CausalityInv, ReadConfig
  PROVE  CausalityInv'
<1>1. /\ stage = "config" /\ stage' = "myself" /\ input' = input
      /\ causality' = [id \in HostIds |->
           FlattenSeq([i \in DOMAIN nodes |->
                         IF nodes[i].id = id THEN NodeLine(i) ELSE <<>>])]
  BY DEF ReadConfig, At, Enter
<1>2. ASSUME WellFormed(input), NEW id \in DOMAIN causality'
      PROVE  causality'[id] = input.config.lines[id]
  <2> DEFINE hosts == input.hosts.lines
             lines == input.config.lines
             n     == Len(hosts)
  <2>1. /\ hosts \in Seq(HostLine)
        /\ HostLines = hosts
        /\ {hosts[i].id : i \in DOMAIN hosts} = 1..n
        /\ Len(lines) = n
        /\ input.config.readable
        /\ lines \in Seq(Seq(Nat))
    BY <1>2, WellFormedLines
  <2>2. DOMAIN nodes = 1..n /\ \A i \in 1..n : nodes[i].id = i
    BY <1>1, <1>2 DEF CausalityInv
  <2>3. \A i \in 1..n : NodeLine(i) = lines[i]
    BY <2>1 DEF NodeLine, LineRead
  <2>4. HostIds = 1..n
    BY <2>1 DEF HostIds
  <2>5. n \in Nat
    BY <2>1
  <2> HIDE DEF hosts, n, lines
  <2>6. id \in 1..n
    BY <1>1, <1>2, <2>4
  <2>7. lines[id] \in Seq(Nat)
    BY <2>1, <2>6
  <2>8. [i \in DOMAIN nodes |-> IF nodes[i].id = id THEN NodeLine(i) ELSE <<>>]
          = [i \in 1..n |-> IF i = id THEN lines[id] ELSE <<>>]
    BY <2>2, <2>3
  <2>9. causality'[id] = FlattenSeq([i \in 1..n |-> IF i = id THEN lines[id] ELSE <<>>])
    BY <1>1, <2>4, <2>6, <2>8
  <2>10. causality'[id] = lines[id]
    BY <2>5, <2>6, <2>7, <2>9, FlattenOne
  <2> QED
    BY <2>10 DEF lines
<1> QED
  BY <1>1, <1>2 DEF CausalityInv, CausalityAsWritten

\* Every other step leaves the files, the nodes and what was read as they are.
LEMMA StepCausality == MainInv /\ CausalityInv /\ [Next]_vars => CausalityInv'
<1> SUFFICES ASSUME MainInv, CausalityInv, [Next]_vars
             PROVE  CausalityInv'
  OBVIOUS
<1>1. input \in Inputs
  BY DEF MainInv
<1> USE DEF startupVars, settings
<1>2. CASE Hosts
  BY <1>1, <1>2, HostsCausality
<1>3. CASE ReadConfig
  BY <1>1, <1>3, ReadConfigCausality
<1>4. CASE Parse
  BY <1>4, KeepsCausality DEF Parse, Enter, Ends
<1>5. CASE FindMyself
  BY <1>5, KeepsCausality DEF FindMyself, At, Enter, Ends
<1>6. CASE Bind
  BY <1>6, KeepsCausality DEF Bind, At, Enter, Ends
<1>7. CASE OpenOutput
  BY <1>7, KeepsCausality DEF OpenOutput, At, Enter
<1>8. CASE Spawn \/ SignalTooEarly \/ Signal
  BY <1>8, KeepsCausality DEF Spawn, SignalTooEarly, Signal
<1>9. CASE ThreadStep \/ HandlerAborts \/ HandlerExits
  BY <1>9, KeepsCausality DEF ThreadStep, HandlerAborts, HandlerExits, HandlerEnds
<1>10. CASE UNCHANGED vars
  BY <1>10, KeepsCausality DEF vars
<1> QED
  BY <1>2, <1>3, <1>4, <1>5, <1>6, <1>7, <1>8, <1>9, <1>10 DEF Next, Main, MainStep

\* With files as README.md asks for, line i of the configuration belongs to process
\* i, whatever the order of the hosts file.
THEOREM CausalityAsWrittenHolds == Spec => []CausalityAsWritten
<1>1. Init => CausalityInv
  BY DEF Init, StartupInit, CausalityInv, CausalityAsWritten
<1>2. ShutdownInv => MainInv
  BY DEF ShutdownInv
<1>3. CausalityInv => CausalityAsWritten
  BY DEF CausalityInv
<1> QED
  BY <1>1, <1>2, <1>3, StepCausality, ShutdownInvHolds, PTL DEF Spec
=============================================================================
