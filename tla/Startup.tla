------------------------------ MODULE Startup ------------------------------
(***************************************************************************)
(* The start of one C++ process: main up to the threads, with the command  *)
(* line and hosts file (parser.hpp), the configuration file (main.cpp) and *)
(* the socket (udp.cpp). What the process is given is chosen once and for  *)
(* all; main goes through its stages, any of which may be the last.        *)
(*                                                                         *)
(* Text is given as what the conversions of the code tell apart: an        *)
(* argument is a word or a number, a line of the hosts file is blank,      *)
(* unreadable or a host, a line of the configuration is its numbers.       *)
(***************************************************************************)
EXTENDS Integers, SequencesExt, FiniteSetsExt, SequenceParts

CONSTANTS
  Inputs,    \* command lines, with the files they name
  WordBits,  \* width of uint32_t
  LongBits   \* width of unsigned long

\* Lines of the hosts file. What isPositiveNumber accepts is not negative.
HostLine == [kind : {"host", "blank", "unreadable"}, id : Nat, port : Nat, resolves : BOOLEAN]

Argument == [word : STRING, digits : BOOLEAN, value : Nat]

ASSUME InputsAssumption ==
  \A in \in Inputs : /\ in.argv \in Seq(Argument)
                    /\ in.hosts.lines \in Seq(HostLine)
                    /\ in.config.lines \in Seq(Seq(Nat))

Word(w)   == [word |-> w, digits |-> FALSE, value |-> 0]
Number(n) == [word |-> "", digits |-> TRUE, value |-> n]

VARIABLES
  input,               \* argv, and the contents of the hosts and config files
  stage,               \* where main is
  nodes,
  msgs_to_send_count,
  causality,
  myself_node,
  bound_port,          \* the port the kernel has bound the socket to
  spawned,             \* threads started
  finito,
  process              \* "running", or how it ended

settings == <<nodes, msgs_to_send_count, causality, myself_node, bound_port>>
startupVars == <<input, stage, settings, spawned, finito, process>>

NoNode == [id |-> 0, port |-> 0]

StartupInit ==
  /\ input \in Inputs
  /\ stage = "parse"
  /\ nodes = <<>>
  /\ msgs_to_send_count = 0
  /\ causality = <<>>
  /\ myself_node = NoNode
  /\ bound_port = 0
  /\ spawned = 0
  /\ finito = FALSE
  /\ process = "running"

\* main runs on the thread that the signal handler interrupts for good.
At(s) == process = "running" /\ ~finito /\ stage = s

\* An exception nobody catches, or exit.
Ends(how) ==
  /\ process' = how
  /\ UNCHANGED <<input, stage, settings, spawned, finito>>

Enter(s) == stage' = s /\ UNCHANGED <<input, spawned, finito, process>>

----------------------------------------------------------------------------
(* Parser::parse. argv[0], the name of the program, is left out. *)

argc == Len(input.argv) + 1

\* isPositiveNumber accepts any digits; stoul refuses a number too large.
parseID ==
  /\ argc >= 3
  /\ input.argv[1] = Word("--id")
  /\ input.argv[2].digits
  /\ input.argv[2].value < 2 ^ LongBits

parseHostPath == argc >= 5 /\ input.argv[3] = Word("--hosts")

parseOutputPath == argc >= 7 /\ input.argv[5] = Word("--output")

parseConfigPath == argc >= 8

parseInternal ==
  /\ parseID
  /\ parseHostPath
  /\ parseOutputPath
  /\ parseConfigPath

\* help exits.
Parse ==
  /\ At("parse")
  /\ IF parseInternal THEN Enter("hosts") /\ UNCHANGED settings
     ELSE Ends("refused")

----------------------------------------------------------------------------
(* Parser::hosts. *)

\* htons, and ntohs too, on a little-endian machine.
SwapBytes(port) == (port % 256) * 256 + port \div 256

\* Blank lines are skipped. What is not a number, a word and a number is refused.
HostLines ==
  Kept(input.hosts.lines, {l \in Range(input.hosts.lines) : l.kind # "blank"})

HostIds == {HostLines[i].id : i \in DOMAIN HostLines}

\* Fault: the largest id not compared with the number of hosts.
CompactFromBelow == Min(HostIds) = 1

Compact == Min(HostIds) = 1 /\ Max(HostIds) = Len(HostLines)

\* The address, or ipLookup of the name, is an IPv4 address; otherwise it throws.
Resolves(line) == line.resolves

HostsAccepted ==
  /\ input.hosts.exists
  /\ \A i \in DOMAIN HostLines : HostLines[i].kind = "host" /\ Resolves(HostLines[i])
  /\ Len(HostLines) >= 2
  /\ Compact

\* Fault: the order of the file kept.
SortedAsWritten(s) == TRUE

Sorted(s) == \A i, j \in DOMAIN s : i < j => s[i].id <= s[j].id

\* What std::sort may make of s: equal elements may change places.
Sortings(s) ==
  {t \in {[i \in DOMAIN s |-> s[f[i]]] : f \in Bijection(DOMAIN s, DOMAIN s)} : Sorted(t)}

\* The hosts become nodes, with the port as htons gave it.
Hosts ==
  /\ At("hosts")
  /\ IF HostsAccepted
       THEN /\ \E s \in Sortings(HostLines) :
                 nodes' = [i \in DOMAIN s |->
                             [id |-> s[i].id, port |-> SwapBytes(s[i].port)]]
            /\ Enter("output")
            /\ UNCHANGED <<msgs_to_send_count, causality, myself_node, bound_port>>
       ELSE Ends("refused")

----------------------------------------------------------------------------
(* The configuration file. *)

\* The i-th line getline gives after the first one. At the end of the file it
\* gives an empty line, but leaves the last line in place when that line had no
\* newline and the end has been met already.
LineRead(i) ==
  LET lines == input.config.lines
  IN  IF i <= Len(lines) THEN lines[i]
      ELSE IF lines = <<>> \/ input.config.newline THEN <<>> ELSE Last(lines)

\* The line main reads for nodes[i].
NodeLine(i) == IF input.config.readable THEN LineRead(i) ELSE <<>>

\* A file that is missing or does not begin with a number leaves 0 packets to
\* send and no dependencies.
ReadConfig ==
  /\ At("config")
  /\ msgs_to_send_count' = IF input.config.readable THEN input.config.count ELSE 0
  /\ causality' = [id \in HostIds |->
       FlattenSeq([i \in DOMAIN nodes |->
                     IF nodes[i].id = id THEN NodeLine(i) ELSE <<>>])]
  /\ Enter("myself")
  /\ UNCHANGED <<nodes, myself_node, bound_port>>

----------------------------------------------------------------------------
(* The node of this process and its socket. *)

\* The positions get_node_idx_by_id may return the first of.
IndicesOf(id) == {i \in DOMAIN nodes : nodes[i].id = id}

\* With an id that is not among the hosts get_node_idx_by_id returns -1, and
\* what lies before the array is used as a pointer to a node.
FindMyself ==
  LET my_id == input.argv[2].value % 2 ^ WordBits
  IN  /\ At("myself")
      /\ IF IndicesOf(my_id) = {} THEN Ends("crashed")
         ELSE /\ myself_node' = nodes[Min(IndicesOf(my_id))]
              /\ Enter("bind")
              /\ UNCHANGED <<nodes, msgs_to_send_count, causality, bound_port>>

\* bind_socket converts with htons; the kernel converts back.
BoundPort(port) == SwapBytes(SwapBytes(port))

\* bind_socket, and the fields of tcp_handler.
Bind ==
  /\ At("bind")
  /\ \/ /\ bound_port' = BoundPort(myself_node.port)
        /\ Enter("spawn")
        /\ UNCHANGED <<nodes, msgs_to_send_count, causality, myself_node>>
     \/ Ends("unbound")

----------------------------------------------------------------------------
(* The threads, in the order in which they are started and joined. *)

SpawnOrder == <<"receiver", "sender", "enqueuer", "retransmitter", "writer">>
JoinOrder  == <<"receiver", "sender", "retransmitter", "writer", "enqueuer">>

Started(t) == \E i \in 1..spawned : SpawnOrder[i] = t

Spawn ==
  /\ At("spawn")
  /\ spawned < Len(SpawnOrder)
  /\ spawned' = spawned + 1
  /\ UNCHANGED <<input, stage, settings, finito, process>>

\* stop, before tcp_handler has its queues: a null pointer is followed.
SignalTooEarly ==
  /\ process = "running" /\ ~finito /\ stage # "spawn"
  /\ finito' = TRUE
  /\ process' = "crashed"
  /\ UNCHANGED <<input, stage, settings, spawned>>

\* Opening the output file, the stage between, is with the file in Shutdown.
MainStep == Parse \/ Hosts \/ ReadConfig \/ FindMyself \/ Bind \/ Spawn

----------------------------------------------------------------------------
(* Properties. *)

\* What README.md asks of the files: ids 1..n, each on one line of the hosts
\* file, in any order, and a line for each process in the configuration.
WellFormed(in) ==
  LET lines == in.hosts.lines
  IN  /\ in.hosts.exists /\ in.config.readable
      /\ \A i \in DOMAIN lines : lines[i].kind = "host" /\ lines[i].resolves
      /\ Len(lines) >= 2
      /\ {lines[i].id : i \in DOMAIN lines} = 1..Len(lines)
      /\ Len(in.config.lines) = Len(lines)
      /\ Len(in.argv) = 7
      /\ <<in.argv[1], in.argv[3], in.argv[5]>>
           = <<Word("--id"), Word("--hosts"), Word("--output")>>
      /\ in.argv[2].digits /\ in.argv[2].value \in 1..Len(lines)

\* README.md:198: line i of the configuration belongs to process i, whatever
\* the order of the hosts file, with or without a newline at the end.
CausalityAsWritten ==
  WellFormed(input) /\ stage \in {"myself", "bind", "spawn"} =>
    \A i \in DOMAIN causality : causality[i] = input.config.lines[i]

\* Only an id that does not fit into 32 bits becomes that of another process.
AsAsked ==
  LET id == input.argv[2].value
  IN  myself_node.id = id \/ id >= 2 ^ WordBits

\* When threads run, whatever the input was, this process is one of the nodes,
\* the one asked for unless main.cpp:202 cut the id, and every id is an index of
\* the arrays of DeliveredSet (nodes.size() + 1 long).
RunsAsNode ==
  spawned > 0 =>
    /\ myself_node \in Range(nodes)
    /\ AsAsked
    /\ \A i \in DOMAIN nodes : nodes[i].id \in 1..Len(nodes)

\* README.md:109: a process listens on a port from 11000 to 11999, the one its
\* line of the hosts file names (README.md:101).
PortAsConfigured ==
  bound_port # 0 =>
    \E i \in DOMAIN HostLines :
      HostLines[i].id = myself_node.id /\ HostLines[i].port = bound_port
=============================================================================
