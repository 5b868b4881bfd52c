----------------------------- MODULE MCShutdown -----------------------------
(* Startup and Shutdown for TLC: command lines and files. *)
EXTENDS ShutdownInvariant

Host(id, port) == [kind |-> "host", id |-> id, port |-> port, resolves |-> TRUE]
Blank          == [kind |-> "blank", id |-> 0, port |-> 0, resolves |-> FALSE]
Unreadable     == [kind |-> "unreadable", id |-> 0, port |-> 0, resolves |-> FALSE]
Unknown(id)    == [kind |-> "host", id |-> id, port |-> 11000, resolves |-> FALSE]

HostsFile(lines) == [exists |-> TRUE, lines |-> lines]
NoHostsFile      == [exists |-> FALSE, lines |-> <<>>]

Arguments(id) == <<Word("--id"), Number(id), Word("--hosts"), Word("hosts"),
                   Word("--output"), Word("out"), Word("config")>>

Two       == HostsFile(<<Host(1, 11001), Host(2, 11002)>>)
TwoTurned == HostsFile(<<Host(2, 11002), Blank, Host(1, 11001)>>)
Three     == HostsFile(<<Host(3, 11003), Host(1, 11001), Host(2, 11002)>>)
Repeated  == HostsFile(<<Host(1, 11001), Host(3, 11003), Host(1, 11004)>>)

Config(count, lines, newline) ==
  [readable |-> TRUE, count |-> count, lines |-> lines, newline |-> newline]

NoConfig == [readable |-> FALSE, count |-> 0, lines |-> <<>>, newline |-> FALSE]
TwoLines   == <<<<1>>, <<2, 1>>>>
ThreeLines == <<<<1>>, <<2, 1>>, <<3>>>>

Input(argv, hosts, config) == [argv |-> argv, hosts |-> hosts, config |-> config]

\* The command line as it should be, with every kind of file.
Files ==
  {Input(Arguments(1), Two, Config(MaxMsgs, TwoLines, TRUE)),
   Input(Arguments(3), Three, Config(1, ThreeLines, FALSE)),
   Input(Arguments(2), Three, Config(0, TwoLines, TRUE)),
   Input(Arguments(3), Three, Config(0, TwoLines, FALSE)),
   Input(Arguments(2), TwoTurned, NoConfig),
   Input(Arguments(1), Repeated, Config(0, ThreeLines, TRUE))}

\* Hosts files that are refused.
BadHosts ==
  {NoHostsFile, HostsFile(<<Host(1, 11001)>>),
   HostsFile(<<Host(1, 11001), Unreadable>>), HostsFile(<<Unknown(1), Host(2, 11002)>>),
   HostsFile(<<Host(1, 11001), Host(3, 11003)>>), HostsFile(<<Host(2, 11002), Host(3, 11003)>>)}

\* Command lines that are refused, and ids that are not those of a host: the
\* last two are 1 and out of range when converted.
BadArguments ==
  {SubSeq(Arguments(1), 1, n) : n \in {0, 2, 4, 6}}
    \cup {[Arguments(1) EXCEPT ![i] = Word("--other")] : i \in {1, 2, 3, 5}}
    \cup {Arguments(3), Arguments(0), Arguments(2 ^ WordBits + 1), Arguments(2 ^ LongBits)}

AllInputs ==
  Files
    \cup {Input(Arguments(1), h, Config(0, TwoLines, TRUE)) : h \in BadHosts}
    \cup {Input(a, Two, Config(0, TwoLines, TRUE)) : a \in BadArguments}

OneInput == {Input(Arguments(1), Two, Config(MaxMsgs, TwoLines, TRUE))}

----------------------------------------------------------------------------
\* The threads whose next step, after the signal, is to test finito and end.
AboutToEnd ==
  {t \in {"receiver", "enqueuer", "writer"} :
     /\ process = "running" /\ finito /\ Started(t)
     /\ CASE t = "receiver" -> receiver = "poll"
          [] t = "enqueuer" -> enqueuer = "test"
          [] t = "writer"   -> pc["writer"] = "poll"}

\* They end before anything else happens: that touches nothing but where they
\* are, and disables no step of another thread.
EndFirst == AboutToEnd \subseteq AboutToEnd' => AboutToEnd = {}
=============================================================================
