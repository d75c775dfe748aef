------------------------------ MODULE Startup ------------------------------
(***************************************************************************)
(* main, from its arguments to the workers: ParseArgs, then Config and     *)
(* PortManager, which PacketManager::Initialize runs in this order, then   *)
(* the launch of a worker on every lcore but the master.                   *)
(*                                                                         *)
(* What the data plane takes for granted is stated here, of the state in   *)
(* which the workers start.                                                *)
(*                                                                         *)
(* An option is its kind and its argument: a file name, or whether         *)
(* ParseInt accepts the text and the number.  An option getopt_long does   *)
(* not know, or one without an argument, is "other".                       *)
(***************************************************************************)
EXTENDS PortManager, Sequences

CONSTANTS
  Argvs,        \* the command lines considered, as sequences of options
  Disks,        \* what may be on the disk: functions from names to files
  Tags,         \* as in Config
  Headroom,
  kMAX_LCORES   \* the counters a port has

\* The file of no name, which cannot be opened.
NoFile == ""

Files == {<< >>} \cup UNION {{disk[name] : name \in DOMAIN disk} : disk \in Disks}

VARIABLES
  stage,        \* where main is
  argv,
  optind,       \* options parsed
  cmd_args,     \* [config_file, stats_interval]
  disk,
  config_phase, \* as in Config: phase, unread, file, line_counter, rules_
  unread,
  file,
  line_counter,
  rules_,
  workers       \* the lcores whose worker loops, and the port of each

args == <<argv, optind, cmd_args, disk>>
config == <<config_phase, unread, file, line_counter, rules_>>

svars == <<vars, stage, args, config, workers>>

\* Config asks DPDK for the number of ports each time it needs it.
Cfg(n) == INSTANCE Config WITH NbPorts <- n, phase <- config_phase

\* What getopt_long hands to ParseArgs.
Options ==
  [kind : {"config"}, name : STRING]
    \cup [kind : {"stats-interval"}, ok : BOOLEAN, value : Int]
    \cup [kind : {"other"}]

\* Tags has the labels the files ask for.
ASSUME StartupAssumption ==
  /\ MaxPorts <= 255
  /\ kMAX_LCORES \in Nat \ {0}
  /\ Argvs \subseteq Seq(Options)
  /\ \A d \in Disks : NoFile \notin DOMAIN d
  /\ Files \subseteq Seq(Cfg(0)!Lines)
  /\ \A f \in Files : \A n \in DOMAIN f : Cfg(0)!Labels(f[n]) \subseteq Tags

\* Nothing has been read yet, whatever the command line and the disk.
Start ==
  /\ Init
  /\ stage = "args"
  /\ optind = 0
  /\ cmd_args = [config_file |-> NoFile, stats_interval |-> 0]
  /\ config_phase = "closed"
  /\ unread = << >>
  /\ file = << >>
  /\ line_counter = 1
  /\ rules_ = << >>
  /\ workers = << >>

SInit ==
  /\ argv \in Argvs
  /\ disk \in Disks
  /\ Start

-----------------------------------------------------------------------------
(* ParseArgs. *)

Option == argv[optind + 1]

\* Mutant: the interval given first stays.
TakenOnce ==
  CASE Option.kind = "config" ->
         [cmd_args EXCEPT !.config_file = Option.name]
    [] Option.kind = "stats-interval" /\ cmd_args.stats_interval = 0 ->
         [cmd_args EXCEPT !.stats_interval = Option.value % 2^16]
    [] OTHER -> cmd_args

\* The argument of the option, an interval narrowed to 16 bits.
Taken ==
  CASE Option.kind = "config" ->
         [cmd_args EXCEPT !.config_file = Option.name]
    [] Option.kind = "stats-interval" ->
         [cmd_args EXCEPT !.stats_interval = Option.value % 2^16]
    [] OTHER -> cmd_args

IsRefused(option) == option.kind = "stats-interval" /\ ~option.ok

ParseOption ==
  /\ stage = "args"
  /\ optind < Len(argv)
  /\ ~IsRefused(Option)
  /\ cmd_args' = Taken
  /\ optind' = optind + 1
  /\ UNCHANGED <<vars, stage, argv, disk, config, workers>>

\* The exception is not caught.
InvalidInterval ==
  /\ stage = "args"
  /\ optind < Len(argv)
  /\ IsRefused(Option)
  /\ stage' = "aborted"
  /\ UNCHANGED <<vars, args, config, workers>>

OnDisk == cmd_args.config_file \in DOMAIN disk

\* The constructors: Config is told the name of its file.
EndOfArgs ==
  /\ stage = "args"
  /\ optind = Len(argv)
  /\ stage' = "config"
  /\ unread' = IF OnDisk THEN disk[cmd_args.config_file] ELSE << >>
  /\ UNCHANGED <<vars, args, config_phase, file, line_counter, rules_, workers>>

-----------------------------------------------------------------------------
(* PacketManager::Initialize and main. *)

\* Mutant: what Config answers is not looked at.
AfterConfigAnyway ==
  IF config_phase' \in {"accepted", "rejected"} THEN "ports" ELSE "config"

\* What main does once Config has answered.
AfterConfig ==
  CASE config_phase' = "accepted" -> "ports"
    [] config_phase' = "rejected" -> "exited"
    [] OTHER -> "config"

\* A file that is not on the disk cannot be opened.
RunConfig ==
  /\ stage = "config"
  /\ \E n \in 0 .. MaxPorts : n = machine.nb_ports /\ Cfg(n)!Next
  /\ ~OnDisk => config_phase' = "rejected"
  /\ stage' = AfterConfig
  /\ UNCHANGED <<vars, args, workers>>

RunPortManager ==
  /\ stage = "ports"
  /\ Next
  /\ stage' = CASE phase' = "ready" -> "launch"
                [] phase' = "failed" -> "exited"
                [] OTHER -> "ports"
  /\ UNCHANGED <<args, config, workers>>

\* A worker without a port returns at once.
Launch ==
  /\ stage = "launch"
  /\ workers' = [l \in Slaves \cap DOMAIN ports_map_ |-> ports_map_[l]]
  /\ stage' = "running"
  /\ UNCHANGED <<vars, args, config>>

SNext == ParseOption \/ InvalidInterval \/ EndOfArgs
           \/ RunConfig \/ RunPortManager \/ Launch

SSpec == SInit /\ [][SNext]_svars

-----------------------------------------------------------------------------
(* Correctness. *)

\* The state of Config is judged with the ports the machine has.
TableWellFormed ==
  \A n \in 0 .. MaxPorts : n = machine.nb_ports => Cfg(n)!TableWellFormed

TableIsFile ==
  \A n \in 0 .. MaxPorts : n = machine.nb_ports => Cfg(n)!TableIsFile

WordsExact == Cfg(0)!WordsExact

\* Option n of the command line is the last one of its kind.
IsLast(n, kind) ==
  /\ n \in DOMAIN argv
  /\ argv[n].kind = kind
  /\ \A later \in n + 1 .. Len(argv) : argv[later].kind # kind

DstPorts == {a.port : a \in {b \in UNION {Range(rules_[k]) : k \in DOMAIN rules_} :
                               b.type = "OUTPUT"}}

\* When the workers start, what DataPlane assumes holds: the rules are all
\* those of the file named last; each port, hence each port a rule is for,
\* has exactly one worker, on an enabled lcore that is not the master's; each
\* port a rule outputs to is started; the mempool a worker copies into is the
\* one its port receives into, and the only one there is.  Until the file is
\* accepted no port is started.
ServiceReady ==
  /\ stage = "running" =>
       /\ \E n \in DOMAIN argv : IsLast(n, "config") /\ file = disk[argv[n].name]
       /\ \A p \in 0 .. machine.nb_ports - 1 :
            Cardinality({l \in DOMAIN workers : workers[l] = p}) = 1
       /\ DOMAIN workers \subseteq Slaves
       /\ DstPorts \subseteq DOMAIN started
       /\ \A l \in DOMAIN workers :
            /\ started[workers[l]] = machine.socket[l]
            /\ machine.socket[l] \in mempools_
       /\ OneMempool
  /\ started # << >> => config_phase = "accepted"

\* When the workers start, the interval is the one asked for last, if 16 bits
\* hold it, and 0 if none was asked for; the lcore that prints is one of the
\* workers', so that statistics asked for are printed; and if enough lcores
\* have a counter, no worker is on one that has none.  (An interval of 2^16
\* seconds or more is cut to its last 16 bits: nothing is said of it.)
StatisticsReady ==
  stage = "running" =>
    /\ \A n \in DOMAIN argv :
         IsLast(n, "stats-interval") /\ argv[n].value \in 0 .. 2^16 - 1 =>
           cmd_args.stats_interval = argv[n].value
    /\ (\A n \in DOMAIN argv : argv[n].kind # "stats-interval") =>
         cmd_args.stats_interval = 0
    /\ machine.nb_ports > 0 => stats_lcore_id_ \in DOMAIN workers
    /\ Cardinality(Slaves \cap 0 .. kMAX_LCORES - 1) >= machine.nb_ports =>
         DOMAIN workers \subseteq 0 .. kMAX_LCORES - 1
=============================================================================
