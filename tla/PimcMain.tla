------------------------------ MODULE PimcMain ------------------------------
(***************************************************************************)
(* The start of pimc, from main() to the event loop: the command line, the *)
(* configuration file, packing and its verification, the log file and the  *)
(* PIM interface, and how each failure on the way ends the program.  What  *)
(* follows once it is "running" is module IPv4Exec.                        *)
(***************************************************************************)
EXTENDS GetOptLong, ConfigSchema, IPv4PIMIntf

CONSTANT ConfigFile   \* the word that names the configuration file

VARIABLES
  docs,     \* the documents of that file; never changes
  stage,    \* "args", "load", "build", "built", "logger", "exec", "running", "ended"
  config,   \* the configuration once it is loaded
  status    \* the exit status; "abort" for an exception nobody catches

pimcVars == <<docs, stage, config, status>>

(* The options loadIPv4Config() declares: --show-config and -v|--version.  *)
PimcOptions ==
  flag(flag(GetOptLong, "ShowConfig", LongOnly, "show-config"),
       "ShowVersion", 118, "version")

PimcInit(commandLine, file) ==
  /\ GolInit(PimcOptions, commandLine)
  /\ docs = file
  /\ stage = "args"
  /\ config = << >>
  /\ status = "none"

(* The program ends: an exit status, or abort() for the logic_error that   *)
(* main() does not catch.                                                  *)
Exit(s) ==
  /\ stage' = "ended"
  /\ status' = s

(* args() shows the help, or raises: CommandLineError is status 2.         *)
PimcArgsEnd ==
  /\ stage = "args"
  /\ parse \in {"help", "error", "fatal"}
  /\ Exit(CASE parse = "help" -> "0" [] parse = "error" -> "2" [] parse = "fatal" -> "abort")
  /\ UNCHANGED <<docs, config, golVars, intfVars>>

(* loadIPv4Config() with the options: the version is shown before anything *)
(* else is looked at, then there must be one file name.                    *)
PimcUseArgs ==
  /\ stage = "args"
  /\ parse = "result"
  /\ IF flagValue["ShowVersion"] THEN Exit("0")
     ELSE IF Len(positional) # 1 THEN Exit("2")
     ELSE stage' = "load" /\ UNCHANGED status
  /\ UNCHANGED <<docs, config, golVars, intfVars>>

(* loadAll() fails, the file has not exactly one document, or the table of *)
(* interfaces cannot be had.                                               *)
LoadFails ==
  /\ stage = "load"
  /\ Exit("1")
  /\ UNCHANGED <<docs, config, golVars, intfVars>>

(* The document is there and is read.                                      *)
LoadConfig ==
  /\ stage = "load"
  /\ positional[1] = ConfigFile
  /\ Len(docs) = 1
  /\ LET r == loadPIMCConfig(docs[1]) IN
       IF r.errors # {}
       THEN Exit("1") /\ UNCHANGED config
       ELSE config' = r.value /\ stage' = "build" /\ UNCHANGED status
  /\ UNCHANGED <<docs, golVars, intfVars>>

NothingToJoin(g) == g.rp = NoAddress /\ g.joins = {}
RPAndJoins(g) == g.rp # NoAddress /\ g.joins # {}

(* A build() that trusts the packers.                                      *)
BuildUnverified ==
  /\ stage = "build"
  /\ stage' = "built"
  /\ UNCHANGED <<status, docs, config, golVars, intfVars>>

(* PIMCConfigLoader::build() packs and verifies.  Module MCPack shows that *)
(* verifyUpdates() complains exactly about groups with nothing to join,    *)
(* and MCInversePack that verifyInverseUpdates() may complain only if some *)
(* group has an RP and joins, too; the logic_error is not caught.          *)
BuildConfig ==
  /\ stage = "build"
  /\ \/ /\ ~\E k \in DOMAIN config.jp : NothingToJoin(config.jp[k])
        /\ stage' = "built" /\ UNCHANGED status
     \/ /\ \E k \in DOMAIN config.jp : NothingToJoin(config.jp[k]) \/ RPAndJoins(config.jp[k])
        /\ Exit("abort")
  /\ UNCHANGED <<docs, config, golVars, intfVars>>

(* --show-config is looked at when the configuration is complete.          *)
ShowConfig ==
  /\ stage = "built"
  /\ IF flagValue["ShowConfig"] THEN Exit("0") ELSE stage' = "logger" /\ UNCHANGED status
  /\ UNCHANGED <<docs, config, golVars, intfVars>>

(* Logger::logger(): with a directory a log file is created, which must    *)
(* not exist yet.                                                          *)
OpenLogger ==
  /\ stage = "logger"
  /\ \/ CreateStarts /\ stage' = "exec" /\ UNCHANGED status
     \/ config.logging.dir # NoDir /\ Exit("1") /\ UNCHANGED intfVars
  /\ UNCHANGED <<docs, config, golVars>>

(* ipv4exec(): the interface is created, or the program is over.           *)
CreateInterface ==
  /\ stage = "exec"
  /\ IntfNext
  /\ CASE create' = "intf"   -> stage' = "running" /\ UNCHANGED status
       [] create' = "failed" -> Exit("1")
       [] OTHER              -> UNCHANGED <<stage, status>>
  /\ UNCHANGED <<docs, config, golVars>>

ParseArgs ==
  /\ stage = "args"
  /\ GolNext
  /\ UNCHANGED <<pimcVars, intfVars>>

PimcNext ==
  \/ ParseArgs
  \/ PimcArgsEnd
  \/ PimcUseArgs
  \/ LoadFails
  \/ LoadConfig
  \/ BuildConfig
  \/ ShowConfig
  \/ OpenLogger
  \/ CreateInterface
-----------------------------------------------------------------------------
(***************************************************************************)
(* Properties                                                              *)
(***************************************************************************)

(* The loaders accept exactly the files that are configurations, however   *)
(* the errors of one section hide or add to those of another, and what     *)
(* they hand on is what the file says: in a group the sources in the role  *)
(* they have there, and the groups in its order (PIMCConfigLoader.hpp:     *)
(* 32-63 and the loaders it calls).  That is what the code does; where the *)
(* groups of a file do not ascend, groups() does not either, against its   *)
(* comment: "The list is guaranteed to be sorted by multicast group in     *)
(* the ascending order" (JPConfig.hpp:101-102).                            *)
LoadedConfigExact ==
  /\ stage = "load" /\ Len(docs) = 1 =>
       (loadPIMCConfig(docs[1]).errors = {} <=> IsConfig(docs[1]))
  /\ config # << >> => config = ConfigMeaning(docs[1])

(* How a start of pimc ends (Main.cpp:14-32): it gets to its event loop    *)
(* only with a configuration whose every group has something to join and   *)
(* an open socket; it aborts, with an exception nobody catches, only       *)
(* because a file that was accepted has an empty group or one with an RP   *)
(* and joins; it reports success without running only where an option asks *)
(* for that; and the status 2 of a wrong command line comes before the     *)
(* file is looked at.                                                      *)
PimcOutcome ==
  /\ stage = "running" =>
       /\ IsConfig(docs[1])
       /\ ~\E i \in DOMAIN At(docs[1], "multicast").items :
            IsEmptyGroup(At(docs[1], "multicast").items[i].value)
       /\ socket = "open"
       /\ ~flagValue["ShowConfig"] /\ ~flagValue["ShowVersion"]
  /\ status = "abort" =>
       /\ IsConfig(docs[1])
       /\ \E k \in DOMAIN config.jp : NothingToJoin(config.jp[k]) \/ RPAndJoins(config.jp[k])
  /\ status = "0" =>
       \/ parse = "help"
       \/ flagValue["ShowVersion"] /\ config = << >>
       \/ flagValue["ShowConfig"] /\ config # << >>
  /\ status = "2" => config = << >> /\ (parse = "error" \/ Len(positional) # 1)
=============================================================================
