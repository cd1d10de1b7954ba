------------------------------ MODULE ConfigFile ------------------------------
(***************************************************************************)
(* config.json (src/app/runtime/config_file.py): made with defaults,       *)
(* migrated from version 1, read by every start and updated by the         *)
(* settings window of the tray, always by way of one temporary file.  The  *)
(* starts read and migrate it before any of them has taken the instance    *)
(* lock, so two processes may be at it at once; each may die at any point. *)
(*                                                                         *)
(* Of the settings only http_port matters here, and the variable of the    *)
(* environment that overrides it; its check stands for those of the other  *)
(* settings.  On Windows os.replace raises PermissionError while another   *)
(* process has one of the two files open.                                  *)
(***************************************************************************)
EXTENDS Integers

CONSTANTS
    Procs,          \* processes on one data folder
    Ports,          \* the ports a user may choose
    OldDefault,     \* 8080
    Default,        \* 50415
    NoPort,         \* FH6_HTTP_PORT is not set
    BadPort,        \* FH6_HTTP_PORT is no number from 0 to 65535
    MaxLaunches,    \* bound: launches of each process
    MaxSaves        \* bound: uses of "Save & restart"

ASSUME ConfigAssumption ==
    /\ OldDefault # Default
    /\ {OldDefault, Default} \subseteq Ports
    /\ Ports \cap {NoPort, BadPort} = {} /\ NoPort # BadPort
    /\ MaxLaunches \in Nat /\ MaxSaves \in Nat

VARIABLES
    config,         \* what config.json holds
    temporary,      \* what config.tmp holds
    writers,        \* the processes that have config.tmp open
    env,            \* FH6_HTTP_PORT
    pc,             \* where each process is
    after,          \* where it goes once its write is done
    value,          \* the configuration it writes
    base,           \* history: the configuration it made that from
    port,           \* settings.http_port of a process that has started
    launches,       \* launches of each process still to come
    saves,          \* history: saved ports
    wanted,         \* history: the port the user has chosen; NoPort if the file was broken
    seen,           \* history: saves that were made when the process read the file
    mixed,          \* history: config.tmp was opened while another process was between
                    \* opening and replacing it
    raced           \* history: a write replaced a configuration its writer had not read

files == <<config, temporary, writers, mixed>>
local == <<after, value, base, port, seen>>
vars == <<files, env, pc, local, launches, saves, wanted, raced>>

Configs == [version : 1..2, port : Ports]
Missing == [version |-> 0, port |-> NoPort]
Half == [version |-> -1, port |-> NoPort]      \* what json.loads refuses

Defaults == [version |-> 2, port |-> Default]

\* Mutant: every old install gets the new port.
MigratedAll(c) == IF c.version = 1 THEN Defaults ELSE c

\* "Move old installs off the previous 8080 default without changing custom ports."
Migrated(c) ==
    IF c.version # 1 THEN c
    ELSE [version |-> 2, port |-> IF c.port = OldDefault THEN Default ELSE c.port]

\* _port and the other checks of from_env raise ValueError.
Raises == env = BadPort

\* Environment values win over the file.
Effective(c) == IF env # NoPort THEN env ELSE c.port

Init ==
    /\ config \in Configs \cup {Missing, Half}
    /\ temporary \in {Missing, Half}
    /\ writers = {}
    /\ env \in {NoPort, Default, BadPort}
    /\ pc = [p \in Procs |-> "down"]
    /\ after = [p \in Procs |-> "down"]
    /\ value = [p \in Procs |-> Missing]
    /\ base = [p \in Procs |-> Missing]
    /\ port = [p \in Procs |-> NoPort]
    /\ launches \in [Procs -> 0..MaxLaunches]
    /\ saves = 0
    /\ seen = [p \in Procs |-> 0]
    /\ wanted = IF config = Missing THEN Default
                ELSE IF config.version = 1 /\ config.port = OldDefault THEN Default
                ELSE config.port
    /\ mixed = FALSE
    /\ raced = FALSE

Goto(p, place) == pc' = [pc EXCEPT ![p] = place]

Launch(p) ==
    /\ pc[p] = "down"
    /\ launches[p] > 0
    /\ launches' = [launches EXCEPT ![p] = @ - 1]
    /\ Goto(p, "ensuring")
    /\ UNCHANGED <<files, env, local, saves, wanted, raced>>

\* What p is about to write, from what, and where it goes on from there.
Prepare(p, new, next) ==
    /\ value' = [value EXCEPT ![p] = new]
    /\ base' = [base EXCEPT ![p] = config]
    /\ after' = [after EXCEPT ![p] = next]
    /\ Goto(p, "opening")

\* ensure_default_config
Ensure(p) ==
    /\ pc[p] = "ensuring"
    /\ IF config # Missing
       THEN Goto(p, "loading") /\ UNCHANGED <<value, base, after>>
       ELSE Prepare(p, Defaults, "loading")
    /\ UNCHANGED <<files, env, port, seen, launches, saves, wanted, raced>>

\* load_settings: ConfigError ends the start, version 1 is migrated, and then the
\* values are checked.
Load(p) ==
    LET next == IF Raises THEN "down" ELSE "loaded" IN
    /\ pc[p] = "loading"
    /\ \/ config = Half /\ Goto(p, "down") /\ UNCHANGED <<value, base, after, port, seen>>
       \/ /\ config # Half
          /\ IF config # Missing /\ Migrated(config) # config
             THEN Prepare(p, Migrated(config), next)
             ELSE Goto(p, next) /\ UNCHANGED <<value, base, after>>
          /\ port' = [port EXCEPT ![p] =
                Effective(IF config = Missing THEN Defaults ELSE Migrated(config))]
          /\ seen' = [seen EXCEPT ![p] = saves]
    /\ UNCHANGED <<files, env, launches, saves, wanted, raced>>

\* The lifespan of the server loads once more, to save a migration; the settings stay
\* those of the first time.
LoadAgain(p) ==
    /\ pc[p] = "loadingAgain"
    /\ \/ config = Half /\ Goto(p, "down") /\ UNCHANGED <<value, base, after>>
       \/ config = Missing /\ Prepare(p, Defaults, "loadingAgain")
       \/ /\ config \in Configs
          /\ IF Migrated(config) # config
             THEN Prepare(p, Migrated(config), "serving")
             ELSE Goto(p, "serving") /\ UNCHANGED <<value, base, after>>
    /\ UNCHANGED <<files, env, port, seen, launches, saves, wanted, raced>>

\* update_config of the settings window: all but the new port is kept.
Save(p, new) ==
    /\ pc[p] = "serving"
    /\ saves < MaxSaves
    /\ config # Half
    /\ Prepare(p, [version |-> 2, port |-> new], "saved")
    /\ UNCHANGED <<files, env, port, seen, launches, saves, wanted, raced>>

\* Mutant: the configuration itself is opened for writing.
OpenInPlace(p) ==
    /\ pc[p] = "opening"
    /\ config' = Half
    /\ temporary' = Half
    /\ writers' = writers \cup {p}
    /\ mixed' = (mixed \/ \E q \in Procs \ {p} : pc[q] \in {"writing", "replacing"})
    /\ Goto(p, "writing")
    /\ UNCHANGED <<env, local, launches, saves, wanted, raced>>

\* write_text opens the temporary file, which empties it,
Open(p) ==
    /\ pc[p] = "opening"
    /\ temporary' = Half
    /\ writers' = writers \cup {p}
    /\ mixed' = (mixed \/ \E q \in Procs \ {p} : pc[q] \in {"writing", "replacing"})
    /\ Goto(p, "writing")
    /\ UNCHANGED <<config, env, local, launches, saves, wanted, raced>>

\* and writes and closes it; what two writers leave may be neither's.
Write(p) ==
    /\ pc[p] = "writing"
    /\ temporary' \in {value[p]} \cup IF mixed THEN {Half} ELSE {}
    /\ writers' = writers \ {p}
    /\ Goto(p, "replacing")
    /\ UNCHANGED <<config, mixed, env, local, launches, saves, wanted, raced>>

\* os.replace
Replace(p) ==
    /\ pc[p] = "replacing"
    /\ temporary # Missing
    /\ writers = {}
    /\ config' = temporary
    /\ temporary' = Missing
    /\ raced' = (raced \/ config # base[p] \/ temporary # value[p])
    /\ IF after[p] = "saved"
       THEN wanted' = value[p].port /\ saves' = saves + 1 /\ Goto(p, "down")
       ELSE UNCHANGED <<wanted, saves>> /\ Goto(p, after[p])
    /\ UNCHANGED <<writers, mixed, env, local, launches>>

\* PermissionError, or FileNotFoundError if the other process was faster: the start
\* fails, or the settings window shows the error.
ReplaceFails(p) ==
    /\ pc[p] = "replacing"
    /\ \/ temporary = Missing \/ writers # {}
       \/ \E q \in Procs \ {p} : pc[q] \in {"loading", "loadingAgain", "serving"}
    /\ Goto(p, IF after[p] = "saved" THEN "serving" ELSE "down")
    /\ UNCHANGED <<files, env, local, launches, saves, wanted, raced>>

\* The process exits or dies; what it had open is closed.
Crash(p) ==
    /\ pc[p] # "down"
    /\ Goto(p, "down")
    /\ writers' = writers \ {p}
    /\ UNCHANGED <<config, temporary, mixed, env, local, launches, saves, wanted, raced>>

ConfigStep(p) ==
    \/ Launch(p) \/ Ensure(p) \/ Load(p) \/ LoadAgain(p) \/ \E new \in Ports : Save(p, new)
    \/ Open(p) \/ Write(p) \/ Replace(p) \/ ReplaceFails(p) \/ Crash(p)

----------------------------------------------------------------------------
(* Properties.                                                             *)

\* The configuration is whole unless it was broken from the start, wherever a process
\* dies and however two of them meet: "so a crash cannot leave half a config"
\* (config_file.py).  The exception is a process that opens the temporary file
\* of another before that one has replaced the configuration.
ConfigIsWhole == config = Half => mixed \/ wanted = NoPort

\* A process that has read the file since the last save serves on the port the user has
\* chosen, in the file of an old install or in the settings window, through migrations
\* and failed writes, or on the one of the environment, which wins over the file; and
\* with a variable that is no port, none serves at all (Settings.from_env).  A user who
\* had the old default gets the new one.  The exceptions are the meetings of two writers.
ServesChosenPort ==
    \A p \in Procs :
        pc[p] = "serving" /\ seen[p] = saves /\ wanted # NoPort /\ ~mixed /\ ~raced =>
            port[p] = (IF env # NoPort THEN env ELSE wanted) /\ port[p] \in Ports
=============================================================================
