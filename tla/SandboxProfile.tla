--------------------------- MODULE SandboxProfile ---------------------------
(***************************************************************************)
(* The open_basedir transition of one DuckDB instance (duckdb_driver.c,    *)
(* pdo_duckdb_disable_external_access and what it calls): the order in     *)
(* which file sinks are stopped, extensions admitted, databases detached   *)
(* and settings frozen, with every call able to fail.  InstanceRegistry    *)
(* takes the transition as one step; here the instance mutex is held       *)
(* throughout, and only other processes and remote clients interleave.     *)
(***************************************************************************)
EXTENDS Naturals, Sequences, SequencesExt

CONSTANTS
    Members,     \* connections of the instance
    Inspector,   \* the connection the transition opens for itself
    Paths,       \* database and spill paths
    Inside,      \* those within open_basedir
    Servers,     \* quack listeners
    MaxRetries,  \* PDO_DUCKDB_EXTENSIONS_MAX_RETRIES (1000)
    None

Reasons == {"log", "inspector", "writers", "listing", "extensions", "settings",
            "detach", "record", "interrupted", "cleanup"}

ASSUME ProfileAssumption ==
    /\ Inspector \notin Members /\ None \notin Paths \cup Reasons
    /\ Inside \subseteq Paths
    /\ MaxRetries \in Nat

VARIABLES
    step,       \* the next call of the transition, or "idle"
    todo,       \* SETs left of the list being run
    quack,      \* pdo_duckdb_quack_state
    tries,      \* listings repeated because of an install race
    late,       \* has the retry budget of half a second passed?
    reason,     \* sandbox_refusal, None while sandbox_refused is false
    disabled,   \* external_access_disabled
    ran,        \* has the transition ever started?
    conf,       \* DuckDB's instance-wide settings
    attached,   \* paths of attached databases
    writers,    \* connections with a profile or query-log file
    stuck,      \* those whose file could not be closed
    exts,       \* loaded extensions outside the contained list
    servers,    \* running quack listeners
    deaf,       \* listeners that could not be asked to stop
    listing     \* extension directory: "clean", "installing" or "corrupt"

progress == <<step, todo, quack, tries, late, ran>>
engine == <<conf, attached, writers, exts, servers>>
history == <<stuck, deaf>>
vars == <<progress, reason, disabled, engine, history, listing>>

Settings == [access: BOOLEAN, locked: BOOLEAN, exempt: BOOLEAN,
             temp: Paths \cup {None}, allow: SUBSET Paths, autoload: BOOLEAN,
             named: {"memory", "file"}, storage: {"memory", "file"},
             stream: BOOLEAN]

\* The settings, or groups of settings, that the transition sets.
SettingNames == {"logging_storage", "allowed_configs", "temp_directory",
                 "allowlists", "autoload", "enable_external_access",
                 "lock_configuration"}

\* What earlier, unsandboxed SQL can leave: a file log keeps its stream until
\* its storage is switched, and listeners need quack.
Init ==
    /\ step = "idle" /\ todo = <<>> /\ quack = "absent" /\ tries = 0
    /\ late = FALSE /\ ran = FALSE
    /\ reason = None /\ disabled = FALSE
    /\ conf \in {c \in Settings :
                    /\ c.access /\ ~c.locked /\ c.autoload
                    /\ c.stream => c.storage = "file"}
    /\ attached \in SUBSET Paths
    /\ writers \in SUBSET Members
    /\ exts \in SUBSET {"quack", "other"}
    /\ servers \in IF "quack" \in exts THEN SUBSET Servers ELSE {{}}
    /\ stuck = {} /\ deaf = {}
    /\ listing \in {"clean", "installing", "corrupt"}

TypeOK ==
    /\ step \in {"idle", "connect", "writers", "list", "stop", "contain",
                 "pre", "detach", "post", "record"}
    /\ todo \in Seq(SettingNames)
    /\ quack \in {"absent", "loaded", "unknown"}
    /\ tries \in 0..MaxRetries /\ late \in BOOLEAN /\ ran \in BOOLEAN
    /\ reason \in Reasons \cup {None} /\ disabled \in BOOLEAN
    /\ conf \in Settings
    /\ attached \subseteq Paths
    /\ writers \subseteq Members \cup {Inspector}
    /\ stuck \subseteq Members \cup {Inspector}
    /\ servers \subseteq Servers /\ deaf \subseteq Servers

-----------------------------------------------------------------------------
(* Settings.  The nine feature switches have no effect modelled here, apart *)
(* from autoloading.                                                        *)

\* Mutant: a spill directory survives until external access goes off.
PreDetach_KeepsTemp == <<"logging_storage", "allowed_configs">>
PreDetach == <<"logging_storage", "allowed_configs", "temp_directory">>

PostDetach == <<"allowlists", "autoload", "enable_external_access",
                "lock_configuration">>

\* DuckDB's rules: a locked setting needs an exemption, and allowlists are
\* frozen while external access is off.
Settable(c, s) ==
    /\ ~c.locked \/ c.exempt
    /\ s = "allowlists" => c.access

\* Turning external access off allows what is attached and the spill path.
Effect(c, s) ==
    CASE s = "logging_storage" ->
             [c EXCEPT !.named = "memory", !.storage = "memory",
                       !.stream = FALSE]
      [] s = "allowed_configs" -> [c EXCEPT !.exempt = FALSE]
      [] s = "temp_directory" -> [c EXCEPT !.temp = None]
      [] s = "allowlists" -> [c EXCEPT !.allow = {}]
      [] s = "autoload" -> [c EXCEPT !.autoload = FALSE]
      [] s = "enable_external_access" ->
             [c EXCEPT !.access = FALSE,
                       !.allow = @ \cup attached \cup ({c.temp} \ {None})]
      [] s = "lock_configuration" -> [c EXCEPT !.locked = TRUE]

Refuse(why) == reason' = IF reason = None THEN why ELSE reason

\* The transition ends; the inspector disconnects and takes its sinks along.
End ==
    /\ step' = "idle" /\ todo' = <<>>
    /\ writers' = writers \ {Inspector}
    /\ UNCHANGED <<quack, tries, late, ran>>

GoTo(s, sets) ==
    /\ step' = s /\ todo' = sets
    /\ UNCHANGED <<tries, late, ran>>

-----------------------------------------------------------------------------
(* The transition.                                                          *)

\* detach_storage: true memory storage is left alone; anything else is
\* replaced, its file revoked, before a mismatched name is reported.
Detached(c) ==
    IF c.named = "memory" /\ c.storage = "memory" THEN c
    ELSE [c EXCEPT !.named = "memory", !.storage = "memory", !.stream = FALSE]

Mismatched(c) == c.named # c.storage

\* enforce_sandbox_locked finds a permitted instance under open_basedir and
\* clears the instance's log before it opens the inspector.
Start ==
    /\ step = "idle" /\ reason = None /\ ~disabled
    /\ ran' = TRUE /\ late' = FALSE /\ tries' = 0
    /\ conf' = Detached(conf)
    /\ quack' = "absent" /\ todo' = <<>>
    /\ \/ step' = "connect" /\ ~Mismatched(conf) /\ UNCHANGED reason
       \/ step' = "idle" /\ Refuse("log")
    /\ UNCHANGED <<disabled, attached, writers, exts, servers, history,
                   listing>>

\* The inspector may start with a profile file of its own by default.
Connect ==
    /\ step = "connect"
    /\ \/ /\ GoTo("writers", <<>>)
          /\ writers' \in {writers, writers \cup {Inspector}}
          /\ UNCHANGED <<quack, reason>>
       \/ End /\ Refuse("inspector")
    /\ UNCHANGED <<disabled, conf, attached, exts, servers, history, listing>>

\* Mutant: the first sink that fails to close ends the loop.
StillWriting_StopsEarly(F) == IF F = {} THEN {} ELSE writers
StillWriting(F) == writers \cap F

\* Every member's sink is tried, and the inspector's, whichever of them fail.
ClearWriters ==
    /\ step = "writers"
    /\ \E F \in SUBSET writers :
          /\ stuck' = F
          /\ IF F = {}
             THEN /\ GoTo("list", <<>>) /\ writers' = StillWriting(F)
                  /\ UNCHANGED <<quack, reason>>
             ELSE /\ step' = "idle" /\ todo' = <<>>
                  /\ writers' = StillWriting(F) \ {Inspector}
                  /\ Refuse("writers")
                  /\ UNCHANGED <<quack, tries, late, ran>>
    /\ UNCHANGED <<disabled, conf, attached, exts, servers, deaf, listing>>

\* Mutant: an install race is waited out without a cap.
MayRetry_Forever == listing = "installing"
MayRetry == listing = "installing" /\ tries < MaxRetries /\ ~late

Retry ==
    /\ step = "list" /\ MayRetry
    /\ tries' = IF tries < MaxRetries THEN tries + 1 ELSE tries
    /\ UNCHANGED <<step, todo, quack, late, ran, reason, disabled, engine,
                   history, listing>>

\* The list itself is unavailable: quack may be loaded.
ListFails ==
    /\ step = "list" /\ listing # "clean" /\ ~MayRetry
    /\ GoTo("stop", <<>>) /\ quack' = "unknown"
    /\ Refuse("listing")
    /\ UNCHANGED <<disabled, engine, history, listing>>

\* A row that cannot be read (a NUL byte, a fetch error) ends the walk, maybe
\* after quack's.
ListBreaks ==
    /\ step = "list" /\ listing = "clean"
    /\ GoTo("stop", <<>>)
    /\ quack' \in IF "quack" \in exts THEN {"loaded", "unknown"}
                  ELSE {"unknown"}
    /\ Refuse("listing")
    /\ UNCHANGED <<disabled, engine, history, listing>>

ListExtensions ==
    /\ step = "list" /\ listing = "clean"
    /\ quack' = IF "quack" \in exts THEN "loaded" ELSE "absent"
    /\ IF exts = {}
       THEN GoTo("pre", PreDetach) /\ UNCHANGED reason
       ELSE GoTo("stop", <<>>) /\ Refuse("extensions")
    /\ UNCHANGED <<disabled, engine, history, listing>>

\* Mutant: listeners are stopped only when quack was seen.
Suspects_Loaded == quack = "loaded"
Suspects == quack # "absent"

\* An unknown state turns autoloading off first; if that fails, or the
\* servers cannot be listed, nothing is stopped.
StopListeners ==
    /\ step = "stop" /\ GoTo("contain", PreDetach \o PostDetach)
    /\ IF Suspects
       THEN \E F \in SUBSET servers : servers' = F /\ deaf' = F
       ELSE UNCHANGED <<servers, deaf>>
    /\ conf' \in IF quack = "unknown"
                 THEN {conf, Effect(conf, "autoload")} ELSE {conf}
    /\ UNCHANGED <<quack, reason, disabled, attached, writers, exts, stuck,
                   listing>>

\* contain_refused runs both lists, whichever SETs fail; clients of a listener
\* that could not be stopped run SQL meanwhile.
ContainSetting ==
    /\ step = "contain" /\ todo # <<>>
    /\ \/ Settable(conf, Head(todo)) /\ conf' = Effect(conf, Head(todo))
       \/ UNCHANGED conf
    /\ todo' = Tail(todo)
    /\ UNCHANGED <<step, quack, tries, late, ran, reason, disabled, attached,
                   writers, exts, servers, history, listing>>

EndContain ==
    /\ step = "contain" /\ todo = <<>> /\ End
    /\ UNCHANGED <<reason, disabled, conf, attached, exts, servers, history,
                   listing>>

RunSetting ==
    /\ step \in {"pre", "post"} /\ todo # <<>>
    /\ Settable(conf, Head(todo))
    /\ conf' = Effect(conf, Head(todo))
    /\ todo' = Tail(todo)
    /\ UNCHANGED <<step, quack, tries, late, ran, reason, disabled, attached,
                   writers, exts, servers, history, listing>>

SettingFails ==
    /\ step \in {"pre", "post"} /\ todo # <<>>
    /\ End /\ Refuse("settings")
    /\ UNCHANGED <<disabled, conf, attached, exts, servers, history, listing>>

NextList ==
    /\ step \in {"pre", "post"} /\ todo = <<>>
    /\ step' = IF step = "pre" THEN "detach" ELSE "record"
    /\ UNCHANGED <<todo, quack, tries, late, ran, reason, disabled, engine,
                   history, listing>>

\* Attachments outside open_basedir are detached one by one until one fails
\* or cannot be read.
Detach ==
    /\ step = "detach"
    /\ \/ /\ attached' = attached \cap Inside
          /\ GoTo("post", PostDetach)
          /\ UNCHANGED <<quack, reason, writers>>
       \/ /\ \E D \in SUBSET (attached \ Inside) : attached' = attached \ D
          /\ End /\ Refuse("detach")
    /\ UNCHANGED <<disabled, conf, exts, servers, history, listing>>

\* The record of open_basedir may not be allocated: disabled, yet refused.
Record ==
    /\ step = "record" /\ End
    /\ disabled' = TRUE
    /\ UNCHANGED reason \/ Refuse("record")
    /\ UNCHANGED <<conf, attached, exts, servers, history, listing>>

\* PHP's allocator can bail out wherever a cell or a path is copied; native
\* enter's handler refuses the instance.
Bailout_Unlatched ==
    /\ step \in {"list", "detach"} /\ End
    /\ UNCHANGED <<reason, disabled, conf, attached, exts, servers, history,
                   listing>>

Bailout ==
    /\ step \in {"list", "detach"} /\ End /\ Refuse("interrupted")
    /\ UNCHANGED <<disabled, conf, attached, exts, servers, history, listing>>

\* native_cleanup_enter on m, between transitions.
Cleanup(m) ==
    /\ step = "idle"
    /\ conf' = Detached(conf)
    /\ \/ ~Mismatched(conf) /\ writers' = writers \ {m} /\ UNCHANGED reason
       \/ writers' \in {writers, writers \ {m}} /\ Refuse("cleanup")
    /\ UNCHANGED <<progress, disabled, attached, exts, servers, history,
                   listing>>

-----------------------------------------------------------------------------
(* Everyone else.                                                           *)

\* SQL of an admitted user at rest, or of a listener's client at any time.
CanRunSql == (step = "idle" /\ reason = None) \/ servers # {}

Attach(p) ==
    /\ CanRunSql /\ (conf.access \/ p \in conf.allow)
    /\ attached' = attached \cup {p}
    /\ UNCHANGED <<progress, reason, disabled, conf, writers, exts, servers,
                   history, listing>>

SetTemp(p) ==
    /\ CanRunSql /\ Settable(conf, "temp_directory")
    /\ conf.access \/ p \in conf.allow
    /\ conf' = [conf EXCEPT !.temp = p]
    /\ UNCHANGED <<progress, reason, disabled, attached, writers, exts, servers,
                   history, listing>>

\* CALL enable_logging() reopens a file storage, locked or not.
EnableLogging ==
    /\ CanRunSql /\ conf.storage = "file"
    /\ conf' = [conf EXCEPT !.stream = TRUE]
    /\ UNCHANGED <<progress, reason, disabled, attached, writers, exts, servers,
                   history, listing>>

\* INSTALL in another process writes and renames its .info file.
Install ==
    /\ step = "list" /\ listing \in {"clean", "installing"}
    /\ listing' \in {"clean", "installing"} \ {listing}
    /\ UNCHANGED <<progress, reason, disabled, engine, history>>

Late ==
    /\ step = "list" /\ ~late
    /\ late' = TRUE
    /\ UNCHANGED <<step, todo, quack, tries, ran, reason, disabled, engine,
                   history, listing>>

Proceed ==
    \/ Connect \/ ClearWriters \/ Retry \/ ListFails \/ ListBreaks
    \/ ListExtensions \/ StopListeners \/ ContainSetting \/ EndContain
    \/ RunSetting \/ SettingFails \/ NextList \/ Detach \/ Record

Next ==
    \/ Start \/ Proceed \/ Bailout \/ Install \/ Late \/ EnableLogging
    \/ \E m \in Members : Cleanup(m)
    \/ \E p \in Paths : Attach(p) \/ SetTemp(p)

Spec == Init /\ [][Next]_vars

\* The thread that holds the instance keeps running; installs by others may
\* stop, or go on for ever.
LiveSpec == Spec /\ WF_vars(Proceed)

-----------------------------------------------------------------------------
(* Properties.                                                              *)

\* Once external_access_disabled is set, nothing DuckDB still permits leads
\* out of open_basedir: what OnSet re-allows was emptied first, no sink or
\* listener is left, and no setting can be changed back (duckdb_driver.c:1859).
Sealed ==
    disabled =>
        /\ ~conf.access /\ conf.locked /\ ~conf.exempt /\ ~conf.autoload
        /\ conf.allow \subseteq Inside /\ attached \subseteq Inside
        /\ conf.temp \in Inside \cup {None}
        /\ writers = {} /\ ~conf.stream /\ conf.storage = "memory"
        /\ exts = {} /\ servers = {}

\* However a transition ends, by success, by a failing call or by a bailout,
\* the instance is sealed or refused, never in between (native_enter's catch).
NeverHalfApplied == step = "idle" /\ ran => disabled \/ reason # None

\* A refusal after the sinks were tried leaves only those running that could
\* not be closed (comment at duckdb_driver.c:1880).
OneFailureSparesNoSink ==
    reason \in {"writers", "listing", "extensions", "settings", "detach"} =>
        writers \subseteq stuck

\* A refusal by the extension check leaves only listeners that could not be
\* stopped, also when it is unknown whether quack is loaded
\* (comment at duckdb_driver.c:1819).
RefusalStopsListeners ==
    step = "idle" /\ reason \in {"listing", "extensions"} =>
        servers \subseteq deaf

\* The transition ends although installs may race with it for ever: the
\* caller holds the instance mutex all the while (duckdb_driver.c:1683).
TransitionEnds == step # "idle" ~> step = "idle"

=============================================================================
