------------------------ MODULE SandboxProfileProofs ------------------------
(***************************************************************************)
(* Theorems about SandboxProfile for any number of connections, listeners, *)
(* paths and retries: what each call of the transition has already put in  *)
(* force when the next one starts, and what follows when it ends.          *)
(***************************************************************************)
EXTENDS SandboxProfile, TLAPS

\* The steps of a transition that has met no failure, and those of a refusal.
Advancing == {"connect", "writers", "list", "pre", "detach", "post", "record"}
Refusing == {"stop", "contain"}

\* Those after the list of extensions turned out empty.
Admitted == {"pre", "detach", "post", "record"}

\* What is left of the two lists before each SET.
PreLeft == {PreDetach, <<"allowed_configs", "temp_directory">>,
            <<"temp_directory">>, <<>>}
PostLeft == {PostDetach,
             <<"autoload", "enable_external_access", "lock_configuration">>,
             <<"enable_external_access", "lock_configuration">>,
             <<"lock_configuration">>, <<>>}

\* A transition under way is not yet disabled; it is refused exactly on the
\* way out.
Underway ==
    /\ step # "idle" => ran /\ ~disabled
    /\ step \in Advancing => reason = None
    /\ step \in Refusing => reason \in {"listing", "extensions"}
    /\ step \in Admitted => exts = {}

\* The sinks are stopped before the extensions are listed, and stay so.
SinksStopped == step \in Refusing \cup Admitted \cup {"list"} => writers = {}

\* Listeners exist only with quack, and are asked to stop before the SETs of a
\* refusal.
Listeners ==
    /\ "quack" \notin exts => servers = {}
    /\ step = "stop" /\ quack = "absent" => "quack" \notin exts
    /\ step = "contain" => servers \subseteq deaf

\* The profile in force before each SET of the first list, ...
PreProfile ==
    step = "pre" =>
        /\ todo \in PreLeft
        /\ todo # PreDetach => conf.storage = "memory"
        /\ todo \in {<<"temp_directory">>, <<>>} => ~conf.exempt
        /\ todo = <<>> => conf.temp = None

\* ... after it, ...
DetachProfile ==
    step \in {"detach", "post", "record"} =>
        conf.storage = "memory" /\ ~conf.exempt /\ conf.temp = None

\* ... before each SET of the second list, ...
PostProfile ==
    step = "post" =>
        /\ todo \in PostLeft
        /\ attached \subseteq Inside
        /\ todo # PostDetach => conf.allow \subseteq Inside
        /\ todo \notin {PostDetach, <<"autoload", "enable_external_access",
                                      "lock_configuration">>} => ~conf.autoload
        /\ todo \in {<<"lock_configuration">>, <<>>} => ~conf.access
        /\ todo = <<>> => conf.locked

\* ... and before it is recorded.
FinalProfile ==
    step = "record" =>
        /\ attached \subseteq Inside /\ conf.allow \subseteq Inside
        /\ ~conf.autoload /\ ~conf.access /\ conf.locked

\* A log stream is open only on a file storage.
StreamNeedsFile == conf.stream => conf.storage = "file"

Progress == Underway /\ SinksStopped /\ Listeners

Profiles == /\ PreProfile /\ DetachProfile /\ PostProfile /\ FinalProfile
            /\ StreamNeedsFile

Promises == /\ Sealed /\ NeverHalfApplied /\ OneFailureSparesNoSink
            /\ RefusalStopsListeners

IInv == TypeOK /\ Progress /\ Profiles /\ Promises

-----------------------------------------------------------------------------

USE ProfileAssumption
    DEF progress, engine, history, GoTo, End, Refuse, Reasons, Advancing,
        Refusing, Admitted

\* The two lists are lists of settings.
LEMMA Lists ==
    /\ PreDetach \in Seq(SettingNames) /\ PostDetach \in Seq(SettingNames)
    /\ PreDetach \o PostDetach \in Seq(SettingNames)
    /\ <<>> \in Seq(SettingNames)
<1>1. PreDetach \in Seq(SettingNames) /\ PostDetach \in Seq(SettingNames)
  BY DEF PreDetach, PostDetach, SettingNames
<1> QED
  BY <1>1

\* A list that is not empty has a setting to run next.
LEMMA HeadTail ==
    ASSUME todo \in Seq(SettingNames), todo # <<>>
    PROVE  Head(todo) \in SettingNames /\ Tail(todo) \in Seq(SettingNames)
OBVIOUS

\* detach_storage leaves memory storage and no stream.
LEMMA DetachedFacts ==
    ASSUME NEW c \in Settings
    PROVE  /\ Detached(c) \in Settings
           /\ (c.stream => c.storage = "file") => ~Detached(c).stream
           /\ Detached(c).storage = "memory"
BY DEF Detached, Settings

\* A SET yields settings, ...
LEMMA EffectType ==
    ASSUME NEW c \in Settings, NEW s \in SettingNames, attached \subseteq Paths
    PROVE  Effect(c, s) \in Settings
<1>1. c.allow \cup attached \cup ({c.temp} \ {None}) \subseteq Paths
  BY DEF Settings
<1>2. CASE s \in {"logging_storage", "allowed_configs", "temp_directory"}
  BY <1>2 DEF Effect, Settings
<1>3. CASE s \in {"allowlists", "autoload", "lock_configuration"}
  BY <1>3 DEF Effect, Settings
<1>4. CASE s = "enable_external_access"
  <2>1. Effect(c, s) = [c EXCEPT !.access = FALSE,
                          !.allow = @ \cup attached \cup ({c.temp} \ {None})]
    BY <1>4 DEF Effect
  <2> QED
    BY <1>1, <2>1 DEF Settings
<1> QED
  BY <1>2, <1>3, <1>4 DEF SettingNames

\* ... and none opens a log.
LEMMA EffectStream ==
    ASSUME NEW c \in Settings, NEW s \in SettingNames, Effect(c, s).stream
    PROVE  c.stream /\ Effect(c, s).storage = c.storage
BY DEF Effect, Settings, SettingNames
\* enforce_sandbox_locked begins a transition only on an instance that has had none.
LEMMA StartInv ==
    ASSUME IInv, Start
    PROVE  IInv'
<1>1. TypeOK'
<2>1. conf' \in Settings
  BY DetachedFacts DEF IInv, TypeOK, Start
<2>2. reason' \in Reasons \cup {None}
  BY DEF IInv, TypeOK, Start
<2>3. todo' \in Seq(SettingNames) /\ tries' \in 0..MaxRetries
  BY DEF Start
<2> QED
  BY <2>1, <2>2, <2>3 DEF IInv, TypeOK, Start
<1>2. Progress'
  BY DEF IInv, Progress, Underway, SinksStopped, Listeners, Start
<1>3. Profiles'
<2>1. ~conf'.stream
  BY DetachedFacts DEF IInv, TypeOK, Profiles, StreamNeedsFile, Start
<2> QED
  BY <2>1 DEF Profiles, PreProfile, DetachProfile, PostProfile, FinalProfile,
       StreamNeedsFile, Start
<1>4. Promises'
  BY DEF IInv, Progress, Underway, SinksStopped, Listeners, Promises,
       Sealed, NeverHalfApplied, OneFailureSparesNoSink,
       RefusalStopsListeners, Start
<1> QED
  BY <1>1, <1>2, <1>3, <1>4 DEF IInv

\* disable_external_access opens the inspector.
LEMMA ConnectInv ==
    ASSUME IInv, Connect
    PROVE  IInv'
<1>1. TypeOK'
<2>1. todo' = <<>> /\ writers' \subseteq Members \cup {Inspector}
  BY DEF IInv, TypeOK, Connect
<2> QED
  BY <2>1 DEF IInv, TypeOK, Connect
<1>2. Progress'
  BY DEF IInv, Progress, Underway, SinksStopped, Listeners, Connect
<1>3. Profiles'
  BY DEF IInv, Profiles, PreProfile, DetachProfile, PostProfile,
       FinalProfile, StreamNeedsFile, Connect
<1>4. Promises'
  BY DEF IInv, Progress, Underway, SinksStopped, Listeners, Promises,
       Sealed, NeverHalfApplied, OneFailureSparesNoSink,
       RefusalStopsListeners, Connect
<1> QED
  BY <1>1, <1>2, <1>3, <1>4 DEF IInv

\* clear_local_writers tries the sink of every connection.
LEMMA ClearWritersInv ==
    ASSUME IInv, ClearWriters
    PROVE  IInv'
<1>1. TypeOK'
<2>1. todo' = <<>> /\ writers' \subseteq writers /\ stuck' \subseteq writers
  BY DEF ClearWriters, StillWriting
<2>2. step' \in {"list", "idle"} /\ reason' \in {reason, "writers"}
  BY DEF ClearWriters
<2> QED
  BY <2>1, <2>2 DEF IInv, TypeOK, ClearWriters
<1>2. Progress'
  BY DEF IInv, Progress, Underway, SinksStopped, Listeners, ClearWriters,
       StillWriting
<1>3. Profiles'
  BY DEF IInv, Profiles, PreProfile, DetachProfile, PostProfile,
       FinalProfile, StreamNeedsFile, ClearWriters
<1>4. Promises'
<2>1. PICK F \in SUBSET writers :
         /\ stuck' = F /\ writers' \subseteq F
         /\ F = {} => step' = "list" /\ UNCHANGED reason
         /\ F # {} => step' = "idle" /\ reason' = "writers"
  BY DEF IInv, Progress, Underway, ClearWriters, StillWriting
<2>2. ~disabled' /\ reason = None
  BY DEF IInv, Progress, Underway, ClearWriters
<2> QED
  BY <2>1, <2>2 DEF Promises, Sealed, NeverHalfApplied,
       OneFailureSparesNoSink, RefusalStopsListeners
<1> QED
  BY <1>1, <1>2, <1>3, <1>4 DEF IInv

\* query_extensions waits an install race out.
LEMMA RetryInv ==
    ASSUME IInv, Retry
    PROVE  IInv'
<1>1. TypeOK'
  BY DEF IInv, TypeOK, Retry
<1>2. Progress'
  BY DEF IInv, Progress, Underway, SinksStopped, Listeners, Retry
<1>3. Profiles'
  BY DEF IInv, Profiles, PreProfile, DetachProfile, PostProfile,
       FinalProfile, StreamNeedsFile, Retry
<1>4. Promises'
  BY DEF IInv, Progress, Underway, SinksStopped, Listeners, Promises,
       Sealed, NeverHalfApplied, OneFailureSparesNoSink,
       RefusalStopsListeners, Retry
<1> QED
  BY <1>1, <1>2, <1>3, <1>4 DEF IInv

\* A list that is unavailable leaves quack unknown.
LEMMA ListFailsInv ==
    ASSUME IInv, ListFails
    PROVE  IInv'
<1>1. TypeOK'
  BY DEF IInv, TypeOK, ListFails
<1>2. Progress'
  BY DEF IInv, Progress, Underway, SinksStopped, Listeners, ListFails
<1>3. Profiles'
  BY DEF IInv, Profiles, PreProfile, DetachProfile, PostProfile,
       FinalProfile, StreamNeedsFile, ListFails
<1>4. Promises'
  BY DEF IInv, Progress, Underway, SinksStopped, Listeners, Promises,
       Sealed, NeverHalfApplied, OneFailureSparesNoSink,
       RefusalStopsListeners, ListFails
<1> QED
  BY <1>1, <1>2, <1>3, <1>4 DEF IInv

\* A row that cannot be read leaves quack known or unknown, never absent.
LEMMA ListBreaksInv ==
    ASSUME IInv, ListBreaks
    PROVE  IInv'
<1>1. TypeOK'
  BY DEF IInv, TypeOK, ListBreaks
<1>2. Progress'
  BY DEF IInv, Progress, Underway, SinksStopped, Listeners, ListBreaks
<1>3. Profiles'
  BY DEF IInv, Profiles, PreProfile, DetachProfile, PostProfile,
       FinalProfile, StreamNeedsFile, ListBreaks
<1>4. Promises'
  BY DEF IInv, Progress, Underway, SinksStopped, Listeners, Promises,
       Sealed, NeverHalfApplied, OneFailureSparesNoSink,
       RefusalStopsListeners, ListBreaks
<1> QED
  BY <1>1, <1>2, <1>3, <1>4 DEF IInv

\* The list admits an instance without uncontained extensions.
LEMMA ListExtensionsInv ==
    ASSUME IInv, ListExtensions
    PROVE  IInv'
<1>1. TypeOK'
<2>1. todo' = PreDetach \/ todo' = <<>>
  BY DEF ListExtensions
<2>2. todo' \in Seq(SettingNames)
  BY <2>1, Lists
<2> QED
  BY <2>2 DEF IInv, TypeOK, ListExtensions
<1>2. Progress'
  BY DEF IInv, Progress, Underway, SinksStopped, Listeners, ListExtensions
<1>3. Profiles'
<2>1. step' = "pre" => todo' = PreDetach
  BY DEF ListExtensions
<2>2. step' \in {"pre", "stop"}
  BY DEF ListExtensions
<2>3. PreDetach \notin {<<"temp_directory">>, <<>>}
  BY DEF PreDetach
<2> QED
  BY <2>1, <2>2, <2>3 DEF IInv, Profiles, PreProfile, DetachProfile,
       PostProfile, FinalProfile, StreamNeedsFile, ListExtensions, PreLeft
<1>4. Promises'
  BY DEF IInv, Progress, Underway, SinksStopped, Listeners, Promises,
       Sealed, NeverHalfApplied, OneFailureSparesNoSink,
       RefusalStopsListeners, ListExtensions
<1> QED
  BY <1>1, <1>2, <1>3, <1>4 DEF IInv

\* contain_refused stops the listeners unless quack is absent.
LEMMA StopListenersInv ==
    ASSUME IInv, StopListeners
    PROVE  IInv'
<1>1. TypeOK'
  BY Lists, EffectType DEF IInv, TypeOK, StopListeners, Suspects,
       SettingNames
<1>2. Progress'
  BY DEF IInv, Progress, Underway, SinksStopped, Listeners, StopListeners,
       Suspects
<1>3. Profiles'
<2>1. conf'.stream => conf'.storage = "file"
  BY EffectStream DEF IInv, TypeOK, Profiles, StreamNeedsFile, StopListeners,
       SettingNames
<2> QED
  BY <2>1 DEF Profiles, PreProfile, DetachProfile, PostProfile, FinalProfile,
       StreamNeedsFile, StopListeners
<1>4. Promises'
  BY DEF IInv, Progress, Underway, SinksStopped, Listeners, Promises,
       Sealed, NeverHalfApplied, OneFailureSparesNoSink,
       RefusalStopsListeners, StopListeners
<1> QED
  BY <1>1, <1>2, <1>3, <1>4 DEF IInv

\* contain_refused sets what it may.
LEMMA ContainSettingInv ==
    ASSUME IInv, ContainSetting
    PROVE  IInv'
<1>1. TypeOK'
  BY HeadTail, EffectType DEF IInv, TypeOK, ContainSetting
<1>2. Progress'
  BY DEF IInv, Progress, Underway, SinksStopped, Listeners, ContainSetting
<1>3. Profiles'
<2>1. conf'.stream => conf'.storage = "file"
  BY HeadTail, EffectStream DEF IInv, TypeOK, Profiles, StreamNeedsFile,
       ContainSetting
<2> QED
  BY <2>1 DEF Profiles, PreProfile, DetachProfile, PostProfile, FinalProfile,
       StreamNeedsFile, ContainSetting
<1>4. Promises'
  BY DEF IInv, Progress, Underway, SinksStopped, Listeners, Promises,
       Sealed, NeverHalfApplied, OneFailureSparesNoSink,
       RefusalStopsListeners, ContainSetting
<1> QED
  BY <1>1, <1>2, <1>3, <1>4 DEF IInv

\* A refused transition ends.
LEMMA EndContainInv ==
    ASSUME IInv, EndContain
    PROVE  IInv'
<1>1. TypeOK'
  BY DEF IInv, TypeOK, EndContain
<1>2. Progress'
  BY DEF IInv, Progress, Underway, SinksStopped, Listeners, EndContain
<1>3. Profiles'
  BY DEF IInv, Profiles, PreProfile, DetachProfile, PostProfile,
       FinalProfile, StreamNeedsFile, EndContain
<1>4. Promises'
  BY DEF IInv, Progress, Underway, SinksStopped, Listeners, Promises,
       Sealed, NeverHalfApplied, OneFailureSparesNoSink,
       RefusalStopsListeners, EndContain
<1> QED
  BY <1>1, <1>2, <1>3, <1>4 DEF IInv

\* Each SET of the profile puts one fact in force and keeps the others.
LEMMA RunSettingInv ==
    ASSUME IInv, RunSetting
    PROVE  IInv'
<1>1. TypeOK'
  BY HeadTail, EffectType DEF IInv, TypeOK, RunSetting
<1>2. Progress'
  BY DEF IInv, Progress, Underway, SinksStopped, Listeners, RunSetting
<1>3. Profiles'
<2>1. conf'.stream => conf'.storage = "file"
  BY HeadTail, EffectStream DEF IInv, TypeOK, Profiles, StreamNeedsFile,
       RunSetting
<2>2. CASE step = "pre"
  <3>1. todo \in PreLeft /\ todo # <<>>
    BY <2>2 DEF IInv, Profiles, PreProfile, RunSetting
  <3>2. CASE todo = PreDetach
    <4>1. Head(todo) = "logging_storage"
          /\ todo' = <<"allowed_configs", "temp_directory">>
      BY <3>2 DEF PreDetach, RunSetting
    <4>2. conf'.storage = "memory"
      BY <4>1 DEF IInv, TypeOK, Settings, RunSetting, Effect
    <4>3. todo' \in PreLeft /\ todo' \notin {<<"temp_directory">>, <<>>}
      BY <4>1 DEF PreLeft
    <4> QED
      BY <2>1, <2>2, <4>2, <4>3 DEF Profiles, PreProfile, DetachProfile,
           PostProfile, FinalProfile, StreamNeedsFile, RunSetting
  <3>3. CASE todo = <<"allowed_configs", "temp_directory">>
    <4>1. Head(todo) = "allowed_configs" /\ todo' = <<"temp_directory">>
      BY <3>3 DEF RunSetting
    <4>2. todo # PreDetach /\ todo' # <<>>
      BY <3>3, <4>1 DEF PreDetach
    <4>3. conf'.storage = "memory" /\ ~conf'.exempt
      BY <2>2, <4>1, <4>2 DEF IInv, TypeOK, Settings, Profiles, PreProfile,
           RunSetting, Effect
    <4> QED
      BY <2>1, <2>2, <4>1, <4>2, <4>3 DEF Profiles, PreProfile,
           DetachProfile, PostProfile, FinalProfile, StreamNeedsFile,
           RunSetting, PreLeft
  <3>4. CASE todo = <<"temp_directory">>
    <4>1. Head(todo) = "temp_directory" /\ todo' = <<>>
      BY <3>4 DEF RunSetting
    <4>2. todo # PreDetach
      BY <3>4 DEF PreDetach
    <4>3. conf'.storage = "memory" /\ ~conf'.exempt /\ conf'.temp = None
      BY <2>2, <3>4, <4>1, <4>2 DEF IInv, TypeOK, Settings, Profiles,
           PreProfile, RunSetting, Effect
    <4> QED
      BY <2>1, <2>2, <4>1, <4>3 DEF Profiles, PreProfile, DetachProfile,
           PostProfile, FinalProfile, StreamNeedsFile, RunSetting, PreLeft
  <3> QED
    BY <3>1, <3>2, <3>3, <3>4 DEF PreLeft
<2>3. CASE step = "post"
  <3>1. /\ todo \in PostLeft /\ todo # <<>>
        /\ conf.storage = "memory" /\ ~conf.exempt /\ conf.temp = None
        /\ attached \subseteq Inside /\ attached' = attached
        /\ step' = "post"
    BY <2>3 DEF IInv, Profiles, DetachProfile, PostProfile, RunSetting
  <3>2. CASE todo = PostDetach
    <4>1. Head(todo) = "allowlists"
          /\ todo' = <<"autoload", "enable_external_access",
                       "lock_configuration">>
      BY <3>2 DEF PostDetach, RunSetting
    <4>2. todo' # PostDetach
          /\ todo' \notin {<<"lock_configuration">>, <<>>}
      BY <4>1 DEF PostDetach
    <4>3. /\ conf'.storage = "memory" /\ ~conf'.exempt /\ conf'.temp = None
          /\ conf'.allow = {}
      BY <3>1, <4>1 DEF IInv, TypeOK, Settings, RunSetting, Effect
    <4> QED
      BY <2>1, <3>1, <4>1, <4>2, <4>3 DEF Profiles, PreProfile,
           DetachProfile, PostProfile, FinalProfile, StreamNeedsFile, PostLeft
  <3>3. CASE todo = <<"autoload", "enable_external_access",
                      "lock_configuration">>
    <4>1. Head(todo) = "autoload"
          /\ todo' = <<"enable_external_access", "lock_configuration">>
      BY <3>3 DEF RunSetting
    <4>2. todo # PostDetach /\ todo' \notin {<<"lock_configuration">>, <<>>}
      BY <3>3, <4>1 DEF PostDetach
    <4>3. /\ conf'.storage = "memory" /\ ~conf'.exempt /\ conf'.temp = None
          /\ conf'.allow \subseteq Inside /\ ~conf'.autoload
      BY <2>3, <3>1, <4>1, <4>2 DEF IInv, TypeOK, Settings, Profiles,
           PostProfile, RunSetting, Effect
    <4> QED
      BY <2>1, <3>1, <4>1, <4>2, <4>3 DEF Profiles, PreProfile,
           DetachProfile, PostProfile, FinalProfile, StreamNeedsFile, PostLeft
  <3>4. CASE todo = <<"enable_external_access", "lock_configuration">>
    <4>1. Head(todo) = "enable_external_access"
          /\ todo' = <<"lock_configuration">>
      BY <3>4 DEF RunSetting
    <4>2. /\ todo # PostDetach /\ todo' # <<>>
          /\ todo # <<"autoload", "enable_external_access",
                      "lock_configuration">>
      BY <3>4, <4>1 DEF PostDetach
    <4>3. conf.allow \subseteq Inside /\ ~conf.autoload
      BY <2>3, <4>2 DEF IInv, Profiles, PostProfile
    <4>4. /\ conf'.storage = "memory" /\ ~conf'.exempt /\ conf'.temp = None
          /\ conf'.allow \subseteq Inside /\ ~conf'.autoload /\ ~conf'.access
      BY <3>1, <4>1, <4>3 DEF IInv, TypeOK, Settings, RunSetting, Effect
    <4> QED
      BY <2>1, <3>1, <4>1, <4>2, <4>4 DEF Profiles, PreProfile,
           DetachProfile, PostProfile, FinalProfile, StreamNeedsFile, PostLeft
  <3>5. CASE todo = <<"lock_configuration">>
    <4>1. Head(todo) = "lock_configuration" /\ todo' = <<>>
      BY <3>5 DEF RunSetting
    <4>2. /\ todo # PostDetach
          /\ todo # <<"autoload", "enable_external_access",
                      "lock_configuration">>
      BY <3>5 DEF PostDetach
    <4>3. conf.allow \subseteq Inside /\ ~conf.autoload /\ ~conf.access
      BY <2>3, <3>5, <4>2 DEF IInv, Profiles, PostProfile
    <4>4. /\ conf'.storage = "memory" /\ ~conf'.exempt /\ conf'.temp = None
          /\ conf'.allow \subseteq Inside /\ ~conf'.autoload /\ ~conf'.access
          /\ conf'.locked
      BY <3>1, <4>1, <4>3 DEF IInv, TypeOK, Settings, RunSetting, Effect
    <4> QED
      BY <2>1, <3>1, <4>1, <4>4 DEF Profiles, PreProfile, DetachProfile,
           PostProfile, FinalProfile, StreamNeedsFile, PostLeft
  <3> QED
    BY <3>1, <3>2, <3>3, <3>4, <3>5 DEF PostLeft
<2> QED
  BY <2>2, <2>3 DEF RunSetting
<1>4. Promises'
  BY DEF IInv, Progress, Underway, SinksStopped, Listeners, Promises,
       Sealed, NeverHalfApplied, OneFailureSparesNoSink,
       RefusalStopsListeners, RunSetting
<1> QED
  BY <1>1, <1>2, <1>3, <1>4 DEF IInv

\* A SET that fails refuses the instance.
LEMMA SettingFailsInv ==
    ASSUME IInv, SettingFails
    PROVE  IInv'
<1>1. TypeOK'
  BY DEF IInv, TypeOK, SettingFails
<1>2. Progress'
  BY DEF IInv, Progress, Underway, SinksStopped, Listeners, SettingFails
<1>3. Profiles'
  BY DEF IInv, Profiles, PreProfile, DetachProfile, PostProfile,
       FinalProfile, StreamNeedsFile, SettingFails
<1>4. Promises'
  BY DEF IInv, Progress, Underway, SinksStopped, Listeners, Promises,
       Sealed, NeverHalfApplied, OneFailureSparesNoSink,
       RefusalStopsListeners, SettingFails
<1> QED
  BY <1>1, <1>2, <1>3, <1>4 DEF IInv

\* A list of settings is complete.
LEMMA NextListInv ==
    ASSUME IInv, NextList
    PROVE  IInv'
<1>1. TypeOK'
  BY DEF IInv, TypeOK, NextList
<1>2. Progress'
  BY DEF IInv, Progress, Underway, SinksStopped, Listeners, NextList
<1>3. Profiles'
<2>1. CASE step = "pre"
  <3>1. PreDetach # <<>>
    BY DEF PreDetach
  <3> QED
    BY <2>1, <3>1 DEF IInv, Profiles, PreProfile, DetachProfile, PostProfile,
         FinalProfile, StreamNeedsFile, NextList
<2>2. CASE step = "post"
  <3>1. PostDetach # <<>>
    BY DEF PostDetach
  <3> QED
    BY <2>2, <3>1 DEF IInv, Profiles, PreProfile, DetachProfile, PostProfile,
         FinalProfile, StreamNeedsFile, NextList
<2> QED
  BY <2>1, <2>2 DEF NextList
<1>4. Promises'
  BY DEF IInv, Progress, Underway, SinksStopped, Listeners, Promises,
       Sealed, NeverHalfApplied, OneFailureSparesNoSink,
       RefusalStopsListeners, NextList
<1> QED
  BY <1>1, <1>2, <1>3, <1>4 DEF IInv

\* detach_out_of_basedir leaves what is inside, or refuses.
LEMMA DetachInv ==
    ASSUME IInv, Detach
    PROVE  IInv'
<1>1. TypeOK'
<2>1. (todo' = PostDetach \/ todo' = <<>>) /\ attached' \subseteq attached
  BY DEF Detach
<2>2. todo' \in Seq(SettingNames)
  BY <2>1, Lists
<2> QED
  BY <2>1, <2>2 DEF IInv, TypeOK, Detach
<1>2. Progress'
  BY DEF IInv, Progress, Underway, SinksStopped, Listeners, Detach
<1>3. Profiles'
<2>1. step' = "post" => todo' = PostDetach /\ attached' \subseteq Inside
  BY DEF Detach
<2>2. step' \in {"post", "idle"} /\ conf' = conf
  BY DEF Detach
<2>3. PostDetach \notin {<<"lock_configuration">>, <<>>}
  BY DEF PostDetach
<2> QED
  BY <2>1, <2>2, <2>3 DEF IInv, Profiles, PreProfile, DetachProfile,
       PostProfile, FinalProfile, StreamNeedsFile, Detach, PostLeft
<1>4. Promises'
  BY DEF IInv, Progress, Underway, SinksStopped, Listeners, Promises,
       Sealed, NeverHalfApplied, OneFailureSparesNoSink,
       RefusalStopsListeners, Detach
<1> QED
  BY <1>1, <1>2, <1>3, <1>4 DEF IInv

\* The instance is recorded as sandboxed with everything in force.
LEMMA RecordInv ==
    ASSUME IInv, Record
    PROVE  IInv'
<1>1. TypeOK'
  BY DEF IInv, TypeOK, Record
<1>2. Progress'
  BY DEF IInv, Progress, Underway, SinksStopped, Listeners, Record
<1>3. Profiles'
  BY DEF IInv, Profiles, PreProfile, DetachProfile, PostProfile,
       FinalProfile, StreamNeedsFile, Record
<1>4. Promises'
  BY DEF IInv, Progress, Underway, SinksStopped, Listeners, Promises,
       Sealed, NeverHalfApplied, OneFailureSparesNoSink,
       RefusalStopsListeners, Record, Profiles, DetachProfile, FinalProfile,
       StreamNeedsFile
<1> QED
  BY <1>1, <1>2, <1>3, <1>4 DEF IInv

\* native_enter's handler refuses an interrupted transition.
LEMMA BailoutInv ==
    ASSUME IInv, Bailout
    PROVE  IInv'
<1>1. TypeOK'
  BY DEF IInv, TypeOK, Bailout
<1>2. Progress'
  BY DEF IInv, Progress, Underway, SinksStopped, Listeners, Bailout
<1>3. Profiles'
  BY DEF IInv, Profiles, PreProfile, DetachProfile, PostProfile,
       FinalProfile, StreamNeedsFile, Bailout
<1>4. Promises'
  BY DEF IInv, Progress, Underway, SinksStopped, Listeners, Promises,
       Sealed, NeverHalfApplied, OneFailureSparesNoSink,
       RefusalStopsListeners, Bailout
<1> QED
  BY <1>1, <1>2, <1>3, <1>4 DEF IInv

\* Another process installs an extension.
LEMMA InstallInv ==
    ASSUME IInv, Install
    PROVE  IInv'
<1>1. TypeOK'
  BY DEF IInv, TypeOK, Install
<1>2. Progress'
  BY DEF IInv, Progress, Underway, SinksStopped, Listeners, Install
<1>3. Profiles'
  BY DEF IInv, Profiles, PreProfile, DetachProfile, PostProfile,
       FinalProfile, StreamNeedsFile, Install
<1>4. Promises'
  BY DEF IInv, Progress, Underway, SinksStopped, Listeners, Promises,
       Sealed, NeverHalfApplied, OneFailureSparesNoSink,
       RefusalStopsListeners, Install
<1> QED
  BY <1>1, <1>2, <1>3, <1>4 DEF IInv

\* The retry budget passes.
LEMMA LateInv ==
    ASSUME IInv, Late
    PROVE  IInv'
<1>1. TypeOK'
  BY DEF IInv, TypeOK, Late
<1>2. Progress'
  BY DEF IInv, Progress, Underway, SinksStopped, Listeners, Late
<1>3. Profiles'
  BY DEF IInv, Profiles, PreProfile, DetachProfile, PostProfile,
       FinalProfile, StreamNeedsFile, Late
<1>4. Promises'
  BY DEF IInv, Progress, Underway, SinksStopped, Listeners, Promises,
       Sealed, NeverHalfApplied, OneFailureSparesNoSink,
       RefusalStopsListeners, Late
<1> QED
  BY <1>1, <1>2, <1>3, <1>4 DEF IInv

\* A log can be reopened only on a file storage.
LEMMA EnableLoggingInv ==
    ASSUME IInv, EnableLogging
    PROVE  IInv'
<1>1. TypeOK'
  <2>1. conf' \in Settings
    BY DEF IInv, TypeOK, EnableLogging, Settings
  <2> QED
    BY <2>1 DEF IInv, TypeOK, EnableLogging
<1>2. Progress'
  BY DEF IInv, Progress, Underway, SinksStopped, Listeners, EnableLogging
<1>3. Profiles'
  BY DEF IInv, Profiles, PreProfile, DetachProfile, PostProfile,
       FinalProfile, StreamNeedsFile, EnableLogging, CanRunSql
<1>4. Promises'
  BY DEF IInv, Progress, Underway, SinksStopped, Listeners, Promises,
       Sealed, NeverHalfApplied, OneFailureSparesNoSink,
       RefusalStopsListeners, EnableLogging
<1> QED
  BY <1>1, <1>2, <1>3, <1>4 DEF IInv

\* Between transitions, native_cleanup_enter clears the sinks of a connection.
LEMMA CleanupInv ==
    ASSUME IInv, NEW m \in Members, Cleanup(m)
    PROVE  IInv'
<1>1. TypeOK'
<2>1. conf' \in Settings
  BY DetachedFacts DEF IInv, TypeOK, Cleanup
<2>2. writers' \subseteq writers /\ reason' \in {reason, "cleanup"}
  BY DEF Cleanup
<2> QED
  BY <2>1, <2>2 DEF IInv, TypeOK, Cleanup
<1>2. Progress'
  BY DEF IInv, Progress, Underway, SinksStopped, Listeners, Cleanup
<1>3. Profiles'
<2>1. ~conf'.stream
  BY DetachedFacts DEF IInv, TypeOK, Profiles, StreamNeedsFile, Cleanup
<2> QED
  BY <2>1 DEF Profiles, PreProfile, DetachProfile, PostProfile, FinalProfile,
       StreamNeedsFile, Cleanup
<1>4. Promises'
<2>1. writers' \subseteq writers /\ reason' \in {reason, "cleanup"}
      /\ (reason # None => reason' = reason)
  BY DEF Cleanup
<2>2. conf'.access = conf.access /\ conf'.locked = conf.locked
      /\ conf'.exempt = conf.exempt /\ conf'.autoload = conf.autoload
      /\ conf'.allow = conf.allow /\ conf'.temp = conf.temp
      /\ conf'.storage = "memory" /\ ~conf'.stream
  BY DetachedFacts DEF IInv, TypeOK, Settings, Profiles, StreamNeedsFile,
       Cleanup, Detached
<2> QED
  BY <2>1, <2>2 DEF IInv, Promises, Sealed, NeverHalfApplied,
       OneFailureSparesNoSink, RefusalStopsListeners, Cleanup
<1> QED
  BY <1>1, <1>2, <1>3, <1>4 DEF IInv

\* SQL attaches a database where the settings let it.
LEMMA AttachInv ==
    ASSUME IInv, NEW p \in Paths, Attach(p)
    PROVE  IInv'
<1>1. TypeOK'
  BY DEF IInv, TypeOK, Attach
<1>2. Progress'
  BY DEF IInv, Progress, Underway, SinksStopped, Listeners, Attach
<1>3. Profiles'
<2>1. step \notin Admitted
  BY DEF IInv, Progress, Underway, Listeners, Attach, CanRunSql
<2> QED
  BY <2>1 DEF IInv, TypeOK, Settings, Profiles, PreProfile, DetachProfile,
       PostProfile, FinalProfile, StreamNeedsFile, Attach
<1>4. Promises'
  BY DEF IInv, Progress, Underway, SinksStopped, Listeners, Promises,
       Sealed, NeverHalfApplied, OneFailureSparesNoSink,
       RefusalStopsListeners, Attach, CanRunSql
<1> QED
  BY <1>1, <1>2, <1>3, <1>4 DEF IInv

\* SQL moves the spill directory where the settings let it.
LEMMA SetTempInv ==
    ASSUME IInv, NEW p \in Paths, SetTemp(p)
    PROVE  IInv'
<1>1. TypeOK'
  BY DEF IInv, TypeOK, SetTemp, Settings
<1>2. Progress'
  BY DEF IInv, Progress, Underway, SinksStopped, Listeners, SetTemp
<1>3. Profiles'
<2>1. step \notin Admitted
  BY DEF IInv, Progress, Underway, Listeners, SetTemp, CanRunSql
<2> QED
  BY <2>1 DEF IInv, TypeOK, Settings, Profiles, PreProfile, DetachProfile,
       PostProfile, FinalProfile, StreamNeedsFile, SetTemp
<1>4. Promises'
  BY DEF IInv, Progress, Underway, SinksStopped, Listeners, Promises,
       Sealed, NeverHalfApplied, OneFailureSparesNoSink,
       RefusalStopsListeners, SetTemp, CanRunSql, Settable
<1> QED
  BY <1>1, <1>2, <1>3, <1>4 DEF IInv

-----------------------------------------------------------------------------

\* What earlier SQL left behind is only required to be typed, and a log's
\* stream to have a file.
LEMMA InitInv == Init => IInv
<1> SUFFICES ASSUME Init
             PROVE  IInv
  OBVIOUS
<1>1. TypeOK
  <2>1. todo \in Seq(SettingNames) /\ tries \in 0..MaxRetries
    BY DEF Init
  <2>2. conf \in Settings /\ attached \subseteq Paths
        /\ writers \subseteq Members /\ servers \subseteq Servers
    BY DEF Init
  <2> QED
    BY <2>1, <2>2 DEF Init, TypeOK
<1>2. Progress
  BY DEF Init, Progress, Underway, SinksStopped, Listeners
<1>3. Profiles
  BY DEF Init, Profiles, PreProfile, DetachProfile, PostProfile, FinalProfile,
       StreamNeedsFile
<1>4. Promises
  BY DEF Init, Promises, Sealed, NeverHalfApplied, OneFailureSparesNoSink,
       RefusalStopsListeners
<1> QED
  BY <1>1, <1>2, <1>3, <1>4 DEF IInv

\* A step that changes none of the variables keeps the invariant.
LEMMA StutterInv ==
    ASSUME IInv, UNCHANGED vars
    PROVE  IInv'
BY DEF IInv, vars, TypeOK, Progress, Underway, SinksStopped, Listeners,
     Profiles, PreProfile, DetachProfile, PostProfile, FinalProfile,
     StreamNeedsFile, Promises, Sealed, NeverHalfApplied,
     OneFailureSparesNoSink, RefusalStopsListeners

\* The invariant holds through every transition, whatever fails or interleaves.
THEOREM Invariance == Spec => []IInv
<1>1. Init => IInv
  BY InitInv
<1>2. IInv /\ [Next]_vars => IInv'
  <2> SUFFICES ASSUME IInv, [Next]_vars
               PROVE  IInv'
    OBVIOUS
  <2>1. CASE Start
    BY <2>1, StartInv
  <2>2. CASE Proceed
    BY <2>2, ConnectInv, ClearWritersInv, RetryInv, ListFailsInv,
       ListBreaksInv, ListExtensionsInv, StopListenersInv, ContainSettingInv,
       EndContainInv, RunSettingInv, SettingFailsInv, NextListInv, DetachInv,
       RecordInv DEF Proceed
  <2>3. CASE Bailout \/ Install \/ Late \/ EnableLogging
    BY <2>3, BailoutInv, InstallInv, LateInv, EnableLoggingInv
  <2>4. ASSUME NEW m \in Members, Cleanup(m)
        PROVE  IInv'
    BY <2>4, CleanupInv
  <2>5. ASSUME NEW p \in Paths, Attach(p) \/ SetTemp(p)
        PROVE  IInv'
    BY <2>5, AttachInv, SetTempInv
  <2>6. CASE UNCHANGED vars
    BY <2>6, StutterInv
  <2> QED
    BY <2>1, <2>2, <2>3, <2>4, <2>5, <2>6 DEF Next
<1> QED
  BY <1>1, <1>2, PTL DEF Spec

\* The variables keep their types.
THEOREM TypeCorrect == Spec => []TypeOK
<1>1. IInv => TypeOK
  BY DEF IInv
<1> QED
  BY <1>1, Invariance, PTL

\* external_access_disabled is set only over a complete profile, and nothing
\* that still runs can open a way out of open_basedir again.
THEOREM SealHolds == Spec => []Sealed
<1>1. IInv => Sealed
  BY DEF IInv, Promises
<1> QED
  BY <1>1, Invariance, PTL

\* Every way out of pdo_duckdb_disable_external_access seals or refuses.
THEOREM AllOrRefused == Spec => []NeverHalfApplied
<1>1. IInv => NeverHalfApplied
  BY DEF IInv, Promises
<1> QED
  BY <1>1, Invariance, PTL

\* clear_local_writers goes on after a sink it could not close.
THEOREM SinksAreStopped == Spec => []OneFailureSparesNoSink
<1>1. IInv => OneFailureSparesNoSink
  BY DEF IInv, Promises
<1> QED
  BY <1>1, Invariance, PTL

\* The way out through contain_refused asks every listener to stop.
THEOREM ListenersAreStopped == Spec => []RefusalStopsListeners
<1>1. IInv => RefusalStopsListeners
  BY DEF IInv, Promises
<1> QED
  BY <1>1, Invariance, PTL

=============================================================================
