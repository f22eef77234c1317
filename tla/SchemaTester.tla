--------------------------- MODULE SchemaTester ---------------------------
(***************************************************************************)
(* schema_tester.lua runs the deployments of a configuration one after the *)
(* other: it writes a deployment's patch to the schema's custom file and   *)
(* redeploys, sets options and properties of the session, runs the tests,  *)
(* puts options and properties back, removes the patch and redeploys, and  *)
(* removes the user dictionary.  The custom file, the deployed workspace   *)
(* and the user dictionary are on disk: they outlive a tester that dies,   *)
(* which any assert_exit and any error of a test's function makes it do.   *)
(***************************************************************************)
EXTENDS Naturals, Sequences, FiniteSets, SequencesExt, Functions

CONSTANTS
  Config,     \* config.deploy: a record [patch, options, properties, tests]
              \* for each deployment's name
  NoPatch,    \* the patch field of a deployment that has none (nil)
  OptionDefault,    \* the options of a new session
  PropertyDefault,  \* the properties of a new session
  Empty,      \* the value of a property that was never set
  MaxRuns     \* bound: how often the tester is started

VARIABLES
  pc,          \* where the tester is
  runs,        \* how often it has been started
  todo,        \* the deployments the loop has not come to
  deployment,  \* the one it is at
  at,          \* the patch line or test it is at
  session,     \* whether the local `session` is set
  running,     \* whether the engine is initialized
  options,     \* the session's options in the engine
  properties,  \* the session's properties in the engine
  opts,        \* what set_env returned for the options
  props,       \* what set_env returned for the properties: nil values are absent
  ok,          \* whether no row says "failed"
  custom,      \* keys in <schema>.custom.yaml
  workspace,   \* keys of the custom file at the last deployment
  userdb,      \* whether the user dictionary exists
  \* history, not in the code
  found,       \* the custom file when the tester was started
  before,      \* options and properties when set_env was called
  died         \* whether some tester died

program == <<pc, todo, deployment, at>>
saved == <<opts, props, before>>
disk == <<custom, userdb>>
process == <<runs, found, died>>
engine == <<session, running, options, properties, workspace>>
vars == <<program, saved, ok, disk, process, engine>>

Deployments == DOMAIN Config

\* A patch is a list of lines, perhaps none; options and properties are among those
\* that OptionDefault and PropertyDefault name.
SchemaTesterAssumption ==
  /\ MaxRuns \in Nat \ {0}
  /\ OptionDefault \in [DOMAIN OptionDefault -> BOOLEAN]
  /\ \A d \in Deployments :
       /\ Config[d].patch = NoPatch \/ Config[d].patch \in Seq(Range(Config[d].patch))
       /\ DOMAIN Config[d].options \subseteq DOMAIN OptionDefault
       /\ Config[d].options \in [DOMAIN Config[d].options -> BOOLEAN]
       /\ DOMAIN Config[d].properties \subseteq DOMAIN PropertyDefault
       /\ Config[d].tests \in Nat

ASSUME SchemaTesterAssumption

Here == Config[deployment]
Keys == UNION {Range(Config[d].patch) : d \in {e \in Deployments : Config[e].patch # NoPatch}}
Nothing == [k \in {} |-> Empty]

Stopped == {"ok", "tests failed", "dead"}
Serving == {"set_env", "test", "dry_run", "recover"}
Steps == {"loop", "deploy", "patch", "unpatch", "remove", "clean", "rmdir"}
           \union Serving \union Stopped

TypeOK ==
  /\ pc \in Steps
  /\ runs \in 1..MaxRuns
  /\ todo \subseteq Deployments /\ deployment \in Deployments /\ at \in Nat
  /\ session \in BOOLEAN /\ running \in BOOLEAN /\ userdb \in BOOLEAN
  /\ DOMAIN options = DOMAIN OptionDefault /\ Range(options) \subseteq BOOLEAN
  /\ DOMAIN properties = DOMAIN PropertyDefault
  /\ DOMAIN opts \subseteq DOMAIN options /\ DOMAIN props \subseteq DOMAIN properties
  /\ ok \in BOOLEAN
  /\ custom \subseteq Keys /\ workspace \subseteq Keys /\ found \subseteq Keys
  /\ died \in BOOLEAN
---------------------------------------------------------------------------
(* init_session() and finalize().  init_session deploys the custom file as *)
(* the step leaves it: start_maintenance(true) always starts a deployment, *)
(* and the tester joins it.                                                *)

\* Mutant of InitSession: no maintenance.
InitSessionUndeployed ==
  /\ session' = TRUE /\ running' = TRUE
  /\ options' = OptionDefault /\ properties' = PropertyDefault
  /\ UNCHANGED workspace

InitSession ==
  /\ session' = TRUE /\ running' = TRUE
  /\ options' = OptionDefault /\ properties' = PropertyDefault
  /\ workspace' = custom'

\* Mutants of Finalize: `session` is not reset, or nothing happens.
FinalizeEngineOnly ==
  /\ running' = (running /\ ~session)
  /\ UNCHANGED <<session, options, properties, workspace>>

FinalizeNothing == UNCHANGED engine

Finalize ==
  /\ session' = FALSE
  /\ running' = (running /\ ~session)
  /\ UNCHANGED <<options, properties, workspace>>

(* set_env(values, kind): what the engine holds after it, and the old      *)
(* values it returns.  get_option always has a value; get_property returns *)
(* nil for an empty property, which a Lua table does not hold.             *)
\* Mutants of SetIn and OldOptions: the values replace all that is held,
\* and no old value is kept.
SetOnly(values, held) == values
OldNothing(values, held) == Nothing

SetIn(values, held) == [k \in DOMAIN held |-> IF k \in DOMAIN values THEN values[k] ELSE held[k]]
OldOptions(values, held) == Restrict(held, DOMAIN values)
OldProperties(values, held) == Restrict(held, {k \in DOMAIN values : held[k] # Empty})

Init ==
  /\ pc = "loop" /\ runs = 1 /\ todo = Deployments
  /\ deployment \in Deployments /\ at = 0
  /\ session = TRUE /\ running = TRUE
  /\ options = OptionDefault /\ properties = PropertyDefault
  /\ opts = Nothing /\ props = Nothing
  /\ ok = TRUE
  /\ custom = {} /\ workspace = {} /\ userdb = FALSE
  /\ found = {} /\ before = <<OptionDefault, PropertyDefault>> /\ died = FALSE

(* init(), of a tester started after one that stopped. *)
Start ==
  /\ pc \in Stopped /\ runs < MaxRuns
  /\ runs' = runs + 1
  /\ pc' = "loop" /\ todo' = Deployments /\ at' = 0
  /\ ok' = TRUE
  /\ found' = custom
  /\ UNCHANGED <<deployment, saved, disk, died>>
  /\ InitSession

---------------------------------------------------------------------------
(* The loop over config.deploy, whose order pairs() does not fix.          *)

NextDeployment ==
  /\ pc = "loop"
  /\ \E d \in todo :
       deployment' = d /\ todo' = todo \ {d}
  /\ pc' = "deploy"
  /\ UNCHANGED <<at, saved, ok, disk, process>>
  /\ IF session THEN UNCHANGED engine ELSE InitSession

(* deploy_patch(), up to the settings being loaded. *)
DeployPatch ==
  /\ pc = "deploy"
  /\ IF Here.patch = NoPatch
     THEN pc' = "set_env" /\ UNCHANGED engine
     ELSE pc' = "patch" /\ Finalize
  /\ at' = 1
  /\ UNCHANGED <<todo, deployment, saved, ok, disk, process>>

(* customize_item and save_settings, for one line of the patch. *)
PatchLine ==
  /\ pc = "patch" /\ at <= Len(Here.patch)
  /\ custom' = custom \union {Here.patch[at]}
  /\ at' = at + 1
  /\ UNCHANGED <<pc, todo, deployment, saved, ok, userdb, process, engine>>

Patched ==
  /\ pc = "patch" /\ at > Len(Here.patch)
  /\ pc' = "set_env"
  /\ UNCHANGED <<todo, deployment, at, saved, ok, disk, process>>
  /\ InitSession

SetEnv ==
  /\ pc = "set_env"
  /\ before' = <<options, properties>>
  /\ opts' = OldOptions(Here.options, options)
  /\ props' = OldProperties(Here.properties, properties)
  /\ options' = SetIn(Here.options, options)
  /\ properties' = SetIn(Here.properties, properties)
  /\ pc' = "test" /\ at' = 1
  /\ UNCHANGED <<todo, deployment, session, running, workspace, ok, disk, process>>

(* send(): the keys may switch an option, as Shift does, and what they     *)
(* commit may bring the user dictionary into being.                        *)
Send ==
  /\ \/ UNCHANGED options
     \/ \E o \in DOMAIN options : options' = [options EXCEPT ![o] = ~@]
  /\ userdb' \in {userdb, TRUE}
  /\ UNCHANGED <<session, running, properties, workspace, custom>>

Test ==
  /\ pc = "test" /\ at <= Here.tests
  /\ Send
  /\ ok' \in {ok, FALSE}
  /\ at' = at + 1
  /\ UNCHANGED <<pc, todo, deployment, saved, process>>

TestsEnd ==
  /\ pc = "test" /\ at > Here.tests
  /\ pc' = "dry_run" /\ at' = 1
  /\ UNCHANGED <<todo, deployment, saved, ok, disk, process, engine>>

(* dry_run: the tests once more if one of them has a `run`; otherwise it   *)
(* returns at once.  Both are taken to be possible.                        *)
DryRun ==
  /\ pc = "dry_run" /\ at <= Here.tests
  /\ Send
  /\ at' = at + 1
  /\ UNCHANGED <<pc, todo, deployment, saved, ok, process>>

DryRunEnd ==
  /\ pc = "dry_run" /\ at \in {1, Here.tests + 1}
  /\ pc' = "recover"
  /\ UNCHANGED <<todo, deployment, at, saved, ok, disk, process, engine>>

Recover ==
  /\ pc = "recover"
  /\ options' = SetIn(opts, options)
  /\ properties' = SetIn(props, properties)
  /\ pc' = "unpatch"
  /\ UNCHANGED <<todo, deployment, at, saved, ok, disk, process, session, running, workspace>>

(* remove_patch(): a file that a tester before this one left goes too.     *)
RemovePatch ==
  /\ pc = "unpatch"
  /\ IF Here.patch = NoPatch \/ custom = {}
     THEN pc' = "clean" /\ UNCHANGED engine
     ELSE pc' = "remove" /\ Finalize
  /\ UNCHANGED <<todo, deployment, at, saved, ok, disk, process>>

\* Mutant of Removed: the file stays.
NothingRemoved == custom

Removed == {}

RemoveFile ==
  /\ pc = "remove"
  /\ custom' = Removed
  /\ InitSession
  /\ pc' = "clean"
  /\ UNCHANGED <<todo, deployment, at, saved, ok, userdb, process>>

CleanUserdb ==
  /\ pc = "clean"
  /\ IF userdb
     THEN pc' = "rmdir" /\ Finalize
     ELSE pc' = "loop" /\ UNCHANGED engine
  /\ UNCHANGED <<todo, deployment, at, saved, ok, disk, process>>

RemoveUserdb ==
  /\ pc = "rmdir"
  /\ userdb' = FALSE
  /\ pc' = "loop"
  /\ UNCHANGED <<todo, deployment, at, saved, ok, custom, process, engine>>

(* The rows are printed, and one that says "failed" makes the program end  *)
(* with an error; otherwise it finalizes.                                  *)
Finish ==
  /\ pc = "loop" /\ todo = {}
  /\ pc' = IF ok THEN "ok" ELSE "tests failed"
  /\ session' = FALSE /\ running' = FALSE
  /\ UNCHANGED <<todo, deployment, at, saved, ok, disk, process,
                 options, properties, workspace>>

(* An error of the engine's, of a patch or of a test's function, wherever  *)
(* the tester is, is caught by nobody and ends the program.  Lua closes    *)
(* its state and with it the RimeApi handle, whose deleter finalizes the   *)
(* engine.                                                                 *)
Fail ==
  /\ pc \notin Stopped
  /\ pc' = "dead" /\ died' = TRUE
  /\ session' = FALSE /\ running' = FALSE
  /\ UNCHANGED <<runs, todo, deployment, at, options, properties, workspace,
                 saved, ok, disk, found>>

Next ==
  \/ Start \/ NextDeployment \/ DeployPatch \/ PatchLine \/ Patched \/ SetEnv
  \/ Test \/ TestsEnd \/ DryRun \/ DryRunEnd \/ Recover \/ RemovePatch \/ RemoveFile
  \/ CleanUserdb \/ RemoveUserdb \/ Finish \/ Fail

Spec == Init /\ [][Next]_vars
---------------------------------------------------------------------------
(* The engine is asked to run tests, and for options and properties, only  *)
(* with the session that init_session made and while it is initialized:    *)
(* finalize(), called on four ways through the loop, and the check at the  *)
(* loop's head always leave one when it is needed.                         *)
SessionAlive == pc \in Serving => session /\ running

(* While a deployment is tested, what is deployed is its own patch and at  *)
(* most what an earlier tester left behind, never another deployment's.    *)
TestsSeeTheirPatch ==
  pc \in {"test", "dry_run", "recover"} =>
    LET own == IF Here.patch = NoPatch THEN {} ELSE Range(Here.patch)
    IN own \subseteq workspace /\ workspace \subseteq own \union found

(* A custom file is found at the start only if an earlier tester died:     *)
(* one that comes to its end, failed tests or not, has removed what it     *)
(* wrote.                                                                  *)
LeftoverOnlyAfterDeath == found # {} => died

(* The files the engine reads or holds open, the custom file and the user  *)
(* dictionary, are written and removed only while it is finalized.         *)
DiskOffline == [][custom' # custom \/ (userdb /\ ~userdb') => ~running]_vars

(* When the patch is removed, the options that the deployment set have the *)
(* values they had before it, whatever its tests switched.                 *)
OptionsRecovered ==
  pc = "unpatch" => \A o \in DOMAIN Here.options : options[o] = before[1][o]

(* "recover options and properties to previous values"                     *)
(* (schema_tester.lua:569), "set properties before tests, reset empty      *)
(* after tests" (schema_tester_config.lua:44): not for a property that was *)
(* empty.                                                                  *)
PropertiesRecovered ==
  pc = "unpatch" => \A p \in DOMAIN Here.properties : properties[p] = before[2][p]
===========================================================================
