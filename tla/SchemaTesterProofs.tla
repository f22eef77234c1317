------------------------ MODULE SchemaTesterProofs ------------------------
(***************************************************************************)
(* What holds of the schema tester for every list of deployments, every    *)
(* patch, option and property, and any number of runs.  The invariant says *)
(* where the tester has its session, and what the custom file and the      *)
(* deployed workspace can hold at each of its steps: what this deployment  *)
(* wrote, and what an earlier tester left.                                 *)
(***************************************************************************)
EXTENDS SchemaTester, TLAPS

\* The keys of the deployment's own patch, and those of them written so far.
Own == IF Here.patch = NoPatch THEN {} ELSE Range(Here.patch)
Written == {Here.patch[k] : k \in {j \in DOMAIN Here.patch : j < at}}

Between(keys, least) == least \subseteq keys /\ keys \subseteq Own \union found

Types ==
  /\ pc \in Steps
  /\ runs \in 1..MaxRuns
  /\ todo \subseteq Deployments /\ deployment \in Deployments /\ at \in Nat
  /\ session \in BOOLEAN /\ userdb \in BOOLEAN /\ ok \in BOOLEAN /\ died \in BOOLEAN
  /\ options \in [DOMAIN OptionDefault -> BOOLEAN]
  /\ DOMAIN properties = DOMAIN PropertyDefault
  /\ opts \in [DOMAIN opts -> BOOLEAN] /\ DOMAIN opts \subseteq DOMAIN OptionDefault
  /\ DOMAIN props \subseteq DOMAIN PropertyDefault
  /\ custom \subseteq Keys /\ workspace \subseteq Keys /\ found \subseteq Keys

\* The engine is initialized exactly as long as there is a session, and which steps
\* have one.
SessionKnown ==
  /\ running = session
  /\ pc \in Serving \union {"deploy", "unpatch", "clean"} => session
  /\ pc \in Stopped \union {"patch", "remove", "rmdir"} => ~session

\* Between two deployments there is only what an earlier tester left.
CustomAtRest ==
  /\ pc \in {"loop", "deploy", "clean", "rmdir", "ok", "tests failed"} => custom \subseteq found
  /\ pc \in {"loop", "deploy", "clean"} /\ session => workspace \subseteq found

\* Within one there is its patch as well, once it has been written.
PatchWritten ==
  /\ pc = "patch" => /\ Here.patch # NoPatch
                     /\ at \in 1..(Len(Here.patch) + 1)
                     /\ Between(custom, Written)
  /\ pc \in Serving \union {"unpatch"} => Between(custom, Own) /\ Between(workspace, Own)

\* What set_env saved, until it is put back.
OptionsSaved ==
  pc \in {"test", "dry_run", "recover"} => opts = Restrict(before[1], DOMAIN Here.options)

DeathRemembered == (pc = "dead" => died) /\ LeftoverOnlyAfterDeath

TesterInv ==
  /\ Types /\ SessionKnown /\ CustomAtRest /\ PatchWritten
  /\ OptionsSaved /\ OptionsRecovered /\ DeathRemembered

USE SchemaTesterAssumption DEF SchemaTesterAssumption, Deployments

-----------------------------------------------------------------------------
\* A patch is a sequence whose lines are keys, and the lines written so far are all
\* of them once the last is written.
LEMMA PatchFacts ==
  ASSUME deployment \in Deployments, Here.patch # NoPatch
  PROVE  /\ DOMAIN Here.patch = 1..Len(Here.patch) /\ Len(Here.patch) \in Nat
         /\ Own = {Here.patch[k] : k \in DOMAIN Here.patch}
         /\ Own \subseteq Keys
<1>1. Here.patch \in Seq(Range(Here.patch))
  BY DEF Here
<1>2. DOMAIN Here.patch = 1..Len(Here.patch) /\ Len(Here.patch) \in Nat
  BY <1>1
<1>3. Own = {Here.patch[k] : k \in DOMAIN Here.patch}
  BY DEF Own, Range
<1>4. Own \subseteq Keys
  BY DEF Own, Keys, Here
<1>5. QED
  BY <1>2, <1>3, <1>4

\* The state the first tester starts in satisfies the invariant.
LEMMA InitTester == Init => TesterInv
<1> SUFFICES ASSUME Init PROVE TesterInv
  OBVIOUS
<1> USE DEF Init
<1>1. Types
  <2>1. pc \in Steps /\ runs \in 1..MaxRuns /\ at \in Nat
    BY DEF Steps
  <2>2. opts \in [DOMAIN opts -> BOOLEAN] /\ DOMAIN opts = {} /\ DOMAIN props = {}
    BY DEF Nothing
  <2>3. QED
    BY <2>1, <2>2 DEF Types
<1>2. SessionKnown
  BY DEF SessionKnown, Serving, Stopped
<1>3. CustomAtRest /\ PatchWritten
  BY DEF CustomAtRest, PatchWritten, Serving
<1>4. OptionsSaved /\ OptionsRecovered /\ DeathRemembered
  BY DEF OptionsSaved, OptionsRecovered, DeathRemembered, LeftoverOnlyAfterDeath
<1>5. QED
  BY <1>1, <1>2, <1>3, <1>4 DEF TesterInv

\* What the invariant says of options and properties.
LEMMA SetInFacts ==
  ASSUME NEW held \in [DOMAIN OptionDefault -> BOOLEAN],
         NEW values, values \in [DOMAIN values -> BOOLEAN]
  PROVE  SetIn(values, held) \in [DOMAIN OptionDefault -> BOOLEAN]
BY DEF SetIn

\* Every step keeps the types.
LEMMA StepTypes == TesterInv /\ [Next]_vars => Types'
<1> SUFFICES ASSUME TesterInv, [Next]_vars PROVE Types'
  OBVIOUS
<1> USE DEF TesterInv, Types, Steps, Serving, Stopped, process, disk, saved, engine,
            InitSession, Finalize
<1>1. CASE Start
  <2>1. runs' \in 1..MaxRuns
    <3>1. runs \in 1..MaxRuns /\ runs < MaxRuns /\ runs' = runs + 1 /\ MaxRuns \in Nat
      BY <1>1 DEF Start
    <3>2. QED
      BY ONLY <3>1
  <2>2. UNCHANGED <<deployment, opts, props, custom, userdb, died>>
    BY <1>1 DEF Start
  <2>3. QED
    BY <1>1, <2>1, <2>2 DEF Start
<1>2. CASE NextDeployment
  BY <1>2 DEF NextDeployment
<1>3. CASE DeployPatch
  BY <1>3 DEF DeployPatch
<1>4. CASE PatchLine
  <2>1. Here.patch[at] \in Keys
    BY <1>4, PatchFacts DEF PatchLine, PatchWritten
  <2>2. QED
    BY <1>4, <2>1 DEF PatchLine
<1>5. CASE Patched
  BY <1>5 DEF Patched
<1>6. CASE SetEnv
  <2>1. options' \in [DOMAIN OptionDefault -> BOOLEAN]
    BY <1>6, SetInFacts DEF SetEnv, Here
  <2>2. DOMAIN properties' = DOMAIN PropertyDefault
    BY <1>6 DEF SetEnv, SetIn
  <2>3. opts' \in [DOMAIN opts' -> BOOLEAN] /\ DOMAIN opts' \subseteq DOMAIN OptionDefault
    BY <1>6 DEF SetEnv, OldOptions, Restrict, Here
  <2>4. DOMAIN props' \subseteq DOMAIN PropertyDefault
    BY <1>6 DEF SetEnv, OldProperties, Restrict, Here
  <2>5. QED
    BY <1>6, <2>1, <2>2, <2>3, <2>4 DEF SetEnv
<1>7. CASE Test
  <2>1. options' \in [DOMAIN OptionDefault -> BOOLEAN]
    BY <1>7 DEF Test, Send
  <2>2. userdb' \in BOOLEAN /\ UNCHANGED <<session, running, properties, workspace, custom>>
    BY <1>7 DEF Test, Send
  <2>3. ok' \in BOOLEAN /\ at' \in Nat
    <3>1. ok' \in {ok, FALSE} /\ ok \in BOOLEAN
      BY <1>7, Zenon DEF Test
    <3>2. ok' \in BOOLEAN
      BY ONLY <3>1, Zenon
    <3>3. at' \in Nat
      BY <1>7 DEF Test
    <3>4. QED
      BY <3>2, <3>3
  <2>4. UNCHANGED <<pc, todo, deployment, saved, process>>
    BY <1>7 DEF Test
  <2>5. QED
    BY <2>1, <2>2, <2>3, <2>4
<1>8. CASE TestsEnd
  BY <1>8 DEF TestsEnd
<1>9. CASE DryRun
  <2>1. options' \in [DOMAIN OptionDefault -> BOOLEAN]
    BY <1>9 DEF DryRun, Send
  <2>2. userdb' \in BOOLEAN /\ UNCHANGED <<session, running, properties, workspace, custom>>
    BY <1>9 DEF DryRun, Send
  <2>3. QED
    BY <1>9, <2>1, <2>2 DEF DryRun
<1>10. CASE DryRunEnd
  BY <1>10 DEF DryRunEnd
<1>11. CASE Recover
  <2>1. options' \in [DOMAIN OptionDefault -> BOOLEAN]
    BY <1>11, SetInFacts DEF Recover
  <2>2. DOMAIN properties' = DOMAIN PropertyDefault
    BY <1>11 DEF Recover, SetIn
  <2>3. QED
    BY <1>11, <2>1, <2>2 DEF Recover
<1>12. CASE RemovePatch
  BY <1>12 DEF RemovePatch
<1>13. CASE RemoveFile
  BY <1>13 DEF RemoveFile, Removed
<1>14. CASE CleanUserdb
  BY <1>14 DEF CleanUserdb
<1>15. CASE RemoveUserdb
  BY <1>15 DEF RemoveUserdb
<1>16. CASE Finish
  BY <1>16 DEF Finish
<1>17. CASE Fail
  BY <1>17 DEF Fail
<1>18. CASE UNCHANGED vars
  BY <1>18 DEF vars, program
<1>19. QED
  BY <1>1, <1>2, <1>3, <1>4, <1>5, <1>6, <1>7, <1>8, <1>9, <1>10, <1>11, <1>12, <1>13,
     <1>14, <1>15, <1>16, <1>17, <1>18 DEF Next

\* Every step knows whether there is a session, and remembers a death.
LEMMA StepSession == TesterInv /\ [Next]_vars => SessionKnown' /\ DeathRemembered'
<1> SUFFICES ASSUME TesterInv, [Next]_vars PROVE SessionKnown' /\ DeathRemembered'
  OBVIOUS
<1> USE DEF TesterInv, Types, SessionKnown, DeathRemembered, LeftoverOnlyAfterDeath,
            CustomAtRest, Steps, Serving, Stopped, process, disk, saved, engine,
            InitSession, Finalize
<1>1. CASE Start
  BY <1>1 DEF Start
<1>2. CASE NextDeployment
  BY <1>2 DEF NextDeployment
<1>3. CASE DeployPatch
  BY <1>3 DEF DeployPatch
<1>4. CASE PatchLine
  BY <1>4 DEF PatchLine
<1>5. CASE Patched
  BY <1>5 DEF Patched
<1>6. CASE SetEnv
  BY <1>6 DEF SetEnv
<1>7. CASE Test
  BY <1>7 DEF Test, Send
<1>8. CASE TestsEnd
  BY <1>8 DEF TestsEnd
<1>9. CASE DryRun
  BY <1>9 DEF DryRun, Send
<1>10. CASE DryRunEnd
  BY <1>10 DEF DryRunEnd
<1>11. CASE Recover
  BY <1>11 DEF Recover
<1>12. CASE RemovePatch
  BY <1>12 DEF RemovePatch
<1>13. CASE RemoveFile
  BY <1>13 DEF RemoveFile
<1>14. CASE CleanUserdb
  BY <1>14 DEF CleanUserdb
<1>15. CASE RemoveUserdb
  BY <1>15 DEF RemoveUserdb
<1>16. CASE Finish
  BY <1>16 DEF Finish
<1>17. CASE Fail
  BY <1>17 DEF Fail
<1>18. CASE UNCHANGED vars
  BY <1>18 DEF vars, program
<1>19. QED
  BY <1>1, <1>2, <1>3, <1>4, <1>5, <1>6, <1>7, <1>8, <1>9,
     <1>10, <1>11, <1>12, <1>13, <1>14, <1>15, <1>16, <1>17, <1>18 DEF Next

\* Restricting the values held to those that change, and putting them back, leaves
\* every option that changed as it was.
LEMMA PutBack ==
  ASSUME NEW held, NEW now, NEW values,
         DOMAIN values \subseteq DOMAIN now,
         NEW o \in DOMAIN values
  PROVE  SetIn(OldOptions(values, held), now)[o] = held[o]
BY DEF SetIn, OldOptions, Restrict

\* Options are saved when tests begin, left alone while they run, and put back.
LEMMA StepOptions == TesterInv /\ [Next]_vars => OptionsSaved' /\ OptionsRecovered'
<1> SUFFICES ASSUME TesterInv, [Next]_vars PROVE OptionsSaved' /\ OptionsRecovered'
  OBVIOUS
<1> USE DEF TesterInv, OptionsSaved, OptionsRecovered, saved, Here
<1>1. CASE SetEnv
  BY <1>1 DEF SetEnv, OldOptions
<1>2. CASE Recover
  <2>1. opts = OldOptions(Here.options, before[1])
    BY <1>2 DEF Recover, OldOptions
  <2>2. DOMAIN Here.options \subseteq DOMAIN options
    BY DEF Types
  <2>3. \A o \in DOMAIN Here.options : options'[o] = before[1][o]
    BY <1>2, <2>1, <2>2, PutBack DEF Recover
  <2>4. QED
    BY <1>2, <2>3 DEF Recover
<1>3. CASE Test \/ TestsEnd \/ DryRun \/ DryRunEnd
  BY <1>3 DEF Test, TestsEnd, DryRun, DryRunEnd
<1>4. CASE Start \/ NextDeployment \/ DeployPatch \/ PatchLine \/ Patched
  BY <1>4 DEF Start, NextDeployment, DeployPatch, PatchLine, Patched
<1>5. CASE RemovePatch \/ RemoveFile \/ CleanUserdb \/ RemoveUserdb \/ Finish \/ Fail
  BY <1>5 DEF RemovePatch, RemoveFile, CleanUserdb, RemoveUserdb, Finish, Fail
<1>6. CASE UNCHANGED vars
  BY <1>6 DEF vars, program, engine
<1>7. QED
  BY <1>1, <1>2, <1>3, <1>4, <1>5, <1>6 DEF Next

\* While a patch is written the file holds exactly its lines so far and what was left;
\* when it is deployed, so does the workspace; and what is removed at the end is all of
\* it.
LEMMA StepPatch == TesterInv /\ [Next]_vars => CustomAtRest' /\ PatchWritten'
<1> SUFFICES ASSUME TesterInv, [Next]_vars PROVE CustomAtRest' /\ PatchWritten'
  OBVIOUS
<1> USE DEF TesterInv, CustomAtRest, PatchWritten, Between, Serving, Stopped,
            process, disk, engine, InitSession, Finalize
<1> HIDE DEF Here
<1>a. ASSUME UNCHANGED deployment PROVE Here' = Here /\ Own' = Own
  BY <1>a DEF Here, Own
<1>b. deployment \in Deployments /\ at \in Nat
  BY DEF Types
<1>c. pc \in Serving \union {"deploy", "unpatch", "clean"} => session
  BY DEF SessionKnown
<1>d. pc \in {"patch", "remove", "rmdir"} \union Stopped => ~session
  BY DEF SessionKnown
<1>1. CASE Start
  BY <1>1 DEF Start
<1>2. CASE NextDeployment
  BY <1>2 DEF NextDeployment
<1>3. CASE DeployPatch
  <2>1. Here' = Here /\ Own' = Own
    BY <1>3, <1>a DEF DeployPatch
  <2>2. CASE Here.patch = NoPatch
    BY <1>3, <1>c, <2>1, <2>2 DEF DeployPatch, Own
  <2>3. CASE Here.patch # NoPatch
    <3>1. Written' = {}
      BY <1>3, <1>b, <2>1, <2>3, PatchFacts DEF DeployPatch, Written
    <3>2. at' \in 1..(Len(Here.patch) + 1)
      BY <1>3, <1>b, <2>3, PatchFacts DEF DeployPatch
    <3>3. QED
      BY <1>3, <2>1, <2>3, <3>1, <3>2 DEF DeployPatch
  <2>4. QED
    BY <2>2, <2>3
<1>4. CASE PatchLine
  <2>1. Here' = Here /\ Own' = Own
    BY <1>4, <1>a DEF PatchLine
  <2>2. at \in DOMAIN Here.patch /\ at' = at + 1
    BY <1>4, <1>b, PatchFacts DEF PatchLine
  <2>3. Written' = Written \union {Here.patch[at]} /\ Here.patch[at] \in Own
    BY <1>b, <2>1, <2>2, PatchFacts, <1>4 DEF Written, PatchLine
  <2>4. at' \in 1..(Len(Here.patch) + 1)
    BY <1>4, <1>b, <2>2, PatchFacts DEF PatchLine
  <2>5. QED
    BY <1>4, <2>1, <2>3, <2>4 DEF PatchLine
<1>5. CASE Patched
  <2>1. Here' = Here /\ Own' = Own
    BY <1>5, <1>a DEF Patched
  <2>2. Written = Own
    BY <1>5, <1>b, PatchFacts DEF Patched, Written
  <2>3. QED
    BY <1>5, <2>1, <2>2 DEF Patched
<1>6. CASE SetEnv \/ TestsEnd \/ DryRunEnd \/ Recover
  <2>1. Here' = Here /\ Own' = Own
    BY <1>6, <1>a DEF SetEnv, TestsEnd, DryRunEnd, Recover
  <2>2. QED
    BY <1>6, <2>1 DEF SetEnv, TestsEnd, DryRunEnd, Recover
<1>7. CASE Test \/ DryRun
  <2>1. Here' = Here /\ Own' = Own
    BY <1>7, <1>a DEF Test, DryRun
  <2>2. QED
    BY <1>7, <2>1 DEF Test, DryRun, Send
<1>8. CASE RemovePatch
  BY <1>8 DEF RemovePatch, Own
<1>9. CASE RemoveFile
  BY <1>9 DEF RemoveFile, Removed
<1>10. CASE CleanUserdb
  BY <1>10 DEF CleanUserdb
<1>11. CASE RemoveUserdb
  BY <1>11, <1>d DEF RemoveUserdb
<1>12. CASE Finish
  BY <1>12 DEF Finish
<1>13. CASE Fail
  BY <1>13 DEF Fail
<1>14. CASE UNCHANGED vars
  <2>1. Here' = Here /\ Own' = Own /\ Written' = Written
    BY <1>14, <1>a DEF vars, program, Written
  <2>2. QED
    BY <1>14, <2>1 DEF vars, program
<1>15. QED
  BY <1>1, <1>2, <1>3, <1>4, <1>5, <1>6, <1>7, <1>8, <1>9, <1>10, <1>11, <1>12, <1>13,
     <1>14 DEF Next

\* The invariant holds at all times.
LEMMA TesterInvariant == Spec => []TesterInv
<1>1. TesterInv /\ [Next]_vars => TesterInv'
  BY StepTypes, StepSession, StepOptions, StepPatch DEF TesterInv
<1>2. QED
  BY InitTester, <1>1, PTL DEF Spec

-----------------------------------------------------------------------------
\* Every variable stays in its range, whatever is deployed and however often the tester
\* dies and is started again.
THEOREM TesterTyped == Spec => []TypeOK
<1>1. TesterInv => TypeOK
  BY DEF TesterInv, Types, SessionKnown, TypeOK, Range
<1>2. QED
  BY TesterInvariant, <1>1, PTL

\* The tester never asks for a test, an option or a property without a session of an
\* initialized engine.
THEOREM TesterAlive == Spec => []SessionAlive
<1>1. TesterInv => SessionAlive
  BY DEF TesterInv, SessionKnown, SessionAlive
<1>2. QED
  BY TesterInvariant, <1>1, PTL

\* A deployment's tests see its own patch and what an earlier tester left, never
\* another deployment's patch.
THEOREM TesterIsolates == Spec => []TestsSeeTheirPatch
<1>1. TesterInv => TestsSeeTheirPatch
  BY DEF TesterInv, PatchWritten, Between, Own, Serving, TestsSeeTheirPatch
<1>2. QED
  BY TesterInvariant, <1>1, PTL

\* Only a tester that died leaves a custom file behind.
THEOREM TesterCleans == Spec => []LeftoverOnlyAfterDeath
<1>1. TesterInv => LeftoverOnlyAfterDeath
  BY DEF TesterInv, DeathRemembered
<1>2. QED
  BY TesterInvariant, <1>1, PTL

\* The options that a deployment sets have their old values when its patch goes.
THEOREM TesterRecovers == Spec => []OptionsRecovered
<1>1. TesterInv => OptionsRecovered
  BY DEF TesterInv
<1>2. QED
  BY TesterInvariant, <1>1, PTL

\* The custom file and the user dictionary change on disk only while the engine does
\* not run; a dictionary only goes then.
THEOREM TesterOffline == Spec => DiskOffline
<1>1. TesterInv /\ [Next]_vars => [custom' # custom \/ (userdb /\ ~userdb') => ~running]_vars
  <2> SUFFICES ASSUME TesterInv, Next,
                      custom' # custom \/ (userdb /\ ~userdb')
               PROVE  ~running
    BY DEF vars, disk
  <2> USE DEF TesterInv, SessionKnown, disk
  <2>1. CASE Test \/ DryRun
    BY <2>1 DEF Test, DryRun, Send, Types
  <2>2. CASE PatchLine \/ RemoveFile \/ RemoveUserdb
    BY <2>2 DEF PatchLine, RemoveFile, RemoveUserdb
  <2>3. CASE Start \/ NextDeployment \/ DeployPatch \/ Patched \/ SetEnv \/ TestsEnd
    BY <2>3 DEF Start, NextDeployment, DeployPatch, Patched, SetEnv, TestsEnd
  <2>4. CASE DryRunEnd \/ Recover \/ RemovePatch \/ CleanUserdb \/ Finish \/ Fail
    BY <2>4 DEF DryRunEnd, Recover, RemovePatch, CleanUserdb, Finish, Fail
  <2>5. QED
    BY <2>1, <2>2, <2>3, <2>4 DEF Next
<1>2. QED
  BY TesterInvariant, <1>1, PTL DEF Spec, DiskOffline
=============================================================================
