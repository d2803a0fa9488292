------------------------------- MODULE MCParts ------------------------------
(***************************************************************************)
(* Parts of the frontend that share no state, and the settings script,     *)
(* side by side for one safety run.  Init chooses the part that a          *)
(* behaviour is about; the others stay as they start, so that the state    *)
(* spaces add up and do not multiply.                                      *)
(***************************************************************************)
EXTENDS CommentLanes, StreamPlayer, PlayerSound, PlayerChrome, RoomActivity, ObsPanel,
        EnvSync, TLC

VARIABLES part

PartsInit ==
    /\ part \in {"lanes", "player", "activity", "sound", "chrome", "obs", "env"}
    /\ LanesInit /\ Init /\ SoundInit /\ ChromeInit
    /\ ActivityInit /\ ObsInit /\ EnvInit
    /\ part # "lanes" => viewport = "mobile"
    /\ part # "activity" => stored = 0
    /\ part # "chrome" => platform = "element" /\ ~ playing /\ ~ playable
    /\ part # "obs" => storage = {}

watchVars == <<laneVars, vars, activityVars, soundVars, chromeVars>>
otherVars == <<obsVars, envVars>>

PartsNext ==
    /\ \/ /\ part = "lanes" /\ LanesNext
          /\ UNCHANGED <<vars, activityVars, soundVars, chromeVars, otherVars>>
       \/ /\ part = "player" /\ Next
          /\ UNCHANGED <<laneVars, activityVars, soundVars, chromeVars, otherVars>>
       \/ /\ part = "activity" /\ ActivityNext
          /\ UNCHANGED <<laneVars, vars, soundVars, chromeVars, otherVars>>
       \/ /\ part = "sound" /\ SoundNext
          /\ UNCHANGED <<laneVars, vars, activityVars, chromeVars, otherVars>>
       \/ /\ part = "chrome" /\ ChromeNext
          /\ UNCHANGED <<laneVars, vars, activityVars, soundVars, otherVars>>
       \/ part = "obs" /\ ObsNext /\ UNCHANGED <<watchVars, envVars>>
       \/ part = "env" /\ EnvNext /\ UNCHANGED <<watchVars, obsVars>>
    /\ UNCHANGED part

PartsSpec == PartsInit /\ [][PartsNext]_<<part, watchVars, otherVars>>

\* Attempts are as good as each other.
PartsSymmetry == Permutations(Attempts)

\* The constants that a configuration cannot write down.
MCLaneCounts == [horizontal |-> [small |-> 2, large |-> 2], vertical |-> [small |-> 2, large |-> 1]]
MCLimits == [mobile |-> 1, pc |-> 3]

-----------------------------------------------------------------------------
\* The type invariant of the part.
PartsTypeOK ==
    CASE part = "lanes" -> LanesTypeOK
      [] part = "player" -> TypeOK
      [] part = "activity" -> ActivityTypeOK
      [] part = "sound" -> SoundTypeOK
      [] part = "chrome" -> ChromeTypeOK
      [] part = "obs" -> ObsTypeOK
      [] part = "env" -> EnvTypeOK
=============================================================================
