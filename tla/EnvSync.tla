------------------------------- MODULE EnvSync ------------------------------
(***************************************************************************)
(* scripts/env-sync.mjs: one file of settings per mode is turned into the  *)
(* configuration files of the frontend, the backend, Caddy, the media      *)
(* server, cloudflared and Terraform, one after the other.                 *)
(*                                                                         *)
(* The modes share files.  A run stops where a setting that is required is *)
(* missing or a file cannot be written, and leaves what it has written.    *)
(* What a file says of a setting is the setting it was made from; texts    *)
(* around it, defaults and fixed lines are left out.                       *)
(***************************************************************************)
EXTENDS Naturals, Sequences, SequencesExt

CONSTANTS
    MaxEdits,       \* bound: settings the operator edits
    MaxRuns         \* bound: runs of the script

ASSUME EnvSyncAssumption == MaxEdits \in Nat /\ MaxRuns \in Nat

Modes == {"local", "production", "docker"}

\* "cloudflare" stands for the ids of account, zone and policy, "optional" for the
\* settings that have a default.
Keys == {"domain", "secret", "token", "session", "team", "ipv4", "cloudflare", "optional"}

\* "dollar" is a text with a replacement pattern of String.replace in it ("$$").
Missing == "missing"
Values == {"plain", "other", "dollar"}
Texts == Values \cup {Missing, "mangled"}

VARIABLES
    source,         \* .env.local, .env.production, .env.docker
    edits,          \* number of edits so far
    runs,           \* number of runs so far
    run,            \* the run: its mode, what it has read, the next of its files
    file,           \* the files, by path
    synced          \* modes whose last message was "synced", and no run touched their files since

envVars == <<source, edits, runs, run, file, synced>>

\* The files of a mode, in the order of writeEnv, writeText and writeTerraformVars.
Files(mode) ==
    CASE mode = "local" -> <<"backend/.env", "frontend/.env">>
      [] mode = "docker" -> <<"frontend/.env", "deploy/backend.env", "deploy/caddy.env",
                              "deploy/Server.xml">>
      [] mode = "production" -> <<"frontend/.env.production", "deploy/backend.env",
                                  "deploy/caddy.env", "deploy/Server.xml",
                                  "deploy/cloudflared.env", "terraform.tfvars">>

Paths == UNION {ToSet(Files(m)) : m \in Modes}

\* The settings a file is made from.
Uses(mode, path) ==
    CASE path = "backend/.env" -> {"secret", "token", "session", "optional"}
      [] path = "frontend/.env" -> IF mode = "docker" THEN {"domain"} ELSE {}
      [] path \in {"frontend/.env.production", "deploy/caddy.env"} -> {"domain"}
      [] path = "deploy/backend.env" -> {"domain", "secret", "token"} \cup
            (IF mode = "docker" THEN {"session"} ELSE {"team", "optional"})
      [] path = "deploy/Server.xml" -> {"domain", "secret", "token", "ipv4"}
      [] path = "deploy/cloudflared.env" -> {"optional"}
      [] path = "terraform.tfvars" -> {"domain", "ipv4", "cloudflare", "team", "optional"}

\* required: what throws before the i-th file of a mode is written.
Required(mode, i) ==
    CASE i = 1 /\ mode = "docker" -> {"domain", "secret", "session", "token"}
      [] i = 1 /\ mode = "production" -> {"domain", "team", "secret", "token"}
      [] Files(mode)[i] = "deploy/Server.xml" -> {"ipv4"}
      [] Files(mode)[i] = "terraform.tfvars" -> {"ipv4", "cloudflare"}
      [] OTHER -> {}

\* productionOvenMediaEngineConfig: the replacement is a pattern.
Replaced(text) == IF text = "dollar" THEN "mangled" ELSE text

Content(mode, path, env) ==
    [mode |-> mode,
     settings |-> [k \in Uses(mode, path) |->
                     IF path = "deploy/Server.xml" THEN Replaced(env[k]) ELSE env[k]]]

\* A file that is not there, or was not written to its end.
NoFile == [mode |-> "none", settings |-> [k \in {} |-> Missing]]
NoRun == [mode |-> "none", env |-> [k \in {} |-> Missing], next |-> 0]

EnvInit ==
    /\ source = [m \in Modes |-> [k \in Keys |-> "plain"]]
    /\ edits = 0 /\ runs = 0
    /\ run = NoRun
    /\ file = [p \in Paths |-> NoFile]
    /\ synced = {}

-----------------------------------------------------------------------------
\* The operator edits the settings of a mode, during a run as well.
Edit(mode, key, text) ==
    /\ edits < MaxEdits /\ source[mode][key] # text
    /\ edits' = edits + 1
    /\ source' = [source EXCEPT ![mode][key] = text]
    /\ UNCHANGED <<runs, run, file, synced>>

Sharing(mode) == {m \in Modes : ToSet(Files(m)) \cap ToSet(Files(mode)) # {}}

\* The script starts and reads the settings.
Start(mode) ==
    /\ run = NoRun /\ runs < MaxRuns
    /\ runs' = runs + 1
    /\ run' = [mode |-> mode, env |-> source[mode], next |-> 1]
    /\ synced' = synced \ Sharing(mode)
    /\ UNCHANGED <<source, edits, file>>

Path == Files(run.mode)[run.next]
Lacks == {k \in Required(run.mode, run.next) : run.env[k] = Missing} # {}
More == run # NoRun /\ run.next <= Len(Files(run.mode))

\* Mutant: a file whose settings are missing is left out.
WriteOrSkip ==
    /\ More
    /\ file' = IF Lacks THEN file ELSE [file EXCEPT ![Path] = Content(run.mode, Path, run.env)]
    /\ run' = [run EXCEPT !.next = @ + 1]
    /\ UNCHANGED <<source, edits, runs, synced>>

Write ==
    /\ More /\ ~ Lacks
    /\ file' = [file EXCEPT ![Path] = Content(run.mode, Path, run.env)]
    /\ run' = [run EXCEPT !.next = @ + 1]
    /\ UNCHANGED <<source, edits, runs, synced>>

\* A setting is missing, or the file cannot be written or not to its end.
Throw ==
    /\ More
    /\ IF Lacks THEN UNCHANGED file
       ELSE file' \in {file, [file EXCEPT ![Path] = NoFile]}
    /\ run' = NoRun
    /\ UNCHANGED <<source, edits, runs, synced>>

\* The script says that the files are synced, and ends.
FinishRun ==
    /\ run # NoRun /\ ~ More
    /\ run' = NoRun
    /\ synced' = synced \cup {run.mode}
    /\ UNCHANGED <<source, edits, runs, file>>

EnvNext ==
    \/ \E m \in Modes :
          \/ Start(m)
          \/ \E k \in Keys, t \in Values \cup {Missing} : Edit(m, k, t)
    \/ Write \/ Throw \/ FinishRun

EnvSpec == EnvInit /\ [][EnvNext]_envVars

-----------------------------------------------------------------------------
(* Properties *)

EnvTypeOK ==
    /\ source \in [Modes -> [Keys -> Values \cup {Missing}]]
    /\ edits \in 0 .. MaxEdits /\ runs \in 0 .. MaxRuns
    /\ run.mode \in Modes \cup {"none"} /\ run.next \in 0 .. 7
    /\ \A p \in Paths : /\ file[p].mode \in Modes \cup {"none"}
                        /\ \A k \in DOMAIN file[p].settings : file[p].settings[k] \in Texts
    /\ synced \subseteq Modes

\* The backend and the media server, the proxies and the frontend that go by one mode
\* say the same of every setting they share, whatever runs of the other modes, failed
\* runs and edits came before, unless String.replace took the setting for a pattern.
FilesAgree ==
    \A m \in synced : \A p, q \in ToSet(Files(m)) :
        /\ file[p].mode = m
        /\ \A k \in Uses(m, p) \cap Uses(m, q) :
              \/ file[p].settings[k] = file[q].settings[k]
              \/ "mangled" \in {file[p].settings[k], file[q].settings[k]}
=============================================================================
