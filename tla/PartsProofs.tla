----------------------------- MODULE PartsProofs ----------------------------
(***************************************************************************)
(* Theorems about ObsPanel, for any number of connections, about EnvSync,  *)
(* for any settings and any interruption of a run, and about the types of  *)
(* the parts that MCParts puts side by side.                               *)
(***************************************************************************)
EXTENDS MCParts, PlayerProofs, WatchCommentsProofs, FiniteSetTheorems, TLAPS

-----------------------------------------------------------------------------
(* OBS                                                                     *)

\* The calls whose panel is on the page.
Here == {k \in sends : k.here}

\* What was saved is the draft without its blanks.
SavedInv == saved => storage = {Trimmed(draft)}

\* A panel that says "applying" waits for one call, and no other panel waits.
OneSend == IF status = "applying" THEN \E k \in sends : Here = {k} ELSE Here = {}

ObsInv == ObsTypeOK /\ SavedInv /\ OneSend

LEMMA TrimmedType ==
  \A t \in ConnectionTexts : /\ Trimmed(t) \in ConnectionTexts
                             /\ Address(t) \in ConnectionTexts
                             /\ Address(Trimmed(t)) = Address(t)
BY DEF ConnectionTexts, Trimmed, Address

\* What is read back is what was stored, or the default.
LEMMA ReadType ==
  /\ \A t \in ConnectionTexts : Read({t}) = t
  /\ Read({}) = "default" /\ Read({"invalid"}) = "default"
<1>1. ASSUME NEW t \in ConnectionTexts PROVE Read({t}) = t
  <2>1. {t} \in {{u} : u \in ConnectionTexts}
    OBVIOUS
  <2>2. \A u \in ConnectionTexts : {t} = {u} <=> u = t
    OBVIOUS
  <2> QED
    BY <2>1, <2>2 DEF Read
<1>2. "invalid" \notin ConnectionTexts
  BY DEF ConnectionTexts
<1>3. {} \notin {{u} : u \in ConnectionTexts} /\ {"invalid"} \notin {{u} : u \in ConnectionTexts}
  BY <1>2
<1> QED
  BY <1>1, <1>3 DEF Read

LEMMA InitObs == ObsInit => ObsInv
<1> SUFFICES ASSUME ObsInit PROVE ObsInv
  OBVIOUS
<1>1. draft \in ConnectionTexts
  <2>1. storage \in {{}, {"invalid"}} \/ \E t \in ConnectionTexts : storage = {Trimmed(t)}
    BY DEF ObsInit
  <2>2. "default" \in ConnectionTexts
    BY DEF ConnectionTexts
  <2> QED
    BY <2>1, <2>2, ReadType, TrimmedType DEF ObsInit
<1>2. storage \in {{}, {"invalid"}} \cup {{t} : t \in ConnectionTexts}
  BY TrimmedType DEF ObsInit
<1>3. /\ saved = FALSE /\ shown = 0 /\ obs = 0 /\ status = "idle" /\ sends = {}
      /\ 0 \in 0 .. MaxTokens
  BY ObsPanelAssumption DEF ObsInit
<1>4. ObsTypeOK
  BY <1>1, <1>2, <1>3 DEF ObsTypeOK
<1> QED
  BY <1>3, <1>4 DEF ObsInv, SavedInv, OneSend, Here

\* A call goes on: it stays where it was made.
LEMMA SendAdvances ==
  ASSUME ObsInv, NEW k \in sends, NEW j \in Sends, j.here = k.here, Advances(k, j),
         status' = status
  PROVE  sends' \subseteq Sends /\ OneSend'
<1>1. sends' = (sends \ {k}) \cup {j}
  BY DEF Advances
<1>2. sends' \subseteq Sends
  BY <1>1 DEF ObsInv, ObsTypeOK
<1>3. CASE status = "applying"
  <2>1. PICK h \in sends : Here = {h}
    BY <1>3 DEF ObsInv, OneSend
  <2>2. \A g \in sends : g.here <=> g = h
    BY <2>1 DEF Here, ObsInv, ObsTypeOK, Sends
  <2>3. CASE k = h
    <3>1. \A g \in sends' : g.here <=> g = j
      BY <1>1, <2>2, <2>3
    <3>2. Here' = {j} /\ j \in sends'
      BY <1>1, <3>1 DEF Here
    <3> QED
      BY <1>2, <1>3, <3>2 DEF OneSend
  <2>4. CASE k # h
    <3>1. \A g \in sends' : g.here <=> g = h
      BY <1>1, <2>2, <2>4
    <3>2. Here' = {h} /\ h \in sends'
      BY <1>1, <2>4, <3>1 DEF Here
    <3> QED
      BY <1>2, <1>3, <3>2 DEF OneSend
  <2> QED
    BY <2>3, <2>4
<1>4. CASE status # "applying"
  <2>1. \A g \in sends : ~ g.here
    BY <1>4 DEF ObsInv, OneSend, Here
  <2>2. Here' = {}
    BY <1>1, <2>1 DEF Here
  <2> QED
    BY <1>2, <1>4, <2>2 DEF OneSend
<1> QED
  BY <1>2, <1>3, <1>4

\* A call ends, and its panel, if it is there, says how.
LEMMA SendEnds ==
  ASSUME ObsInv, NEW k \in sends, NEW ok \in BOOLEAN, sends' = sends \ {k}, Tells(k, ok)
  PROVE  /\ sends' \subseteq Sends /\ OneSend'
         /\ status' \in {"idle", "applying", "applied", "failed"}
<1>1. sends' \subseteq Sends /\ k.here \in BOOLEAN
  BY DEF ObsInv, ObsTypeOK, Sends
<1>2. CASE k.here
  <2>1. k \in Here
    BY <1>2 DEF Here
  <2>2. Here = {k}
    BY <2>1 DEF ObsInv, OneSend
  <2>3. Here' = {}
    BY <2>2 DEF Here
  <2>4. status' \in {"applied", "failed"}
    BY <1>2 DEF Tells
  <2> QED
    BY <1>1, <2>3, <2>4 DEF OneSend
<1>3. CASE ~ k.here
  <2>1. status' = status
    BY <1>3 DEF Tells
  <2>2. Here' = Here
    BY <1>3 DEF Here
  <2>3. \A h \in sends : Here = {h} => h \in sends'
    BY <1>3 DEF Here
  <2> QED
    BY <1>1, <2>1, <2>2, <2>3 DEF OneSend, ObsInv, ObsTypeOK
<1> QED
  BY <1>1, <1>2, <1>3

LEMMA NextObs ==
  ASSUME ObsInv, [ObsNext]_obsVars
  PROVE  ObsInv'
<1> USE ObsPanelAssumption DEF ObsInv, connectionSettings, apply
<1>1. CASE \/ \E text \in ConnectionTexts : EditConnection(text)
           \/ SavedNoticeEnds
  <2>1. /\ draft' \in ConnectionTexts /\ saved' = FALSE /\ storage' = storage
        /\ UNCHANGED <<shown, status, sends, obs>>
    BY <1>1 DEF EditConnection, SavedNoticeEnds, ObsTypeOK
  <2> QED
    BY <2>1 DEF ObsTypeOK, SavedInv, OneSend, Here
<1>2. CASE SaveConnection
  <2>1. /\ storage' = {Trimmed(draft)} /\ saved' = TRUE /\ draft' = draft
        /\ UNCHANGED <<shown, status, sends, obs>>
    BY <1>2 DEF SaveConnection
  <2>2. storage' \in {{t} : t \in ConnectionTexts}
    BY <2>1, TrimmedType DEF ObsTypeOK
  <2> QED
    BY <2>1, <2>2 DEF ObsTypeOK, SavedInv, OneSend, Here
<1>3. CASE Reload
  <2>1. /\ draft' = Read(storage) /\ saved' = FALSE /\ shown' = 0 /\ status' = "idle"
        /\ sends' = {} /\ storage' = storage /\ obs' = obs
    BY <1>3 DEF Reload
  <2>2. draft' \in ConnectionTexts
    <3>1. "default" \in ConnectionTexts
      BY DEF ConnectionTexts
    <3> QED
      BY <2>1, <3>1, ReadType DEF ObsTypeOK
  <2>3. ObsTypeOK'
    <3>1. 0 \in 0 .. MaxTokens
      OBVIOUS
    <3> QED
      BY <2>1, <2>2, <3>1 DEF ObsTypeOK
  <2> QED
    BY <2>1, <2>3 DEF SavedInv, OneSend, Here
<1>4. CASE TokenShown
  BY <1>4 DEF TokenShown, ObsTypeOK, SavedInv, OneSend, Here
<1>5. CASE PanelRemounts
  <2>1. /\ status' = "idle" /\ sends' = {[k EXCEPT !.here = FALSE] : k \in sends}
        /\ UNCHANGED <<draft, storage, saved, shown, obs>>
    BY <1>5 DEF PanelRemounts
  <2>2. \A k \in Sends : [k EXCEPT !.here = FALSE] \in Sends
                         /\ [k EXCEPT !.here = FALSE].here = FALSE
    BY DEF Sends
  <2>3. sends' \subseteq Sends /\ \A k \in sends' : k.here = FALSE
    BY <2>1, <2>2 DEF ObsTypeOK
  <2> QED
    BY <2>1, <2>3 DEF ObsTypeOK, SavedInv, OneSend, Here
<1>6. CASE Apply
  <2>1. CASE shown = 0
    BY <1>6, <2>1 DEF Apply, ObsTypeOK, SavedInv, OneSend, Here
  <2>2. CASE shown # 0
    <3> DEFINE k == [here |-> TRUE, token |-> shown, address |-> Address(draft),
                     at |-> "connect", ok |-> FALSE]
    <3>1. /\ status # "applying" /\ status' = "applying" /\ sends' = sends \cup {k}
          /\ UNCHANGED <<draft, storage, saved, shown, obs>>
      BY <1>6, <2>2 DEF Apply
    <3>2. k \in Sends /\ k.here = TRUE
      BY <2>2, TrimmedType DEF Sends, ObsTypeOK
    <3> HIDE DEF k
    <3>3. Here' = {k}
      BY <3>1, <3>2 DEF OneSend, Here
    <3> QED
      BY <3>1, <3>2, <3>3 DEF ObsTypeOK, SavedInv, OneSend
  <2> QED
    BY <2>1, <2>2
<1>7. CASE AppliedNoticeEnds
  BY <1>7 DEF AppliedNoticeEnds, ObsTypeOK, SavedInv, OneSend, Here
<1>8. ASSUME NEW k \in sends, Connects(k) PROVE ObsInv'
  <2>1. [k EXCEPT !.at = "call"] \in Sends /\ [k EXCEPT !.at = "call"].here = k.here
    BY DEF ObsTypeOK, Sends
  <2>2. /\ Advances(k, [k EXCEPT !.at = "call"])
        /\ UNCHANGED <<draft, storage, saved, shown, status, obs>>
    BY <1>8 DEF Connects
  <2>3. sends' \subseteq Sends /\ OneSend'
    BY <2>1, <2>2, SendAdvances
  <2> QED
    BY <2>2, <2>3 DEF ObsTypeOK, SavedInv
<1>9. ASSUME NEW k \in sends, ConnectFails(k) \/ Disconnects(k) PROVE ObsInv'
  <2>1. k.ok \in BOOLEAN
    BY DEF ObsTypeOK, Sends
  <2>2. /\ sends' = sends \ {k} /\ \E ok \in BOOLEAN : Tells(k, ok)
        /\ UNCHANGED <<draft, storage, saved, shown, obs>>
    BY <1>9, <2>1 DEF ConnectFails, Disconnects
  <2>3. /\ sends' \subseteq Sends /\ OneSend'
        /\ status' \in {"idle", "applying", "applied", "failed"}
    BY <2>2, SendEnds
  <2> QED
    BY <2>2, <2>3 DEF ObsTypeOK, SavedInv
<1>10. ASSUME NEW k \in sends, NEW done \in BOOLEAN, NEW ok \in BOOLEAN, Calls(k, done, ok)
       PROVE  ObsInv'
  <2> DEFINE j == [k EXCEPT !.at = "disconnect", !.ok = ok]
  <2>1. j \in Sends /\ j.here = k.here
    BY DEF ObsTypeOK, Sends
  <2>4. k.token \in 0 .. MaxTokens
    <3>1. k.token \in 1 .. MaxTokens
      BY DEF ObsTypeOK, Sends
    <3> QED
      BY <3>1
  <2>2. /\ Advances(k, j) /\ obs' \in {k.token, obs}
        /\ UNCHANGED <<draft, storage, saved, shown, status>>
    BY <1>10 DEF Calls
  <2> HIDE DEF j
  <2>3. sends' \subseteq Sends /\ OneSend'
    BY <2>1, <2>2, SendAdvances
  <2> QED
    BY <2>2, <2>3, <2>4 DEF ObsTypeOK, SavedInv
<1>11. CASE UNCHANGED obsVars
  BY <1>11 DEF obsVars, ObsTypeOK, SavedInv, OneSend, Here
<1> QED
  BY <1>1, <1>2, <1>3, <1>4, <1>5, <1>6, <1>7, <1>8, <1>9, <1>10, <1>11, Zenon DEF ObsNext

\* What the page says of the settings and of OBS is true, for any number of tokens,
\* panels and calls: settings that are saved lead to the same address when they are
\* read back, and a panel that is applying waits for one call of its own.
THEOREM NoticesTrue == ObsSpec => []NoticesAreTrue
<1>1. ObsInv => NoticesAreTrue
  <2> SUFFICES ASSUME ObsInv PROVE NoticesAreTrue
    OBVIOUS
  <2>1. saved => Address(Read(storage)) = Address(draft)
    BY TrimmedType, ReadType DEF ObsInv, ObsTypeOK, SavedInv
  <2>2. Cardinality({}) = 0 /\ \A k : Cardinality({k}) = 1
    BY FS_EmptySet, FS_Singleton
  <2>3. Cardinality(Here) = IF status = "applying" THEN 1 ELSE 0
    BY <2>2 DEF ObsInv, OneSend
  <2> QED
    BY <2>1, <2>3 DEF Here, NoticesAreTrue
<1> QED
  BY <1>1, InitObs, NextObs, PTL DEF ObsSpec

\* The type of the panel and of its calls.
THEOREM ObsTypeCorrect == ObsSpec => []ObsTypeOK
<1>1. ObsInv => ObsTypeOK
  BY DEF ObsInv
<1> QED
  BY <1>1, InitObs, NextObs, PTL DEF ObsSpec

-----------------------------------------------------------------------------
(* The settings script                                                     *)

\* The file of a path is the one that mode makes of env.
MadeFrom(mode, path, env) == file[path] = Content(mode, path, env)

\* All files of a synced mode are made from the same settings; of the mode being
\* synced, those written so far are made from what the run has read; and no mode is
\* synced while a run touches one of its files.
FilesInv ==
    /\ file = [p \in Paths |-> file[p]]
    /\ synced \subseteq Modes
    /\ \A m \in synced : \E env : \A p \in ToSet(Files(m)) : MadeFrom(m, p, env)
    /\ run # NoRun =>
          /\ run.mode \in Modes /\ run.next \in Nat \ {0}
          /\ run = [mode |-> run.mode, env |-> run.env, next |-> run.next]
          /\ \A i \in 1 .. Len(Files(run.mode)) :
                i < run.next => MadeFrom(run.mode, Files(run.mode)[i], run.env)
          /\ synced \cap Sharing(run.mode) = {}

\* No file of a mode is written twice by one run.
LEMMA FilesDistinct ==
  ASSUME NEW m \in Modes
  PROVE  /\ Len(Files(m)) \in Nat
         /\ \A i, j \in 1 .. Len(Files(m)) : Files(m)[i] = Files(m)[j] => i = j
         /\ ToSet(Files(m)) = {Files(m)[i] : i \in 1 .. Len(Files(m))}
<1>1. CASE m = "local"
  BY <1>1 DEF Files, ToSet
<1>2. CASE m = "docker"
  BY <1>2 DEF Files, ToSet
<1>3. CASE m = "production"
  BY <1>3 DEF Files, ToSet
<1> QED
  BY <1>1, <1>2, <1>3 DEF Modes

LEMMA PathsOfModes ==
  ASSUME NEW m \in Modes, NEW i \in 1 .. Len(Files(m))
  PROVE  Files(m)[i] \in Paths /\ Files(m)[i] \in ToSet(Files(m))
BY FilesDistinct DEF Paths

\* Files made from one set of settings agree.
LEMMA MadeAgree ==
  ASSUME NEW m \in Modes, NEW env, NEW p, NEW q, MadeFrom(m, p, env), MadeFrom(m, q, env),
         NEW k \in Uses(m, p) \cap Uses(m, q)
  PROVE  /\ file[p].mode = m
         /\ \/ file[p].settings[k] = file[q].settings[k]
            \/ "mangled" \in {file[p].settings[k], file[q].settings[k]}
<1>1. ASSUME NEW s, MadeFrom(m, s, env), k \in Uses(m, s)
      PROVE  file[s].mode = m /\ file[s].settings[k] \in {env[k], Replaced(env[k])}
  BY <1>1 DEF MadeFrom, Content
<1>2. Replaced(env[k]) \in {env[k], "mangled"}
  BY DEF Replaced
<1> QED
  BY <1>1, <1>2

LEMMA InitFiles == EnvInit => FilesInv
BY DEF EnvInit, FilesInv

\* A run writes no file of a synced mode: it took the modes that share one off when it
\* started.  A mode is synced anew when the last of its files was written.
LEMMA NextFiles ==
  ASSUME FilesInv, [EnvNext]_envVars
  PROVE  FilesInv'
<1> USE DEF FilesInv
<1> DEFINE Made(m) == \E env : \A p \in ToSet(Files(m)) : MadeFrom(m, p, env)
<1>1. ASSUME NEW m \in Modes, Start(m) PROVE FilesInv'
  <2>1. /\ run' = [mode |-> m, env |-> source[m], next |-> 1] /\ file' = file
        /\ synced' = synced \ Sharing(m)
    BY <1>1 DEF Start
  <2>2. \A n \in synced' : Made(n)'
    BY <2>1 DEF MadeFrom
  <2> QED
    BY <2>1, <2>2
<1>2. ASSUME NEW m \in Modes, NEW k, NEW t, Edit(m, k, t) PROVE FilesInv'
  BY <1>2 DEF Edit, MadeFrom
\* The file that the run is at is none of a synced mode.
<1>a. ASSUME More
      PROVE  /\ run # NoRun /\ run.mode \in Modes /\ run.next \in 1 .. Len(Files(run.mode))
             /\ Path \in Paths /\ \A m \in synced : Path \notin ToSet(Files(m))
  <2>1. run # NoRun /\ run.mode \in Modes /\ run.next \in 1 .. Len(Files(run.mode))
    BY <1>a, FilesDistinct DEF More
  <2>2. Path \in Paths /\ Path \in ToSet(Files(run.mode))
    BY <2>1, PathsOfModes DEF Path
  <2> QED
    BY <2>1, <2>2 DEF Sharing
\* Writing it, in whatever way, leaves the synced modes as they are.
<1>b. ASSUME More, NEW f, file' = [file EXCEPT ![Path] = f] \/ file' = file, synced' = synced
      PROVE  /\ \A m \in synced' : Made(m)'
             /\ file' = [p \in Paths |-> file'[p]]
  <2>1. \A p \in Paths : p # Path => file'[p] = file[p]
    BY <1>b
  <2>2. ASSUME NEW m \in synced, NEW p \in ToSet(Files(m)) PROVE file'[p] = file[p]
    <3>1. p \in Paths
      BY DEF Paths
    <3> QED
      BY <1>a, <1>b, <2>1, <3>1
  <2>3. ASSUME NEW m \in synced PROVE Made(m)'
    <3>1. PICK env : \A p \in ToSet(Files(m)) : MadeFrom(m, p, env)
      OBVIOUS
    <3>2. \A p \in ToSet(Files(m)) : file'[p] = Content(m, p, env)
      BY <2>2, <3>1 DEF MadeFrom
    <3> QED
      BY <3>2 DEF MadeFrom
  <2>4. file' = [p \in Paths |-> file'[p]]
    BY <1>b
  <2> QED
    BY <1>b, <2>3, <2>4
<1>3. CASE Write
  <2>1. /\ More /\ file' = [file EXCEPT ![Path] = Content(run.mode, Path, run.env)]
        /\ run' = [run EXCEPT !.next = @ + 1] /\ synced' = synced
    BY <1>3 DEF Write
  <2>2. /\ run'.mode = run.mode /\ run'.env = run.env /\ run'.next = run.next + 1
        /\ run' = [mode |-> run'.mode, env |-> run'.env, next |-> run'.next]
    BY <1>a, <2>1
  <2>3. ASSUME NEW i \in 1 .. Len(Files(run.mode)), i < run.next + 1
        PROVE  file'[Files(run.mode)[i]] = Content(run.mode, Files(run.mode)[i], run.env)
    <3>1. CASE i = run.next
      BY <1>a, <2>1, <3>1 DEF Path
    <3>2. CASE i # run.next
      <4>1. i < run.next /\ Files(run.mode)[i] # Path /\ Files(run.mode)[i] \in Paths
        BY <1>a, <2>1, <2>3, <3>2, FilesDistinct, PathsOfModes DEF Path
      <4>2. MadeFrom(run.mode, Files(run.mode)[i], run.env)
        BY <1>a, <2>1, <4>1
      <4> QED
        BY <2>1, <4>1, <4>2 DEF MadeFrom
    <3> QED
      BY <3>1, <3>2
  <2>4. \A i \in 1 .. Len(Files(run'.mode)) :
           i < run'.next =>
              file'[Files(run'.mode)[i]] = Content(run'.mode, Files(run'.mode)[i], run'.env)
    BY <2>2, <2>3
  <2>5. synced' \cap Sharing(run'.mode) = {}
    BY <1>a, <2>1, <2>2
  <2> QED
    <3>1. (\A i \in 1 .. Len(Files(run.mode)) :
              i < run.next => MadeFrom(run.mode, Files(run.mode)[i], run.env))'
      BY <2>4 DEF MadeFrom
    <3>2. run'.mode \in Modes /\ run'.next \in Nat \ {0} /\ synced' \subseteq Modes
      BY <1>a, <2>1, <2>2
    <3>3. file' = [p \in Paths |-> file'[p]] /\ \A m \in synced' : Made(m)'
      BY <1>b, <2>1
    <3> QED
      BY <2>2, <2>5, <3>1, <3>2, <3>3
<1>4. CASE Throw
  <2>1. /\ More /\ run' = NoRun /\ synced' = synced
        /\ file' = [file EXCEPT ![Path] = NoFile] \/ file' = file
    BY <1>4 DEF Throw
  <2> QED
    BY <1>b, <2>1
<1>5. CASE FinishRun
  <2>1. /\ run # NoRun /\ ~ More /\ run' = NoRun /\ file' = file
        /\ synced' = synced \cup {run.mode}
    BY <1>5 DEF FinishRun
  <2>2. run.next > Len(Files(run.mode)) /\ Len(Files(run.mode)) \in Nat
    BY <2>1, FilesDistinct DEF More
  <2>3. \A p \in ToSet(Files(run.mode)) : MadeFrom(run.mode, p, run.env)
    BY <2>1, <2>2, FilesDistinct
  <2>4. \A m \in synced' : Made(m)'
    BY <2>1, <2>3 DEF MadeFrom
  <2> QED
    BY <2>1, <2>4
<1>6. CASE UNCHANGED envVars
  BY <1>6 DEF envVars, MadeFrom
<1> QED
  BY <1>1, <1>2, <1>3, <1>4, <1>5, <1>6 DEF EnvNext

\* The files of a mode that was synced and not touched since agree on every setting
\* they share, whatever runs, failures and edits came before.
THEOREM FilesAlwaysAgree == EnvSpec => []FilesAgree
<1>1. FilesInv => FilesAgree
  <2> SUFFICES ASSUME FilesInv, NEW m \in synced, NEW p \in ToSet(Files(m)),
                      NEW q \in ToSet(Files(m))
               PROVE  /\ file[p].mode = m
                      /\ \A k \in Uses(m, p) \cap Uses(m, q) :
                            \/ file[p].settings[k] = file[q].settings[k]
                            \/ "mangled" \in {file[p].settings[k], file[q].settings[k]}
    BY DEF FilesAgree
  <2>1. PICK env : \A s \in ToSet(Files(m)) : MadeFrom(m, s, env)
    BY DEF FilesInv
  <2>2. m \in Modes
    BY DEF FilesInv
  <2>3. file[p].mode = m
    <3>1. file[p] = Content(m, p, env)
      BY <2>1 DEF MadeFrom
    <3> QED
      BY <3>1 DEF Content
  <2> QED
    BY <2>1, <2>2, <2>3, MadeAgree
<1> QED
  BY <1>1, InitFiles, NextFiles, PTL DEF EnvSpec

\* What a run has read are settings, and it is at one of its files or past the last.
RunInv ==
    run # NoRun =>
        /\ run.env \in [Keys -> Values \cup {Missing}]
        /\ run.next \in 1 .. Len(Files(run.mode)) + 1

EnvInv == FilesInv /\ EnvTypeOK /\ RunInv

LEMMA FilesCount == \A m \in Modes : Len(Files(m)) \in 1 .. 6
BY DEF Modes, Files

\* Files are made from settings, whatever String.replace makes of them.
LEMMA ContentType ==
  ASSUME NEW m \in Modes, NEW path \in Paths, NEW env \in [Keys -> Values \cup {Missing}]
  PROVE  /\ Content(m, path, env).mode = m
         /\ \A k \in DOMAIN Content(m, path, env).settings :
               Content(m, path, env).settings[k] \in Texts
<1>1. path \in {"backend/.env", "frontend/.env", "frontend/.env.production", "deploy/caddy.env",
                "deploy/backend.env", "deploy/Server.xml", "deploy/cloudflared.env",
                "terraform.tfvars"}
  BY FilesDistinct DEF Paths, Modes, Files
<1>2. Uses(m, path) \subseteq Keys
  BY <1>1 DEF Uses, Keys
<1>3. \A k \in Uses(m, path) : env[k] \in Texts /\ Replaced(env[k]) \in Texts
  BY <1>2 DEF Replaced, Texts, Values, Missing
<1> QED
  BY <1>3 DEF Content

LEMMA NextEnv == EnvInv /\ [EnvNext]_envVars => EnvInv'
<1> SUFFICES ASSUME EnvInv, [EnvNext]_envVars PROVE EnvInv'
  OBVIOUS
<1> DEFINE FileOK(f) == /\ f.mode \in Modes \cup {"none"}
                        /\ \A k \in DOMAIN f.settings : f.settings[k] \in Texts
<1>f. FilesInv /\ FilesInv'
  BY NextFiles DEF EnvInv
<1>n. /\ NoRun.mode = "none" /\ NoRun.next = 0 /\ FileOK(NoFile)
  BY DEF NoRun, NoFile
<1>1. ASSUME NEW m \in Modes, Start(m) PROVE EnvInv'
  <2>1. run' = [mode |-> m, env |-> source[m], next |-> 1]
    BY <1>1 DEF Start
  <2>2. run'.mode = m /\ run'.env = source[m] /\ run'.next = 1
    BY <2>1
  <2>3. RunInv'
    BY <2>2, FilesCount DEF RunInv, EnvInv, EnvTypeOK
  <2>4. EnvTypeOK'
    BY <1>1, <2>2, EnvSyncAssumption DEF Start, EnvInv, EnvTypeOK
  <2> QED
    BY <1>f, <2>3, <2>4 DEF EnvInv
<1>2. ASSUME NEW m \in Modes, NEW k \in Keys, NEW t \in Values \cup {Missing}, Edit(m, k, t)
      PROVE  EnvInv'
  <2>1. source' \in [Modes -> [Keys -> Values \cup {Missing}]]
    BY <1>2 DEF Edit, EnvInv, EnvTypeOK
  <2>2. edits' \in 0 .. MaxEdits
    BY <1>2, EnvSyncAssumption DEF Edit, EnvInv, EnvTypeOK
  <2> QED
    BY <1>2, <1>f, <2>1, <2>2 DEF Edit, EnvInv, EnvTypeOK, RunInv
<1>a. ASSUME More PROVE /\ run # NoRun /\ run.mode \in Modes /\ Path \in Paths
                        /\ run.next \in 1 .. Len(Files(run.mode))
                        /\ run.env \in [Keys -> Values \cup {Missing}]
  <2>1. run # NoRun /\ run.mode \in Modes /\ run.next <= Len(Files(run.mode))
    BY <1>a, <1>f DEF More, FilesInv
  <2>2. /\ run.next \in 1 .. Len(Files(run.mode))
        /\ run.env \in [Keys -> Values \cup {Missing}]
    BY <2>1, FilesCount DEF EnvInv, RunInv
  <2> QED
    BY <2>1, <2>2, PathsOfModes DEF Path
\* A file that is written, or not to its end.
<1>b. ASSUME More, NEW f, FileOK(f), file' = [file EXCEPT ![Path] = f] \/ file' = file
      PROVE  \A p \in Paths : FileOK(file'[p])
  <2>1. file = [p \in Paths |-> file[p]] /\ \A p \in Paths : FileOK(file[p])
    BY <1>f DEF FilesInv, EnvInv, EnvTypeOK
  <2> HIDE DEF FileOK
  <2> QED
    BY <1>b, <2>1
<1>3. CASE Write
  <2>1. /\ More /\ file' = [file EXCEPT ![Path] = Content(run.mode, Path, run.env)]
        /\ run' = [run EXCEPT !.next = @ + 1] /\ UNCHANGED <<source, edits, runs, synced>>
    BY <1>3 DEF Write
  <2>2. FileOK(Content(run.mode, Path, run.env))
    BY <1>a, <2>1, ContentType
  <2>3. \A p \in Paths : FileOK(file'[p])
    <3> HIDE DEF FileOK
    <3> QED
      BY <1>b, <2>1, <2>2
  <2>4. run'.mode = run.mode /\ run'.env = run.env /\ run'.next = run.next + 1
    BY <1>a, <1>f, <2>1 DEF FilesInv
  <2>5. Len(Files(run.mode)) \in 1 .. 6
    BY <1>a, <2>1, FilesCount
  <2>6. RunInv' /\ run'.mode \in Modes /\ run'.next \in 0 .. 7
    <3>1. run'.mode \in Modes /\ Len(Files(run'.mode)) = Len(Files(run.mode))
      BY <1>a, <2>1, <2>4
    <3>2. run'.next \in 1 .. Len(Files(run'.mode)) + 1 /\ run'.next \in 0 .. 7
      <4>1. PICK n \in 1 .. 6 : n = Len(Files(run.mode))
        BY <2>5
      <4>2. PICK next \in 1 .. n : next = run.next
        BY <1>a, <2>1, <4>1
      <4>3. next + 1 \in 1 .. n + 1 /\ next + 1 \in 0 .. 7
        OBVIOUS
      <4> QED
        BY <2>4, <3>1, <4>1, <4>2, <4>3
    <3>3. run'.env \in [Keys -> Values \cup {Missing}]
      BY <1>a, <2>1, <2>4
    <3> QED
      BY <3>1, <3>2, <3>3 DEF RunInv
  <2> QED
    BY <1>f, <2>1, <2>3, <2>6 DEF EnvInv, EnvTypeOK
<1>4. CASE Throw
  <2>1. /\ More /\ run' = NoRun /\ UNCHANGED <<source, edits, runs, synced>>
        /\ file' = [file EXCEPT ![Path] = NoFile] \/ file' = file
    BY <1>4 DEF Throw
  <2>2. \A p \in Paths : FileOK(file'[p])
    <3> HIDE DEF FileOK
    <3> QED
      BY <1>b, <1>n, <2>1
  <2> QED
    BY <1>f, <1>n, <2>1, <2>2 DEF EnvInv, EnvTypeOK, RunInv
<1>5. CASE FinishRun
  <2>1. /\ run # NoRun /\ run' = NoRun /\ synced' = synced \cup {run.mode}
        /\ UNCHANGED <<source, edits, runs, file>>
    BY <1>5 DEF FinishRun
  <2>2. run.mode \in Modes
    BY <1>f, <2>1 DEF FilesInv
  <2> QED
    BY <1>f, <1>n, <2>1, <2>2 DEF EnvInv, EnvTypeOK, RunInv
<1>6. CASE UNCHANGED envVars
  BY <1>6, <1>f DEF envVars, EnvInv, EnvTypeOK, RunInv
<1> QED
  BY <1>1, <1>2, <1>3, <1>4, <1>5, <1>6 DEF EnvNext

\* Settings, files and the run keep their types: no file holds anything but settings.
THEOREM EnvTypeCorrect == EnvSpec => []EnvTypeOK
<1>1. EnvInit => EnvInv
  BY InitFiles, EnvSyncAssumption
     DEF EnvInit, EnvInv, EnvTypeOK, RunInv, NoRun, NoFile, Values
<1>2. EnvInv => EnvTypeOK
  BY DEF EnvInv
<1> QED
  BY <1>1, <1>2, NextEnv, PTL DEF EnvSpec
-----------------------------------------------------------------------------
(* The parts side by side                                                  *)

APart == part \in {"lanes", "player", "activity", "sound", "chrome", "obs", "env"}

\* Every part starts as its own specification says.
LEMMA PartsStart ==
  PartsInit => /\ LanesInit /\ Init /\ ActivityInit /\ SoundInit
               /\ ChromeInit /\ ObsInit /\ EnvInit
BY DEF PartsInit

\* Every step is a step of each part or leaves it alone.
LEMMA PartsStep ==
  [PartsNext]_<<part, watchVars, otherVars>> =>
     /\ [LanesNext]_laneVars
     /\ [Next]_vars
     /\ [ActivityNext]_activityVars
     /\ [SoundNext]_soundVars
     /\ [ChromeNext]_chromeVars
     /\ [ObsNext]_obsVars
     /\ [EnvNext]_envVars
<1> SUFFICES ASSUME [PartsNext]_<<part, watchVars, otherVars>>
             PROVE  /\ [LanesNext]_laneVars
                    /\ [Next]_vars
                    /\ [ActivityNext]_activityVars
                    /\ [SoundNext]_soundVars
                    /\ [ChromeNext]_chromeVars
                    /\ [ObsNext]_obsVars
                    /\ [EnvNext]_envVars
  OBVIOUS
<1>1. CASE UNCHANGED <<part, watchVars, otherVars>>
  BY <1>1 DEF watchVars, otherVars
<1>2. CASE /\ LanesNext
           /\ UNCHANGED <<vars, activityVars, soundVars, chromeVars, obsVars, envVars>>
  BY <1>2
<1>3. CASE /\ Next
           /\ UNCHANGED <<laneVars, activityVars, soundVars, chromeVars, obsVars, envVars>>
  BY <1>3
<1>4. CASE /\ ActivityNext
           /\ UNCHANGED <<laneVars, vars, soundVars, chromeVars,
                         obsVars, envVars>>
  BY <1>4
<1>5. CASE /\ SoundNext
           /\ UNCHANGED <<laneVars, vars, activityVars, chromeVars,
                         obsVars, envVars>>
  BY <1>5
<1>6. CASE /\ ChromeNext
           /\ UNCHANGED <<laneVars, vars, activityVars, soundVars,
                         obsVars, envVars>>
  BY <1>6
<1>7. CASE /\ ObsNext
           /\ UNCHANGED <<laneVars, vars, activityVars, soundVars,
                         chromeVars, envVars>>
  BY <1>7
<1>8. CASE /\ EnvNext
           /\ UNCHANGED <<laneVars, vars, activityVars, soundVars,
                         chromeVars, obsVars>>
  BY <1>8
<1> QED
  BY <1>1, <1>2, <1>3, <1>4, <1>5, <1>6, <1>7, <1>8 DEF PartsNext, watchVars, otherVars

\* Every part keeps its types in the run that starts them all and moves one.
THEOREM PartsTypeCorrect == PartsSpec => []PartsTypeOK
<1>1. PartsSpec => /\ LanesSpec /\ Spec /\ ActivitySpec /\ SoundSpec
                   /\ ChromeSpec /\ ObsSpec /\ EnvSpec
  BY PartsStart, PartsStep, PTL
     DEF PartsSpec, LanesSpec, Spec, ActivitySpec, SoundSpec, ChromeSpec, ObsSpec, EnvSpec
<1>2. PartsSpec => []APart
  <2>1. PartsInit => APart
    BY DEF PartsInit, APart
  <2>2. APart /\ [PartsNext]_<<part, watchVars, otherVars>> => APart'
    BY DEF PartsNext, APart
  <2> QED
    BY <2>1, <2>2, PTL DEF PartsSpec
<1>3. APart /\ LanesTypeOK /\ TypeOK /\ ActivityTypeOK /\ SoundTypeOK
            /\ ChromeTypeOK /\ ObsTypeOK /\ EnvTypeOK => PartsTypeOK
  BY DEF APart, PartsTypeOK
<1> QED
  BY <1>1, <1>2, <1>3, LanesTypeCorrect, TypeCorrect, ActivityTypeCorrect, SoundTypeCorrect,
     ChromeTypeCorrect, ObsTypeCorrect, EnvTypeCorrect, PTL
=============================================================================
