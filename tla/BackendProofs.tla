---------------------------- MODULE BackendProofs ---------------------------
(***************************************************************************)
(* Theorems about RoomAccess and Profiles, for any number of concurrent    *)
(* requests: a token the owner knew to be void opens nothing that is asked *)
(* for later, and a comment carries a name its user had while it was made; *)
(* and about AdminRooms, for any number of calls under way.                *)
(***************************************************************************)
EXTENDS MCBackend, RoomDirectoryProofs, FiniteSetTheorems, SequenceTheorems, TLAPS

-----------------------------------------------------------------------------
(* Passwords, bypass tokens and ingest tokens                              *)

At == {"idle", "sent", "cleared", "stored", "answered", "granted", "refused", "failed"}

RequestType(n, known, gone) ==
    [op : Ops \cup {"none"}, at : At, token : 0 .. n, before : SUBSET known, wasVoid : SUBSET gone]

\* The current token of a kind is the newest of that kind, if there is one.
NewestInv ==
    /\ bypass # NoToken => issued[bypass] = "bypass"
    /\ issued[ingest] = "ingest"
    /\ \A t \in 1 .. Len(issued) :
          /\ issued[t] = "bypass" /\ bypass # NoToken => t <= bypass
          /\ issued[t] = "ingest" => t <= ingest

\* A token that is stored and not yet told is newer than those the owner had been given.
StoredInv ==
    \A r \in Handlers :
        handler[r].at = "stored" =>
            /\ handler[r].token \in 1 .. Len(issued)
            /\ issued[handler[r].token] = handler[r].op
            /\ \A t \in handler[r].before : t < handler[r].token

\* No void token is current.
VoidInv == bypass \notin void /\ ingest \notin void

AccessInv == AccessTypeOK /\ NewestInv /\ StoredInv /\ VoidInv /\ VoidStaysVoid

-----------------------------------------------------------------------------
(* Lemmas about the requests *)

LEMMA RequestGrows ==
  ASSUME NEW n \in Nat, NEW m \in Nat, n <= m, NEW known, NEW more, known \subseteq more,
         NEW gone, NEW away, gone \subseteq away, NEW h \in [Handlers -> RequestType(n, known, gone)]
  PROVE  h \in [Handlers -> RequestType(m, more, away)]
<1>1. 0 .. n \subseteq 0 .. m
  OBVIOUS
<1>2. ASSUME NEW q \in RequestType(n, known, gone)
      PROVE  q \in RequestType(m, more, away)
  BY <1>1, <1>2 DEF RequestType
<1> QED
  BY <1>2

LEMMA TypeUnfolds ==
  AccessTypeOK <=> /\ password \in {{}} \cup {{p} : p \in Passwords}
                   /\ bypass \in 0 .. Len(issued) /\ ingest \in 1 .. Len(issued)
                   /\ issued \in Seq({"bypass", "ingest"}) /\ Len(issued) <= MaxIssued
                   /\ told \in SUBSET (1 .. Len(issued)) /\ void \in SUBSET told
                   /\ handler \in [Handlers -> RequestType(Len(issued), told, void)]
<1>1. RequestType(Len(issued), told, void) =
        [op : Ops \cup {"none"}, token : 0 .. Len(issued), before : SUBSET told,
         wasVoid : SUBSET void, at : At]
  BY DEF RequestType
<1> QED
  BY <1>1 DEF AccessTypeOK, At

LEMMA TypeUnfoldsNext ==
  ASSUME password' \in {{}} \cup {{p} : p \in Passwords},
         bypass' \in 0 .. Len(issued'), ingest' \in 1 .. Len(issued'),
         issued' \in Seq({"bypass", "ingest"}), Len(issued') <= MaxIssued,
         told' \in SUBSET (1 .. Len(issued')), void' \in SUBSET told',
         handler' \in [Handlers -> RequestType(Len(issued'), told', void')]
  PROVE  AccessTypeOK'
<1>1. RequestType(Len(issued'), told', void') =
        [op : Ops \cup {"none"}, token : 0 .. Len(issued'), before : SUBSET told',
         wasVoid : SUBSET void', at : At]
  BY DEF RequestType
<1> QED
  BY <1>1 DEF AccessTypeOK, At

\* A request that goes on keeps its type, and what it was when it began.
LEMMA GoesType ==
  ASSUME NEW r \in Handlers, NEW n \in Nat, NEW known, NEW gone,
         handler \in [Handlers -> RequestType(n, known, gone)],
         NEW at \in At, NEW given \in 0 .. n, Goes(r, at, given)
  PROVE  /\ handler' \in [Handlers -> RequestType(n, known, gone)]
         /\ handler'[r] = [handler[r] EXCEPT !.at = at, !.token = given]
         /\ handler'[r].op = handler[r].op
         /\ handler'[r].at = at
         /\ handler'[r].token = given
         /\ handler'[r].before = handler[r].before
         /\ handler'[r].wasVoid = handler[r].wasVoid
         /\ \A s \in Handlers \ {r} : handler'[s] = handler[s]
<1>1. handler' = [handler EXCEPT ![r] = [handler[r] EXCEPT !.at = at, !.token = given]]
  BY DEF Goes
<1>2. handler[r] \in RequestType(n, known, gone)
  OBVIOUS
<1>3. [handler[r] EXCEPT !.at = at, !.token = given] \in RequestType(n, known, gone)
  BY <1>2 DEF RequestType
<1> QED
  BY <1>1, <1>2, <1>3 DEF RequestType

LEMMA IssuedGrows ==
  ASSUME issued \in Seq({"bypass", "ingest"}), NEW kind \in {"bypass", "ingest"},
         issued' = Append(issued, kind)
  PROVE  /\ issued' \in Seq({"bypass", "ingest"})
         /\ Len(issued) \in Nat /\ Len(issued') = Len(issued) + 1
         /\ issued'[Len(issued) + 1] = kind
         /\ \A t \in 1 .. Len(issued) : issued'[t] = issued[t]
OBVIOUS

-----------------------------------------------------------------------------
(* Type correctness *)

LEMMA InitAccessType == AccessInit => AccessTypeOK
<1> USE RoomAccessAssumption
<1> SUFFICES ASSUME AccessInit
             PROVE  AccessTypeOK
  OBVIOUS
<1>1. issued \in Seq({"bypass", "ingest"}) /\ Len(issued) = 1
  BY DEF AccessInit
<1>2. NoRequest \in RequestType(1, told, void)
  BY DEF NoRequest, RequestType, At, NoToken
<1>3. handler \in [Handlers -> RequestType(1, told, void)]
  BY <1>2 DEF AccessInit
<1>4. bypass \in 0 .. 1 /\ ingest \in 1 .. 1 /\ told \in SUBSET (1 .. 1) /\ void \in SUBSET told
  BY DEF AccessInit, NoToken
<1>5. password \in {{}}
  BY DEF AccessInit
<1> QED
  BY <1>1, <1>3, <1>4, <1>5, TypeUnfolds

\* An action that leaves issued, told and void alone.
LEMMA SameTokensType ==
  ASSUME AccessTypeOK, UNCHANGED tokens,
         password' \in {{}} \cup {{p} : p \in Passwords},
         bypass' \in 0 .. Len(issued), ingest' = ingest,
         handler' \in [Handlers -> RequestType(Len(issued), told, void)]
  PROVE  AccessTypeOK'
BY TypeUnfolds DEF AccessTypeOK, tokens, RequestType, At

\* An action that makes no token and voids some.
LEMMA VoidsType ==
  ASSUME AccessTypeOK, UNCHANGED <<password, ingest, issued>>, bypass' \in 0 .. Len(issued),
         told \subseteq told', told' \subseteq 1 .. Len(issued),
         void \subseteq void', void' \subseteq told',
         handler' \in [Handlers -> RequestType(Len(issued), told, void)]
  PROVE  AccessTypeOK'
<1>1. Len(issued) \in Nat /\ Len(issued) <= Len(issued)
  BY TypeUnfolds
<1>2. handler' \in [Handlers -> RequestType(Len(issued), told', void')]
  <2> DEFINE n == Len(issued)
             h == handler'
             more == told'
             away == void'
  <2>1. /\ n \in Nat /\ n <= n /\ told \subseteq more /\ void \subseteq away
        /\ h \in [Handlers -> RequestType(n, told, void)]
    BY <1>1
  <2> HIDE DEF n, h, more, away
  <2>2. h \in [Handlers -> RequestType(n, more, away)]
    BY <2>1, RequestGrows
  <2> QED
    BY <2>2 DEF n, h, more, away
<1>3. /\ UNCHANGED <<password, ingest, issued>> /\ bypass' \in 0 .. Len(issued)
      /\ told' \in SUBSET (1 .. Len(issued)) /\ void' \in SUBSET told'
  OBVIOUS
<1>4. /\ password \in {{}} \cup {{p} : p \in Passwords} /\ ingest \in 1 .. Len(issued)
      /\ issued \in Seq({"bypass", "ingest"}) /\ Len(issued) <= MaxIssued
  BY DEF AccessTypeOK
<1> QED
  BY <1>2, <1>3, <1>4, TypeUnfoldsNext

LEMMA BeginType ==
  ASSUME AccessTypeOK, NEW r \in Handlers, NEW op \in Ops, BeginRequest(r, op)
  PROVE  AccessTypeOK'
<1> DEFINE begun == [op |-> op, at |-> "sent", token |-> NoToken, before |-> told, wasVoid |-> void]
<1>1. Len(issued) \in Nat /\ handler \in [Handlers -> RequestType(Len(issued), told, void)]
  BY TypeUnfolds
<1>2. begun \in RequestType(Len(issued), told, void)
  BY <1>1 DEF RequestType, At, NoToken
<1>3. handler' \in [Handlers -> RequestType(Len(issued), told, void)]
  BY <1>1, <1>2 DEF BeginRequest
<1> QED
  BY <1>3, SameTokensType DEF BeginRequest, row, AccessTypeOK

LEMMA EndsType ==
  ASSUME AccessTypeOK, NEW r \in Handlers, Ends(r)
  PROVE  AccessTypeOK'
<1>1. Len(issued) \in Nat /\ handler \in [Handlers -> RequestType(Len(issued), told, void)]
  BY TypeUnfolds
<1>2. NoRequest \in RequestType(Len(issued), told, void)
  BY <1>1 DEF NoRequest, RequestType, At, NoToken
<1>3. handler' \in [Handlers -> RequestType(Len(issued), told, void)]
  BY <1>1, <1>2 DEF Ends
<1> QED
  BY <1>3, SameTokensType DEF Ends, row, AccessTypeOK

LEMMA VoidedType ==
  ASSUME AccessTypeOK, NEW r \in Handlers, NEW kind
  PROVE  void \subseteq Voided(r, kind) /\ Voided(r, kind) \subseteq told
<1>1. handler[r] \in RequestType(Len(issued), told, void)
  BY TypeUnfolds
<1> QED
  BY <1>1 DEF Voided, RequestType, AccessTypeOK

LEMMA NextAccessType ==
  AccessTypeOK /\ StoredInv /\ [AccessNext]_accessVars => AccessTypeOK'
<1> USE RoomAccessAssumption
<1> SUFFICES ASSUME AccessTypeOK, StoredInv, [AccessNext]_accessVars
             PROVE  AccessTypeOK'
  OBVIOUS
<1>n. /\ Len(issued) \in Nat /\ 0 \in 0 .. Len(issued)
      /\ handler \in [Handlers -> RequestType(Len(issued), told, void)]
      /\ \A r \in Handlers : handler[r] \in RequestType(Len(issued), told, void)
  BY TypeUnfolds
<1>1. ASSUME NEW r \in Handlers, NEW op \in Ops, BeginRequest(r, op)
      PROVE  AccessTypeOK'
  BY <1>1, BeginType
<1>2. ASSUME NEW r \in Handlers, NEW p \in Passwords, SetRoomPassword(r, p)
      PROVE  AccessTypeOK'
  <2>1. handler' \in [Handlers -> RequestType(Len(issued), told, void)]
    BY <1>2, <1>n, GoesType DEF SetRoomPassword, At, NoToken
  <2> QED
    BY <1>2, <2>1, SameTokensType DEF SetRoomPassword, AccessTypeOK
<1>3. ASSUME NEW r \in Handlers, DeletePassword(r)
      PROVE  AccessTypeOK'
  <2>1. handler' \in [Handlers -> RequestType(Len(issued), told, void)]
    BY <1>3, <1>n, GoesType DEF DeletePassword, At, NoToken
  <2> QED
    BY <1>3, <2>1, SameTokensType DEF DeletePassword, AccessTypeOK
<1>4. ASSUME NEW r \in Handlers, DeleteBypassToken(r)
      PROVE  AccessTypeOK'
  <2>1. handler' \in [Handlers -> RequestType(Len(issued), told, void)]
    BY <1>4, <1>n, GoesType DEF DeleteBypassToken, At, NoToken
  <2>2. void \subseteq void' /\ void' \subseteq told /\ told' = told
    BY <1>4, VoidedType DEF DeleteBypassToken
  <2>3. bypass' \in 0 .. Len(issued) /\ told \subseteq 1 .. Len(issued)
    BY <1>4, <1>n DEF DeleteBypassToken, NoToken, AccessTypeOK
  <2> QED
    BY <1>4, <2>1, <2>2, <2>3, VoidsType DEF DeleteBypassToken
<1>5. ASSUME NEW r \in Handlers, NEW kind \in {"bypass", "ingest"}, Rotate(r, kind)
      PROVE  AccessTypeOK'
  <2> DEFINE n == Len(issued)
  <2>0. issued \in Seq({"bypass", "ingest"}) /\ issued' = Append(issued, kind) /\ n < MaxIssued
    BY <1>5 DEF Rotate, AccessTypeOK
  <2>1. /\ issued' \in Seq({"bypass", "ingest"}) /\ Len(issued') = n + 1 /\ n \in Nat
        /\ n + 1 <= MaxIssued
    BY <2>0
  <2>2. /\ n <= n + 1 /\ n + 1 \in Nat /\ n + 1 \in 0 .. n + 1
        /\ told \subseteq told /\ void \subseteq void
    BY <2>1
  <2>3. handler' \in [Handlers -> RequestType(n + 1, told, void)]
    <3>1. Goes(r, "stored", n + 1) /\ "stored" \in At
      BY <1>5 DEF Rotate, At
    <3> HIDE DEF n
    <3>2. handler \in [Handlers -> RequestType(n + 1, told, void)]
      BY <1>n, <2>1, <2>2, RequestGrows DEF n
    <3> QED
      BY <2>2, <3>1, <3>2, GoesType
  <2>4. UNCHANGED <<password, told, void>>
        /\ bypass' \in {n + 1, bypass} /\ ingest' \in {n + 1, ingest}
    BY <1>5 DEF Rotate
  <2>5. bypass \in 0 .. n /\ ingest \in 1 .. n /\ told \in SUBSET (1 .. n) /\ void \in SUBSET told
        /\ password \in {{}} \cup {{p} : p \in Passwords}
    BY DEF AccessTypeOK
  <2> HIDE DEF n
  <2>6. bypass' \in 0 .. n + 1 /\ ingest' \in 1 .. n + 1 /\ told' \in SUBSET (1 .. n + 1)
    BY <2>1, <2>4, <2>5
  <2>7. Len(issued') <= MaxIssued
    BY <2>1
  <2>8. handler' \in [Handlers -> RequestType(Len(issued'), told', void')]
    BY <2>1, <2>3, <2>4
  <2> QED
    BY <2>1, <2>4, <2>5, <2>6, <2>7, <2>8, TypeUnfoldsNext
<1>6. ASSUME NEW r \in Handlers, Tell(r)
      PROVE  AccessTypeOK'
  <2>1. handler' \in [Handlers -> RequestType(Len(issued), told, void)]
    BY <1>6, <1>n, GoesType DEF Tell, At, NoToken
  <2>2. handler[r].token \in 1 .. Len(issued)
    BY <1>6 DEF Tell, StoredInv
  <2>3. told \subseteq told' /\ told' \subseteq 1 .. Len(issued)
    BY <1>6, <2>2 DEF Tell, AccessTypeOK
  <2>4. void \subseteq void' /\ void' \subseteq told'
    BY <1>6, <2>3, VoidedType DEF Tell
  <2> QED
    BY <1>6, <2>1, <2>3, <2>4, VoidsType DEF Tell, row, AccessTypeOK
<1>7. ASSUME NEW r \in Handlers, NEW t \in Tokens \cup {NoToken}, NEW knows \in BOOLEAN,
             CreateStreamAccess(r, t, knows)
      PROVE  AccessTypeOK'
  <2>1. NoToken \in 0 .. Len(issued) /\ (t = bypass => t \in 0 .. Len(issued))
    BY <1>n DEF NoToken, AccessTypeOK
  <2>2. \/ Goes(r, "granted", NoToken)
        \/ Goes(r, "granted", t) /\ t = bypass
        \/ Goes(r, "refused", NoToken)
    BY <1>7 DEF CreateStreamAccess
  <2>3. handler' \in [Handlers -> RequestType(Len(issued), told, void)]
    BY <1>n, <2>1, <2>2, GoesType DEF At
  <2> QED
    BY <1>7, <2>3, SameTokensType DEF CreateStreamAccess, row, AccessTypeOK
<1>8. ASSUME NEW r \in Handlers, NEW t \in Tokens, WhipProxy(r, t)
      PROVE  AccessTypeOK'
  <2>1. NoToken \in 0 .. Len(issued) /\ (t = ingest => t \in 0 .. Len(issued))
    BY <1>n DEF NoToken, AccessTypeOK
  <2>2. (Goes(r, "granted", t) /\ t = ingest) \/ Goes(r, "refused", NoToken)
    BY <1>8 DEF WhipProxy
  <2>3. handler' \in [Handlers -> RequestType(Len(issued), told, void)]
    BY <1>n, <2>1, <2>2, GoesType DEF At
  <2> QED
    BY <1>8, <2>3, SameTokensType DEF WhipProxy, row, AccessTypeOK
<1>9. ASSUME NEW r \in Handlers, Fails(r)
      PROVE  AccessTypeOK'
  <2>1. handler' \in [Handlers -> RequestType(Len(issued), told, void)]
    BY <1>9, <1>n, GoesType DEF Fails, At, NoToken
  <2> QED
    BY <1>9, <2>1, SameTokensType DEF Fails, row, AccessTypeOK
<1>10. ASSUME NEW r \in Handlers, Ends(r)
       PROVE  AccessTypeOK'
  BY <1>10, EndsType
<1>11. CASE UNCHANGED accessVars
  BY <1>11 DEF accessVars, row, tokens, AccessTypeOK
<1> QED
  BY <1>1, <1>2, <1>3, <1>4, <1>5, <1>6, <1>7, <1>8, <1>9, <1>10, <1>11 DEF AccessNext

-----------------------------------------------------------------------------
(* Void tokens *)

\* An action that leaves issued alone, takes no current token but NoToken for bypass, and
\* lets one request go on to a step that is not "stored".
LEMMA NoNewToken ==
  ASSUME AccessTypeOK, NewestInv, StoredInv, UNCHANGED <<issued, ingest>>,
         bypass' = bypass \/ bypass' = NoToken,
         NEW r \in Handlers, handler'[r].at # "stored",
         \A s \in Handlers \ {r} : handler'[s] = handler[s]
  PROVE  NewestInv' /\ StoredInv'
<1>1. NewestInv'
  BY DEF NewestInv
<1>2. StoredInv'
  BY DEF StoredInv
<1> QED
  BY <1>1, <1>2

\* Such an action that leaves void alone as well.
LEMMA SameVoid ==
  ASSUME AccessTypeOK, AccessInv, UNCHANGED <<issued, ingest, void>>,
         bypass' = bypass \/ bypass' = NoToken,
         NEW r \in Handlers, handler'[r].at # "stored",
         handler'[r].at = "granted" => handler'[r].token \notin handler'[r].wasVoid,
         \A s \in Handlers \ {r} : handler'[s] = handler[s]
  PROVE  NewestInv' /\ StoredInv' /\ VoidInv' /\ VoidStaysVoid'
<1>1. NewestInv' /\ StoredInv'
  BY NoNewToken DEF AccessInv
<1>2. NoToken \notin void
  BY DEF NoToken, AccessTypeOK
<1>3. VoidInv'
  BY <1>2 DEF VoidInv, AccessInv
<1>4. VoidStaysVoid'
  BY DEF VoidStaysVoid, AccessInv
<1> QED
  BY <1>1, <1>3, <1>4

\* The earlier tokens of a kind are not current once the request r has made a token of
\* that kind, or removed it.
LEMMA VoidedNotCurrent ==
  ASSUME AccessInv, NEW r \in Handlers, NEW kind \in {"bypass", "ingest"},
         \/ kind = "bypass" /\ bypass' = NoToken
         \/ handler[r].at = "stored" /\ handler[r].op = kind /\ UNCHANGED bypass,
         UNCHANGED ingest
  PROVE  bypass' \notin Voided(r, kind) /\ ingest' \notin Voided(r, kind)
<1> DEFINE early == {t \in handler[r].before : issued[t] = kind}
<1>1. /\ AccessTypeOK /\ NewestInv /\ VoidInv
      /\ handler[r].at = "stored" =>
            /\ handler[r].token \in 1 .. Len(issued) /\ issued[handler[r].token] = handler[r].op
            /\ \A t \in handler[r].before : t < handler[r].token
  BY DEF AccessInv, StoredInv
<1>2. NoToken \notin void /\ handler[r].before \subseteq told /\ told \subseteq 1 .. Len(issued)
      /\ bypass \in 0 .. Len(issued) /\ ingest \in 1 .. Len(issued) /\ Len(issued) \in Nat
  BY <1>1, TypeUnfolds DEF RequestType, NoToken, AccessTypeOK
<1>3. bypass' \notin void /\ ingest' \notin void
  BY <1>1, <1>2 DEF VoidInv
<1>4. CASE kind = "bypass" /\ bypass' = NoToken
  <2>1. NoToken \notin early
    BY <1>2 DEF NoToken
  <2>2. ingest \notin early
    BY <1>1, <1>4 DEF NewestInv
  <2> QED
    BY <1>3, <1>4, <2>1, <2>2 DEF Voided
<1>5. CASE handler[r].at = "stored" /\ handler[r].op = kind /\ UNCHANGED bypass
  <2>1. /\ handler[r].token \in 1 .. Len(issued) /\ issued[handler[r].token] = kind
        /\ \A t \in early : t < handler[r].token
    BY <1>1, <1>5
  <2>2. bypass \notin early
    <3> SUFFICES ASSUME bypass \in early
                 PROVE  FALSE
      OBVIOUS
    <3>1. bypass < handler[r].token /\ bypass # NoToken /\ issued[bypass] = kind
      BY <1>2, <2>1 DEF NoToken
    <3>2. kind = "bypass"
      BY <1>1, <3>1 DEF NewestInv
    <3>3. handler[r].token <= bypass
      BY <1>1, <2>1, <3>1, <3>2 DEF NewestInv
    <3> QED
      BY <1>2, <2>1, <3>1, <3>3
  <2>3. ingest \notin early
    <3> SUFFICES ASSUME ingest \in early
                 PROVE  FALSE
      OBVIOUS
    <3>1. ingest < handler[r].token /\ issued[ingest] = kind
      BY <2>1
    <3>2. kind = "ingest"
      BY <1>1, <3>1 DEF NewestInv
    <3>3. handler[r].token <= ingest
      BY <1>1, <2>1, <3>2 DEF NewestInv
    <3> QED
      BY <1>2, <2>1, <3>1, <3>3
  <2> QED
    BY <1>3, <1>5, <2>2, <2>3 DEF Voided
<1> QED
  BY <1>4, <1>5

LEMMA RotateStep ==
  ASSUME AccessInv, NEW r \in Handlers, NEW kind \in {"bypass", "ingest"}, Rotate(r, kind)
  PROVE  NewestInv' /\ StoredInv' /\ VoidInv' /\ VoidStaysVoid'
<1> DEFINE n == Len(issued)
<1>0. AccessTypeOK /\ NewestInv /\ StoredInv /\ VoidInv /\ VoidStaysVoid
  BY DEF AccessInv
<1>1. issued \in Seq({"bypass", "ingest"}) /\ issued' = Append(issued, kind)
  BY <1>0 DEF Rotate, AccessTypeOK
<1>2. /\ n \in Nat /\ Len(issued') = n + 1 /\ issued'[n + 1] = kind
      /\ \A t \in 1 .. n : issued'[t] = issued[t]
  BY <1>1
<1>3. /\ bypass' = IF kind = "bypass" THEN n + 1 ELSE bypass
      /\ ingest' = IF kind = "ingest" THEN n + 1 ELSE ingest
      /\ void' = void /\ Sent(r, kind) /\ Goes(r, "stored", n + 1)
  BY DEF Rotate
<1>4. bypass \in 0 .. n /\ ingest \in 1 .. n /\ told \subseteq 1 .. n /\ void \subseteq told
  BY <1>0 DEF AccessTypeOK
<1>5. handler[r] \in RequestType(n, told, void) /\ handler \in [Handlers -> RequestType(n, told, void)]
  BY <1>0, TypeUnfolds
<1>6. /\ handler'[r].op = kind /\ handler'[r].at = "stored" /\ handler'[r].token = n + 1
      /\ handler'[r].before = handler[r].before /\ handler[r].before \subseteq told
      /\ \A s \in Handlers \ {r} : handler'[s] = handler[s]
  <2>1. handler' = [handler EXCEPT ![r] = [handler[r] EXCEPT !.at = "stored", !.token = n + 1]]
    BY <1>3 DEF Goes
  <2>2. handler[r].op = kind
    BY <1>3 DEF Sent
  <2> HIDE DEF n
  <2> QED
    BY <1>5, <2>1, <2>2 DEF RequestType
<1> HIDE DEF n
<1>7. NewestInv'
  <2>1. bypass' # NoToken => issued'[bypass'] = "bypass"
    BY <1>0, <1>2, <1>3, <1>4 DEF NewestInv, NoToken
  <2>2. issued'[ingest'] = "ingest"
    BY <1>0, <1>2, <1>3, <1>4 DEF NewestInv
  <2>3. ASSUME NEW t \in 1 .. Len(issued'), issued'[t] = "bypass", bypass' # NoToken
        PROVE  t <= bypass'
    <3>1. CASE kind = "bypass"
      BY <1>2, <1>3, <2>3, <3>1
    <3>2. CASE kind # "bypass"
      <4>1. t # n + 1
        BY <1>2, <2>3, <3>2
      <4>2. t \in 1 .. n
        BY <1>2, <4>1
      <4> QED
        BY <1>0, <1>2, <1>3, <2>3, <3>2, <4>2 DEF NewestInv, n
    <3> QED
      BY <3>1, <3>2
  <2>4. ASSUME NEW t \in 1 .. Len(issued'), issued'[t] = "ingest"
        PROVE  t <= ingest'
    <3>1. CASE kind = "ingest"
      BY <1>2, <1>3, <2>4, <3>1
    <3>2. CASE kind # "ingest"
      <4>1. t # n + 1
        BY <1>2, <2>4, <3>2
      <4>2. t \in 1 .. n
        BY <1>2, <4>1
      <4> QED
        BY <1>0, <1>2, <1>3, <2>4, <3>2, <4>2 DEF NewestInv, n
    <3> QED
      BY <3>1, <3>2
  <2> QED
    BY <2>1, <2>2, <2>3, <2>4 DEF NewestInv
<1>8. StoredInv'
  <2> SUFFICES ASSUME NEW s \in Handlers, handler'[s].at = "stored"
               PROVE  /\ handler'[s].token \in 1 .. Len(issued')
                      /\ issued'[handler'[s].token] = handler'[s].op
                      /\ \A t \in handler'[s].before : t < handler'[s].token
    BY DEF StoredInv
  <2>1. CASE s = r
    <3>1. n + 1 \in 1 .. Len(issued')
      BY <1>2
    <3>2. ASSUME NEW t \in handler[r].before
          PROVE  t < n + 1
      <4>1. t \in told
        BY <1>6
      <4>2. t \in 1 .. n
        BY <1>4, <4>1
      <4> QED
        BY <1>2, <4>2
    <3> QED
      BY <1>2, <1>6, <2>1, <3>1, <3>2, Zenon
  <2>2. CASE s # r
    <3>1. handler'[s] = handler[s]
      BY <1>6, <2>2
    <3>2. /\ handler[s].token \in 1 .. n /\ issued[handler[s].token] = handler[s].op
          /\ \A t \in handler[s].before : t < handler[s].token
      BY <1>0, <3>1 DEF StoredInv, n
    <3>3. handler[s].token \in 1 .. Len(issued')
      BY <1>2, <3>2
    <3> QED
      BY <1>2, <3>1, <3>2, <3>3
  <2> QED
    BY <2>1, <2>2
<1>9. VoidInv'
  <2>1. n + 1 \notin void
    BY <1>2, <1>4
  <2> QED
    BY <1>0, <1>3, <2>1 DEF VoidInv
<1>10. VoidStaysVoid'
  <2> SUFFICES ASSUME NEW s \in Handlers, handler'[s].at = "granted"
               PROVE  handler'[s].token \notin handler'[s].wasVoid
    BY DEF VoidStaysVoid
  <2>1. s # r
    BY <1>6
  <2>2. handler'[s] = handler[s]
    BY <1>6, <2>1
  <2> QED
    BY <1>0, <2>2 DEF VoidStaysVoid
<1> QED
  BY <1>7, <1>8, <1>9, <1>10

LEMMA NextAccess == AccessInv /\ [AccessNext]_accessVars => AccessInv'
<1> SUFFICES ASSUME AccessInv, [AccessNext]_accessVars
             PROVE  NewestInv' /\ StoredInv' /\ VoidInv' /\ VoidStaysVoid'
  BY NextAccessType DEF AccessInv
<1>0. AccessTypeOK /\ NewestInv /\ StoredInv /\ VoidInv /\ VoidStaysVoid
  BY DEF AccessInv
<1>n. /\ Len(issued) \in Nat
      /\ handler \in [Handlers -> RequestType(Len(issued), told, void)]
      /\ \A r \in Handlers : handler[r] \in RequestType(Len(issued), told, void)
  BY <1>0, TypeUnfolds
<1>z. /\ 0 \in 0 .. Len(issued) /\ bypass \in 0 .. Len(issued) /\ ingest \in 0 .. Len(issued)
      /\ NoToken = 0 /\ \A r \in Handlers : NoToken \notin handler[r].wasVoid
      /\ \A r \in Handlers : handler[r].wasVoid \subseteq void
  BY <1>0, <1>n DEF AccessTypeOK, RequestType, NoToken
<1>1. ASSUME NEW r \in Handlers, NEW op \in Ops, BeginRequest(r, op)
      PROVE  NewestInv' /\ StoredInv' /\ VoidInv' /\ VoidStaysVoid'
  <2>1. /\ handler'[r].at = "sent" /\ \A s \in Handlers \ {r} : handler'[s] = handler[s]
        /\ UNCHANGED <<issued, ingest, void, bypass>>
    BY <1>1, <1>n DEF BeginRequest, row, tokens
  <2> QED
    BY <1>0, <2>1, SameVoid
<1>2. ASSUME NEW r \in Handlers, NEW p \in Passwords, SetRoomPassword(r, p)
      PROVE  NewestInv' /\ StoredInv' /\ VoidInv' /\ VoidStaysVoid'
  <2>1. Goes(r, "answered", NoToken) /\ UNCHANGED <<issued, ingest, void, bypass>>
    BY <1>2 DEF SetRoomPassword, tokens
  <2>2. handler'[r].at = "answered" /\ \A s \in Handlers \ {r} : handler'[s] = handler[s]
    BY <1>n, <1>z, <2>1, GoesType DEF At
  <2> QED
    BY <1>0, <2>1, <2>2, SameVoid
<1>3. ASSUME NEW r \in Handlers, DeletePassword(r)
      PROVE  NewestInv' /\ StoredInv' /\ VoidInv' /\ VoidStaysVoid'
  <2>1. Goes(r, "cleared", NoToken) /\ UNCHANGED <<issued, ingest, void, bypass>>
    BY <1>3 DEF DeletePassword, tokens
  <2>2. handler'[r].at = "cleared" /\ \A s \in Handlers \ {r} : handler'[s] = handler[s]
    BY <1>n, <1>z, <2>1, GoesType DEF At
  <2> QED
    BY <1>0, <2>1, <2>2, SameVoid
<1>4. ASSUME NEW r \in Handlers, DeleteBypassToken(r) \/ Tell(r)
      PROVE  NewestInv' /\ StoredInv' /\ VoidInv' /\ VoidStaysVoid'
  <2>1. /\ Goes(r, "answered", NoToken) /\ UNCHANGED <<issued, ingest>>
        /\ bypass' = bypass \/ bypass' = NoToken
    BY <1>4 DEF DeleteBypassToken, Tell, row
  <2>2. /\ handler'[r].at = "answered" /\ handler'[r].wasVoid = handler[r].wasVoid
        /\ \A s \in Handlers \ {r} : handler'[s] = handler[s]
    BY <1>n, <1>z, <2>1, GoesType DEF At
  <2>3. NewestInv' /\ StoredInv'
    BY <1>0, <2>1, <2>2, NoNewToken
  <2>4. VoidInv'
    <3>1. CASE DeleteBypassToken(r)
      BY <1>4, <2>1, <3>1, VoidedNotCurrent DEF DeleteBypassToken, VoidInv
    <3>2. CASE Tell(r)
      <4>1. handler[r].at = "stored" /\ handler[r].op \in {"bypass", "ingest"}
        <5>1. handler[r].at = "stored" /\ handler[r].token \in 1 .. Len(issued)
              /\ issued[handler[r].token] = handler[r].op
          BY <1>0, <3>2 DEF Tell, StoredInv
        <5> QED
          BY <1>0, <5>1 DEF AccessTypeOK
      <4>2. void' = Voided(r, handler[r].op) /\ UNCHANGED <<bypass, ingest>>
        BY <3>2 DEF Tell, row
      <4> QED
        BY <4>1, <4>2, VoidedNotCurrent DEF VoidInv
    <3> QED
      BY <1>4, <3>1, <3>2
  <2>5. VoidStaysVoid'
    BY <1>0, <2>2 DEF VoidStaysVoid
  <2> QED
    BY <2>3, <2>4, <2>5
<1>5. ASSUME NEW r \in Handlers, NEW kind \in {"bypass", "ingest"}, Rotate(r, kind)
      PROVE  NewestInv' /\ StoredInv' /\ VoidInv' /\ VoidStaysVoid'
  BY <1>5, RotateStep
<1>6. ASSUME NEW r \in Handlers,
             \/ Goes(r, "granted", NoToken)
             \/ Goes(r, "granted", bypass)
             \/ Goes(r, "granted", ingest)
             \/ Goes(r, "refused", NoToken)
             \/ Goes(r, "failed", NoToken),
             UNCHANGED <<row, tokens>>
      PROVE  NewestInv' /\ StoredInv' /\ VoidInv' /\ VoidStaysVoid'
  <2>1. PICK at \in {"granted", "refused", "failed"}, t \in {NoToken, bypass, ingest} :
          Goes(r, at, t)
    BY <1>6
  <2>2. t \in 0 .. Len(issued) /\ at \in At
    BY <1>z, <2>1 DEF At
  <2>3. /\ handler'[r].at = at /\ handler'[r].token = t /\ handler'[r].wasVoid = handler[r].wasVoid
        /\ \A s \in Handlers \ {r} : handler'[s] = handler[s]
    <3>1. handler' = [handler EXCEPT ![r] = [handler[r] EXCEPT !.at = at, !.token = t]]
      BY <2>1 DEF Goes
    <3>2. handler[r] \in RequestType(Len(issued), told, void)
      BY <1>n
    <3> QED
      BY <1>n, <3>1, <3>2 DEF RequestType
  <2>4. t \notin handler[r].wasVoid
    BY <1>0, <1>z, <2>1 DEF VoidInv
  <2> QED
    BY <1>0, <1>6, <2>1, <2>3, <2>4, SameVoid DEF row, tokens
<1>7. ASSUME NEW r \in Handlers, NEW t \in Tokens \cup {NoToken}, NEW knows \in BOOLEAN,
             CreateStreamAccess(r, t, knows)
      PROVE  NewestInv' /\ StoredInv' /\ VoidInv' /\ VoidStaysVoid'
  BY <1>6, <1>7 DEF CreateStreamAccess
<1>8. ASSUME NEW r \in Handlers, NEW t \in Tokens, WhipProxy(r, t)
      PROVE  NewestInv' /\ StoredInv' /\ VoidInv' /\ VoidStaysVoid'
  BY <1>6, <1>8 DEF WhipProxy
<1>9. ASSUME NEW r \in Handlers, Fails(r)
      PROVE  NewestInv' /\ StoredInv' /\ VoidInv' /\ VoidStaysVoid'
  BY <1>6, <1>9 DEF Fails
<1>10. ASSUME NEW r \in Handlers, Ends(r)
       PROVE  NewestInv' /\ StoredInv' /\ VoidInv' /\ VoidStaysVoid'
  <2>1. /\ handler'[r].at = "idle" /\ \A s \in Handlers \ {r} : handler'[s] = handler[s]
        /\ UNCHANGED <<issued, ingest, void, bypass>>
    BY <1>10, <1>n DEF Ends, NoRequest, row, tokens
  <2> QED
    BY <1>0, <2>1, SameVoid
<1>11. CASE UNCHANGED accessVars
  BY <1>0, <1>11 DEF accessVars, row, tokens, NewestInv, StoredInv, VoidInv, VoidStaysVoid
<1> QED
  BY <1>1, <1>2, <1>3, <1>4, <1>5, <1>7, <1>8, <1>9, <1>10, <1>11 DEF AccessNext

LEMMA InitAccess == AccessInit => AccessInv
<1> SUFFICES ASSUME AccessInit
             PROVE  AccessInv
  OBVIOUS
<1>1. NewestInv
  BY DEF AccessInit, NewestInv, NoToken
<1>2. StoredInv /\ VoidStaysVoid
  BY DEF AccessInit, NoRequest, StoredInv, VoidStaysVoid
<1>3. VoidInv
  BY DEF AccessInit, VoidInv
<1> QED
  BY <1>1, <1>2, <1>3, InitAccessType DEF AccessInv

\* The row of the room, the tokens and the requests keep their types: a token that is
\* told, current or held by a request has been issued.
THEOREM AccessTypeCorrect == AccessSpec => []AccessTypeOK
<1>1. AccessInv => AccessTypeOK
  BY DEF AccessInv
<1> QED
  BY <1>1, InitAccess, NextAccess, PTL DEF AccessSpec

\* A token that the owner knew to be replaced, or removed with the password, opens
\* nothing asked for afterwards, for any number of rotations, removals and failures.
THEOREM VoidIsVoid == AccessSpec => []VoidStaysVoid
<1>1. AccessInv => VoidStaysVoid
  BY DEF AccessInv
<1> QED
  BY <1>1, InitAccess, NextAccess, PTL DEF AccessSpec

-----------------------------------------------------------------------------
(* Names of users                                                          *)

Steps == {"idle", "read", "create", "save", "named", "answered", "stored", "failed"}

Caller(n) == [kind : Kinds, name : Names \cup Callers \cup {""}, since : 0 .. n, at : Steps]

\* The row had the name of the request at some moment since the request came in.
HadName(r) == \E i \in 1 .. Len(profile) : i >= callers[r].since /\ profile[i] = callers[r].name

\* A request goes on with a name that the row had, or with one to be saved.
Named(r) ==
    /\ callers[r].at \in {"named", "stored"} => HadName(r)
    /\ callers[r].at = "save" => callers[r].name \in Names

NamesInv == \A r \in Callers : Named(r)

ProfilesInv ==
    /\ profile \in Seq(Names \cup Callers)
    /\ callers \in [Callers -> Caller(Len(profile))]

LEMMA ProfilesTypeUnfolds == ProfilesTypeOK <=> ProfilesInv
BY DEF ProfilesTypeOK, ProfilesInv, Caller, Steps

LEMMA InitProfiles == ProfilesInit => ProfilesInv /\ NamesInv
<1> SUFFICES ASSUME ProfilesInit PROVE ProfilesInv /\ NamesInv
  OBVIOUS
<1>1. Len(profile) = 0 /\ profile \in Seq(Names \cup Callers)
  BY EmptySeq DEF ProfilesInit
<1>2. Waiting \in Caller(0) /\ Waiting.at = "idle"
  BY DEF Waiting, Caller, Steps, Kinds
<1>3. callers = [r \in Callers |-> Waiting]
  BY DEF ProfilesInit
<1> QED
  BY <1>1, <1>2, <1>3 DEF ProfilesInv, NamesInv, Named

\* The row takes a name, and a request goes on, with a name or without.
LEMMA RowGrows ==
  ASSUME ProfilesInv, NEW name \in Names \cup Callers, profile' = Append(profile, name)
  PROVE  /\ profile' \in Seq(Names \cup Callers)
         /\ Len(profile') = Len(profile) + 1 /\ profile'[Len(profile')] = name
         /\ \A i \in 1 .. Len(profile) : profile'[i] = profile[i]
BY AppendProperties DEF ProfilesInv

LEMMA NextProfiles ==
  ASSUME ProfilesInv, NamesInv, [ProfilesNext]_profileVars
  PROVE  ProfilesInv' /\ NamesInv'
<1> USE DEF ProfilesInv
<1>0. Len(profile) \in Nat /\ Len(profile) \in 0 .. Len(profile)
  <2>1. Len(profile) \in Nat
    OBVIOUS
  <2> HIDE DEF ProfilesInv
  <2> QED
    BY <2>1
<1>a. \A r \in Callers : callers[r].since \in 0 .. Len(profile)
  <2>1. \A r \in Callers : callers[r] \in Caller(Len(profile))
    OBVIOUS
  <2> QED
    BY <2>1 DEF Caller
\* The requests but one are as they were, and the row has the names it had.
<1>1. ASSUME NEW r \in Callers, callers'[r] \in Caller(Len(profile)),
             callers' = [callers EXCEPT ![r] = callers'[r]],
             UNCHANGED profile, Named(r)'
      PROVE  ProfilesInv' /\ NamesInv'
  <2>1. callers' \in [Callers -> Caller(Len(profile))]
    BY <1>1
  <2>2. ASSUME NEW q \in Callers PROVE Named(q)'
    BY <1>1, <2>2 DEF NamesInv, Named, HadName
  <2> QED
    BY <1>1, <2>1, <2>2 DEF NamesInv
<1>2. ASSUME NEW r \in Callers, NEW name \in Names \cup Callers,
             profile' = Append(profile, name), callers'[r] \in Caller(Len(profile)),
             callers' = [callers EXCEPT ![r] = callers'[r]], Named(r)'
      PROVE  ProfilesInv' /\ NamesInv'
  <2>1. /\ profile' \in Seq(Names \cup Callers) /\ Len(profile') = Len(profile) + 1
        /\ \A i \in 1 .. Len(profile) : profile'[i] = profile[i]
    BY <1>2, RowGrows
  <2>2. Caller(Len(profile)) \subseteq Caller(Len(profile'))
    <3>1. 0 .. Len(profile) \subseteq 0 .. Len(profile')
      BY <1>0, <2>1
    <3> QED
      BY <3>1 DEF Caller
  <2>3. callers' \in [Callers -> Caller(Len(profile'))]
    BY <1>2, <2>2
  <2>4. ASSUME NEW q \in Callers PROVE Named(q)'
    <3>1. 1 .. Len(profile) \subseteq 1 .. Len(profile')
      BY <1>0, <2>1
    <3>2. CASE q # r
      BY <1>2, <2>1, <3>1, <3>2 DEF NamesInv, Named, HadName
    <3> QED
      BY <1>2, <3>2
  <2> QED
    BY <2>1, <2>3, <2>4 DEF NamesInv
<1>3. ASSUME NEW r \in Callers, NEW kind \in Kinds, NEW name \in Names \cup {""},
             ComesIn(r, kind, name)
      PROVE  ProfilesInv' /\ NamesInv'
  <2> DEFINE k == [kind |-> kind, name |-> name, since |-> Len(profile),
                   at |-> IF kind = "save" THEN "save" ELSE "read"]
  <2>1. callers' = [callers EXCEPT ![r] = k] /\ UNCHANGED profile
    BY <1>3 DEF ComesIn
  <2>2. k.at \in {"save", "read"} /\ (k.at = "save" => k.name \in Names)
    BY <1>3 DEF ComesIn
  <2>4. k \in Caller(Len(profile))
    <3>1. Len(profile) \in 0 .. Len(profile)
      BY <1>0
    <3>2. \A at \in Steps : [kind |-> kind, name |-> name, since |-> Len(profile), at |-> at]
                                 \in Caller(Len(profile))
      BY <3>1 DEF Caller
    <3> QED
      BY <3>2 DEF Steps
  <2>3. callers'[r] = k
    BY <2>1
  <2> HIDE DEF k
  <2> QED
    BY <1>1, <2>1, <2>2, <2>3, <2>4 DEF Named
<1>4. ASSUME NEW r \in Callers, GetUserProfile(r) PROVE ProfilesInv' /\ NamesInv'
  <2>1. CASE profile = <<>>
    <3>1. callers' = [callers EXCEPT ![r].at = "create", ![r].name = ""] /\ UNCHANGED profile
      BY <1>4, <2>1 DEF GetUserProfile, Step
    <3>2. callers'[r] \in Caller(Len(profile)) /\ callers'[r].at = "create"
      BY <3>1 DEF Caller, Steps
    <3>3. callers' = [callers EXCEPT ![r] = callers'[r]]
      BY <3>1
    <3> QED
      BY <1>1, <3>1, <3>2, <3>3 DEF Named
  <2>2. CASE profile # <<>>
    <3>1. callers' = [callers EXCEPT ![r].at = "named", ![r].name = Last(profile)]
          /\ UNCHANGED profile
      BY <1>4, <2>2 DEF GetUserProfile, Step
    <3>2. /\ Len(profile) \in 1 .. Len(profile) /\ Last(profile) = profile[Len(profile)]
          /\ Last(profile) \in Names \cup Callers
      BY <2>2, EmptySeq DEF Last
    <3>3. /\ callers'[r] \in Caller(Len(profile))
          /\ callers'[r].name = Last(profile) /\ callers'[r].since = callers[r].since
      BY <3>1, <3>2 DEF Caller, Steps
    <3>4. callers' = [callers EXCEPT ![r] = callers'[r]]
      BY <3>1
    <3>6. Named(r)'
      BY <1>0, <1>a, <3>1, <3>2, <3>3 DEF Named, HadName
    <3> QED
      BY <1>1, <3>1, <3>3, <3>4, <3>6
  <2> QED
    BY <2>1, <2>2
<1>5. ASSUME NEW r \in Callers, UpsertGenerated(r) PROVE ProfilesInv' /\ NamesInv'
  <2>1. callers' = [callers EXCEPT ![r].at = "named", ![r].name = r]
        /\ profile' = Append(profile, r)
    BY <1>5 DEF UpsertGenerated, Step
  <2>2. /\ callers'[r] \in Caller(Len(profile)) /\ callers[r].since \in 0 .. Len(profile)
        /\ callers'[r].name = r /\ callers'[r].since = callers[r].since
    BY <2>1 DEF Caller, Steps
  <2>3. callers' = [callers EXCEPT ![r] = callers'[r]]
    BY <2>1
  <2>4. Len(profile') = Len(profile) + 1 /\ profile'[Len(profile')] = r
    BY <2>1, RowGrows
  <2>5. Named(r)'
    BY <1>0, <1>a, <2>1, <2>2, <2>4 DEF Named, HadName
  <2> QED
    BY <1>2, <2>1, <2>2, <2>3, <2>5
<1>6. ASSUME NEW r \in Callers, UpdateMe(r)
      PROVE  ProfilesInv' /\ NamesInv'
  <2>1. callers' = [callers EXCEPT ![r].at = "answered"]
        /\ profile' = Append(profile, callers[r].name)
        /\ callers[r].name \in Names \cup Callers
    BY <1>6 DEF UpdateMe, NamesInv, Named
  <2>2. callers'[r] \in Caller(Len(profile)) /\ callers'[r].at = "answered"
    BY <2>1 DEF Caller, Steps
  <2>3. callers' = [callers EXCEPT ![r] = callers'[r]]
    BY <2>1
  <2>4. Named(r)'
    BY <2>2 DEF Named
  <2> QED
    BY <1>2, <2>1, <2>2, <2>3, <2>4
<1>7. ASSUME NEW r \in Callers, CreateComment(r) \/ CallFails(r) PROVE ProfilesInv' /\ NamesInv'
  <2>1. PICK at \in {"stored", "failed"} :
           /\ callers' = [callers EXCEPT ![r].at = at] /\ UNCHANGED profile
           /\ at = "stored" => callers[r].at = "named"
    BY <1>7 DEF CreateComment, CallFails
  <2>2. /\ callers'[r] \in Caller(Len(profile)) /\ callers'[r].at = at
        /\ callers'[r].name = callers[r].name /\ callers'[r].since = callers[r].since
    BY <2>1 DEF Caller, Steps
  <2>3. callers' = [callers EXCEPT ![r] = callers'[r]]
    BY <2>1
  <2>4. Named(r)'
    BY <2>1, <2>2 DEF NamesInv, Named, HadName
  <2> QED
    BY <1>1, <2>1, <2>2, <2>3, <2>4
<1>8. CASE UNCHANGED profileVars
  BY <1>8 DEF profileVars, NamesInv, Named, HadName
<1> QED
  BY <1>3, <1>4, <1>5, <1>6, <1>7, <1>8, Zenon DEF ProfilesNext

\* Every comment bears a name that its user had while it was being made, however many
\* requests generate, save and read names at the same time.
THEOREM NamesCorrect == ProfilesSpec => []CommentNamesWereCurrent
<1>1. ProfilesInv /\ NamesInv => CommentNamesWereCurrent
  BY DEF ProfilesInv, NamesInv, Named, HadName, CommentNamesWereCurrent
<1> QED
  BY <1>1, InitProfiles, NextProfiles, PTL DEF ProfilesSpec

\* The row and the requests have their types.
THEOREM ProfilesTypeCorrect == ProfilesSpec => []ProfilesTypeOK
BY InitProfiles, NextProfiles, ProfilesTypeUnfolds, PTL DEF ProfilesSpec

-----------------------------------------------------------------------------
(* The administration page                                                 *)

IsCall(k) ==
    k = [op |-> k.op, id |-> k.id, arg |-> k.arg, here |-> k.here, at |-> k.at,
         list |-> k.list, page |-> k.page, next |-> k.next]

IsEntry(e) ==
    e = [comments |-> e.comments, isLoadingOlder |-> e.isLoadingOlder,
         nextCursor |-> e.nextCursor]

\* Only an operation that is followed by the list of rooms waits for the list.
CallOK(k) ==
    /\ IsCall(k)
    /\ k.at \in {"refresh", "listed"} => k.op \in Changes \cup {"create", "list"}

\* One call per slot.
CallsInv ==
    /\ calls = [s \in Slots |-> calls[s]]
    /\ \A s \in Slots : \A k, j \in calls[s] : k = j
    /\ \A s \in Slots : \A k \in calls[s] : CallOK(k)

EntryInv ==
    /\ entry = [i \in Ids |-> entry[i]]
    /\ \A i \in Ids : \A e \in entry[i] : IsEntry(e)

AdminInv == CallsInv /\ EntryInv /\ NeverStuckLoading

\* What was rendered were entries.
DrawnInv ==
    /\ drawn = [i \in Ids |-> drawn[i]]
    /\ \A i \in Ids : \A e \in drawn[i] : IsEntry(e)

\* The answers that a call goes through, and those that end it.
CallGoes(s, k, j) == k \in calls[s] /\ calls' = [calls EXCEPT ![s] = {j}]
CallLeaves(s, k) == k \in calls[s] /\ calls' = [calls EXCEPT ![s] = {}]

LEMMA NewCallFacts ==
  \A op, id, arg : /\ NewCall(op, id, arg).op = op /\ NewCall(op, id, arg).id = id
                   /\ CallOK(NewCall(op, id, arg))
BY DEF NewCall, CallOK, IsCall

\* What the steps make of a call.
LEMMA CallFacts ==
  ASSUME NEW k, IsCall(k)
  PROVE  /\ IsCall(Served(k)) /\ Served(k).op = k.op /\ Served(k).id = k.id
         /\ Served(k).at = "answered"
         /\ \A at :
               LET j == [k EXCEPT !.at = at]
               IN  IsCall(j) /\ j.op = k.op /\ j.id = k.id /\ j.at = at
         /\ \A here :
               LET j == [k EXCEPT !.here = here]
               IN  IsCall(j) /\ j.op = k.op /\ j.id = k.id /\ j.at = k.at
         /\ \A id :
               LET j == [k EXCEPT !.id = id]
               IN  IsCall(j) /\ j.op = k.op /\ j.at = k.at
<1>1. /\ IsCall(Served(k)) /\ Served(k).op = k.op /\ Served(k).id = k.id
      /\ Served(k).at = "answered"
  BY DEF IsCall, Served
<1>2. ASSUME NEW at
      PROVE  LET j == [k EXCEPT !.at = at]
             IN  IsCall(j) /\ j.op = k.op /\ j.id = k.id /\ j.at = at
  BY DEF IsCall
<1>3. ASSUME NEW here
      PROVE  LET j == [k EXCEPT !.here = here]
             IN  IsCall(j) /\ j.op = k.op /\ j.id = k.id /\ j.at = k.at
  BY DEF IsCall
<1>4. ASSUME NEW id
      PROVE  LET j == [k EXCEPT !.id = id]
             IN  IsCall(j) /\ j.op = k.op /\ j.at = k.at
  BY DEF IsCall
<1> QED
  BY <1>1, <1>2, <1>3, <1>4

LEMMA AnswerField ==
  ASSUME NEW k, IsCall(k), NEW value, NEW j,
         j \in {[k EXCEPT !.arg = value], [k EXCEPT !.page = value],
                [k EXCEPT !.next = value], [k EXCEPT !.list = value]}
  PROVE  IsCall(j) /\ j.op = k.op /\ j.id = k.id /\ j.at = k.at
<1>1. CASE j = [k EXCEPT !.arg = value]
  BY <1>1 DEF IsCall
<1>2. CASE j = [k EXCEPT !.page = value]
  BY <1>2 DEF IsCall
<1>3. CASE j = [k EXCEPT !.next = value]
  BY <1>3 DEF IsCall
<1>4. CASE j = [k EXCEPT !.list = value]
  BY <1>4 DEF IsCall
<1> QED
  BY <1>1, <1>2, <1>3, <1>4

\* What the backend adds to its answer.
WithPage(k, page, next) == [k EXCEPT !.arg = 0, !.page = page, !.next = next]
WithList(k, listed) == [k EXCEPT !.at = "listed", !.list = listed]

LEMMA WithPageFacts ==
  ASSUME NEW k, IsCall(k), NEW page, NEW next, NEW j, j = WithPage(k, page, next)
  PROVE  IsCall(j) /\ j.op = k.op /\ j.id = k.id /\ j.at = k.at
<1> DEFINE k1 == [k EXCEPT !.arg = 0]
           k2 == [k1 EXCEPT !.page = page]
           k3 == [k2 EXCEPT !.next = next]
<1>1. IsCall(k1) /\ k1.op = k.op /\ k1.id = k.id /\ k1.at = k.at
  BY AnswerField
<1>2. IsCall(k2) /\ k2.op = k.op /\ k2.id = k.id /\ k2.at = k.at
  <2> HIDE DEF k1
  <2> QED
    BY <1>1, AnswerField
<1>3. IsCall(k3) /\ k3.op = k.op /\ k3.id = k.id /\ k3.at = k.at
  <2> HIDE DEF k2
  <2> QED
    BY <1>2, AnswerField
<1>4. j = k3
  BY DEF WithPage
<1> QED
  BY <1>3, <1>4

LEMMA ListFacts ==
  ASSUME NEW k, IsCall(k), NEW listed, NEW j, j = WithList(k, listed)
  PROVE  IsCall(j) /\ j.op = k.op /\ j.id = k.id
<1> DEFINE k1 == [k EXCEPT !.at = "listed"]
           k2 == [k1 EXCEPT !.list = listed]
<1>1. IsCall(k1) /\ k1.op = k.op /\ k1.id = k.id
  BY CallFacts
<1>2. IsCall(k2) /\ k2.op = k.op /\ k2.id = k.id
  <2> HIDE DEF k1
  <2> QED
    BY <1>1, AnswerField
<1>3. j = k2
  BY DEF WithList
<1> QED
  BY <1>2, <1>3

\* What they make of an entry.
LEMMA EntryFacts ==
  /\ \A held, busy, next : \A e \in Entry(held, busy, next) :
        IsEntry(e) /\ e.isLoadingOlder = busy
  /\ \A e, busy :
        IsEntry(e) => /\ IsEntry([e EXCEPT !.isLoadingOlder = busy])
                      /\ [e EXCEPT !.isLoadingOlder = busy].isLoadingOlder = busy
BY DEF Entry, IsEntry

LEMMA InitAdmin == AdminInit => AdminInv /\ DrawnInv
<1> SUFFICES ASSUME AdminInit PROVE AdminInv /\ DrawnInv
  OBVIOUS
<1>1. PICK s \in Slots :
         calls = [r \in Slots |-> IF r = s THEN {NewCall("list", 0, 0)} ELSE {}]
  BY DEF AdminInit
<1>2. CallOK(NewCall("list", 0, 0))
  BY NewCallFacts
<1>3. CallsInv
  BY <1>1, <1>2 DEF CallsInv
<1>4. drawn = entry /\ \A i \in Ids : entry[i] = {}
  BY DEF AdminInit
<1> QED
  BY <1>3, <1>4 DEF AdminInit, AdminInv, EntryInv, DrawnInv, NeverStuckLoading

\* What is rendered changes when it is rendered anew and by the button for older comments.
Pressed(e) == {[e EXCEPT !.isLoadingOlder = TRUE]}

LEMMA DrawnStep ==
  ASSUME [AdminNext]_adminVars
  PROVE  \/ drawn' = drawn
         \/ drawn' = entry
         \/ \E r \in rooms : \E e \in drawn[r.id] : drawn' = [drawn EXCEPT ![r.id] = Pressed(e)]
<1>1. CASE StoreRoomComment \/ RoomExpires \/ UNCHANGED adminVars
  BY <1>1 DEF StoreRoomComment, RoomExpires, adminVars, maps
<1>2. CASE RenderComments
  BY <1>2 DEF RenderComments
<1>3. ASSUME NEW s \in Slots, Serve(s) PROVE drawn' = drawn
  BY <1>3 DEF Serve, ServeChange, ServeCreate, ServeIssue, ServeRemove, ServePage, ServeList, maps
<1>4. ASSUME NEW s \in Slots, Arrive(s) PROVE drawn' = drawn
  BY <1>4 DEF Arrive, ChangeAnswered, CallBreaks, Listed, ClearFails, TokenArrives,
              CommentsArrive, OlderCommentsArrive, Removed, maps
<1>5. ASSUME NEW s \in Slots, LoadOlderComments(s)
      PROVE  \E r \in rooms : \E e \in drawn[r.id] : drawn' = [drawn EXCEPT ![r.id] = Pressed(e)]
  BY <1>5 DEF LoadOlderComments, Pressed
<1>6. ASSUME NEW s \in Slots, Button(s), ~ LoadOlderComments(s) PROVE drawn' = drawn
  BY <1>6 DEF Button, SubmitRoom, Press, RemoveComment, maps
<1> QED
  BY <1>1, <1>2, <1>3, <1>4, <1>5, <1>6 DEF AdminNext

LEMMA NextDrawn ==
  ASSUME EntryInv, DrawnInv, [AdminNext]_adminVars
  PROVE  DrawnInv'
<1>1. CASE drawn' = drawn \/ drawn' = entry
  BY <1>1 DEF EntryInv, DrawnInv
<1>2. ASSUME NEW r \in rooms, NEW e \in drawn[r.id], drawn' = [drawn EXCEPT ![r.id] = Pressed(e)]
      PROVE  DrawnInv'
  <2>1. CASE r.id \in Ids
    <3>1. \A d \in Pressed(e) : IsEntry(d)
      BY <2>1, EntryFacts DEF DrawnInv, Pressed
    <3> QED
      BY <1>2, <2>1, <3>1 DEF DrawnInv
  <2>2. CASE r.id \notin Ids
    BY <1>2, <2>2 DEF DrawnInv
  <2> QED
    BY <2>1, <2>2
<1> QED
  BY <1>1, <1>2, DrawnStep

\* A call that goes on leaves those of the other slots as they are.
LEMMA GoesCalls ==
  ASSUME CallsInv, NEW s \in Slots, NEW k, NEW j, CallGoes(s, k, j),
         CallOK(j)
  PROVE  CallsInv'
BY DEF CallsInv, CallGoes

LEMMA EndsCalls ==
  ASSUME CallsInv, NEW s \in Slots, NEW k, CallLeaves(s, k)
  PROVE  CallsInv'
BY DEF CallsInv, CallLeaves

\* A request for an older page is under way until it goes itself.
LEMMA StillAsked ==
  ASSUME CallsInv, NEW s \in Slots, NEW k \in calls[s], NEW rest, NEW i \in Ids,
         calls' = [calls EXCEPT ![s] = rest], Asked("older", i),
         k.op = "older" /\ k.id = i => \E j \in rest : j.op = "older" /\ j.id = i
  PROVE  Asked("older", i)'
<1>1. PICK t \in Slots : \E j \in calls[t] : j.op = "older" /\ j.id = i
  BY DEF Asked
<1>2. CASE t = s
  <2>1. k.op = "older" /\ k.id = i
    BY <1>1, <1>2 DEF CallsInv
  <2>2. calls'[s] = rest
    BY DEF CallsInv
  <2> QED
    BY <2>1, <2>2 DEF Asked
<1>3. CASE t # s
  <2>1. calls'[t] = calls[t]
    BY <1>3 DEF CallsInv
  <2> QED
    BY <1>1, <2>1 DEF Asked
<1> QED
  BY <1>2, <1>3

\* A call of another operation goes on or ends, and entries change, if at all, to ones
\* that load no more than before.
LEMMA OtherCall ==
  ASSUME AdminInv, NEW s \in Slots, NEW k \in calls[s], k.op # "older", NEW rest,
         calls' = [calls EXCEPT ![s] = rest],
         \A i \in Ids : \A e \in entry'[i] :
            e.isLoadingOlder => \E d \in entry[i] : d.isLoadingOlder
  PROVE  NeverStuckLoading'
<1> SUFFICES ASSUME NEW i \in Ids, NEW e \in entry'[i], e.isLoadingOlder
             PROVE  Asked("older", i)'
  BY DEF NeverStuckLoading
<1>1. Asked("older", i)
  BY DEF AdminInv, NeverStuckLoading
<1> QED
  BY <1>1, StillAsked DEF AdminInv

\* An older page comes, or does not: its entry loads no more, and the others as before.
LEMMA OlderCallEnds ==
  ASSUME AdminInv, NEW s \in Slots, NEW k \in calls[s], k.op = "older",
         calls' = [calls EXCEPT ![s] = {}], NEW f,
         entry' = [entry EXCEPT ![k.id] = f], \A e \in f : e.isLoadingOlder = FALSE
  PROVE  NeverStuckLoading'
<1> SUFFICES ASSUME NEW i \in Ids, NEW e \in entry'[i], e.isLoadingOlder
             PROVE  Asked("older", i)'
  BY DEF NeverStuckLoading
<1>1. i # k.id /\ entry'[i] = entry[i]
  BY DEF AdminInv, EntryInv
<1>2. Asked("older", i)
  BY <1>1 DEF AdminInv, NeverStuckLoading
<1> QED
  BY <1>1, <1>2, StillAsked DEF AdminInv

\* A slot without a call takes one.
LEMMA NewCallAsked ==
  ASSUME CallsInv, NEW s \in Slots, NEW op, NEW id, NEW arg, AskBackend(s, op, id, arg)
  PROVE  /\ CallsInv'
         /\ \A i \in Ids : Asked("older", i) => Asked("older", i)'
         /\ op = "older" => Asked("older", id)'
<1>1. /\ calls[s] = {} /\ calls' = [calls EXCEPT ![s] = {NewCall(op, id, arg)}]
      /\ CallOK(NewCall(op, id, arg)) /\ NewCall(op, id, arg).op = op
      /\ NewCall(op, id, arg).id = id
  BY NewCallFacts DEF AskBackend
<1>2. CallsInv'
  BY <1>1 DEF CallsInv
<1>3. calls'[s] = {NewCall(op, id, arg)} /\ \A t \in Slots : t # s => calls'[t] = calls[t]
  BY <1>1 DEF CallsInv
<1>4. \A i \in Ids : Asked("older", i) => Asked("older", i)'
  BY <1>1, <1>3 DEF Asked
<1>5. op = "older" => Asked("older", id)'
  BY <1>1, <1>3 DEF Asked
<1> QED
  BY <1>2, <1>4, <1>5

\* A call of which no entry waits goes on, as whatever it is then.
LEMMA OtherGoesOn ==
  ASSUME AdminInv, NEW s \in Slots, NEW k \in calls[s], k.op # "older", NEW j, CallOK(j),
         calls' = [calls EXCEPT ![s] = {j}], entry' = entry
  PROVE  AdminInv'
<1>1. CallsInv'
  BY GoesCalls DEF AdminInv, CallGoes
<1>2. NeverStuckLoading'
  BY OtherCall DEF AdminInv, NeverStuckLoading
<1> QED
  BY <1>1, <1>2 DEF AdminInv, EntryInv

\* Any call goes on with the operation and the room it is for.
LEMMA CallGoesOn ==
  ASSUME AdminInv, NEW s \in Slots, NEW k \in calls[s], NEW j, CallOK(j),
         j.op = k.op, j.id = k.id, calls' = [calls EXCEPT ![s] = {j}], entry' = entry
  PROVE  AdminInv'
<1>1. CallsInv'
  BY GoesCalls DEF AdminInv, CallGoes
<1>2. \A i \in Ids : Asked("older", i) => Asked("older", i)'
  BY StillAsked DEF AdminInv
<1>3. NeverStuckLoading'
  BY <1>2 DEF AdminInv, NeverStuckLoading
<1> QED
  BY <1>1, <1>3 DEF AdminInv, EntryInv

\* A call ends with a new entry that loads no more than the one before.
LEMMA EntryReplaced ==
  ASSUME AdminInv, NEW s \in Slots, NEW k \in calls[s], k.op # "older", NEW i, NEW f,
         calls' = [calls EXCEPT ![s] = {}], entry' = [entry EXCEPT ![i] = f],
         \A e \in f : IsEntry(e),
         \A e \in f : e.isLoadingOlder => \E d \in entry[i] : d.isLoadingOlder
  PROVE  AdminInv'
<1>1. CallsInv'
  BY EndsCalls DEF AdminInv, CallLeaves
<1>2. EntryInv'
  BY DEF AdminInv, EntryInv
<1>3. \A h \in Ids : \A e \in entry'[h] :
         e.isLoadingOlder => \E d \in entry[h] : d.isLoadingOlder
  BY DEF AdminInv, EntryInv
<1>4. NeverStuckLoading'
  BY <1>3, OtherCall
<1> QED
  BY <1>1, <1>2, <1>4 DEF AdminInv

LEMMA CallEnds ==
  ASSUME AdminInv, NEW s \in Slots, NEW k \in calls[s], k.op # "older",
         calls' = [calls EXCEPT ![s] = {}], entry' = entry
  PROVE  AdminInv'
<1>1. CallsInv'
  BY EndsCalls DEF AdminInv, CallLeaves
<1>2. NeverStuckLoading'
  BY OtherCall
<1> QED
  BY <1>1, <1>2 DEF AdminInv, EntryInv

LEMMA OlderEnds ==
  ASSUME AdminInv, NEW s \in Slots, NEW k \in calls[s], k.op = "older",
         calls' = [calls EXCEPT ![s] = {}], NEW f, entry' = [entry EXCEPT ![k.id] = f],
         \A e \in f : IsEntry(e) /\ e.isLoadingOlder = FALSE
  PROVE  AdminInv'
<1>1. CallsInv'
  BY EndsCalls DEF AdminInv, CallLeaves
<1>2. EntryInv'
  BY DEF AdminInv, EntryInv
<1>3. NeverStuckLoading'
  BY OlderCallEnds
<1> QED
  BY <1>1, <1>2, <1>3 DEF AdminInv

\* The answers of the backend.
LEMMA ServeStep ==
  ASSUME AdminInv, NEW s \in Slots, Serve(s)
  PROVE  AdminInv'
<1>a. \A k \in calls[s] : CallOK(k) /\ IsCall(k)
  BY DEF AdminInv, CallsInv, CallOK
<1>b. ASSUME NEW k \in calls[s] PROVE CallOK(Served(k)) /\ Served(k).op = k.op
                                      /\ Served(k).id = k.id
  BY <1>a, CallFacts DEF CallOK
<1>1. ASSUME ServeChange(s) \/ ServeIssue(s) PROVE AdminInv'
  <2>1. PICK k \in calls[s] : calls' = [calls EXCEPT ![s] = {Served(k)}] /\ entry' = entry
    BY <1>1 DEF ServeChange, ServeIssue, Becomes, maps
  <2> QED
    BY <1>b, <2>1, CallGoesOn
<1>2. CASE ServeCreate(s)
  <2> DEFINE Made(k) == [Served(k) EXCEPT !.id = made + 1]
  <2>1. PICK k \in calls[s] : /\ k.op = "create" /\ entry' = entry
                              /\ calls' = [calls EXCEPT ![s] = {Made(k)}]
    BY <1>2 DEF ServeCreate, Becomes, maps
  <2>2. IsCall(Served(k)) /\ Served(k).at = "answered"
    BY <1>a, CallFacts
  <2>3. CallOK(Made(k))
    BY <2>2, CallFacts DEF CallOK
  <2> QED
    BY <2>1, <2>3, OtherGoesOn
<1>3. CASE ServeRemove(s)
  <2>1. PICK k \in calls[s] : calls' = [calls EXCEPT ![s] = {Served(k)}] /\ entry' = entry
    BY <1>3 DEF ServeRemove, Becomes, maps
  <2> QED
    BY <1>b, <2>1, CallGoesOn
<1>4. ASSUME NEW ok \in BOOLEAN, ServePage(s, ok) PROVE AdminInv'
  <2>1. PICK k \in calls[s] :
           /\ entry' = entry
           /\ \E page, next :
                 calls' = [calls EXCEPT ![s] = {WithPage(Served(k), page, next)}]
    BY <1>4 DEF ServePage, Becomes, maps, WithPage
  <2>2. PICK page, next : calls' = [calls EXCEPT ![s] = {WithPage(Served(k), page, next)}]
    BY <2>1
  <2>3. PICK j : j = WithPage(Served(k), page, next)
    OBVIOUS
  <2>4. IsCall(Served(k)) /\ Served(k).at = "answered"
    BY <1>a, CallFacts
  <2>5. IsCall(j) /\ j.op = Served(k).op /\ j.id = Served(k).id /\ j.at = Served(k).at
    BY <2>3, <2>4, WithPageFacts
  <2>6. CallOK(j) /\ j.op = k.op /\ j.id = k.id
    BY <1>b, <2>4, <2>5 DEF CallOK
  <2>7. calls' = [calls EXCEPT ![s] = {j}] /\ entry' = entry
    BY <2>1, <2>2, <2>3
  <2> QED
    BY <2>6, <2>7, CallGoesOn
<1>5. ASSUME NEW ok \in BOOLEAN, ServeList(s, ok) PROVE AdminInv'
  <2>1. PICK k \in calls[s] :
           /\ entry' = entry /\ (k.at = "refresh" \/ k.op = "list")
           /\ \E listed : calls' = [calls EXCEPT ![s] = {WithList(k, listed)}]
    BY <1>5 DEF ServeList, Becomes, maps, WithList
  <2>2. PICK listed : calls' = [calls EXCEPT ![s] = {WithList(k, listed)}]
    BY <2>1
  <2>3. PICK j : j = WithList(k, listed)
    OBVIOUS
  <2>4. k.op \in Changes \cup {"create", "list"}
    BY <1>a, <2>1 DEF CallOK
  <2>5. IsCall(j) /\ j.op = k.op /\ j.id = k.id
    BY <1>a, <2>3, ListFacts
  <2>6. CallOK(j)
    BY <2>4, <2>5 DEF CallOK
  <2>7. calls' = [calls EXCEPT ![s] = {j}] /\ entry' = entry
    BY <2>1, <2>2, <2>3
  <2> QED
    BY <2>5, <2>6, <2>7, CallGoesOn
<1> QED
  BY <1>1, <1>2, <1>3, <1>4, <1>5 DEF Serve

\* The buttons.
LEMMA ButtonStep ==
  ASSUME AdminInv, DrawnInv, NEW s \in Slots, Button(s)
  PROVE  AdminInv'
<1>1. ASSUME NEW op, NEW id, NEW arg, AskBackend(s, op, id, arg), entry' = entry
      PROVE  AdminInv'
  <2>1. CallsInv' /\ \A i \in Ids : Asked("older", i) => Asked("older", i)'
    BY <1>1, NewCallAsked DEF AdminInv
  <2> QED
    BY <1>1, <2>1 DEF AdminInv, EntryInv, NeverStuckLoading
<1>2. CASE SubmitRoom(s)
  BY <1>1, <1>2 DEF SubmitRoom, maps
<1>3. ASSUME NEW op, Press(s, op) PROVE AdminInv'
  BY <1>1, <1>3 DEF Press, maps
<1>4. ASSUME NEW c, RemoveComment(s, c) PROVE AdminInv'
  BY <1>1, <1>4 DEF RemoveComment, maps
<1>5. CASE LoadOlderComments(s)
  <2>1. PICK r \in rooms : \E e \in drawn[r.id] :
           /\ AskBackend(s, "older", r.id, e.nextCursor)
           /\ entry' = [entry EXCEPT ![r.id] = Pressed(e)]
    BY <1>5 DEF LoadOlderComments, Pressed
  <2>n. PICK e \in drawn[r.id] : /\ AskBackend(s, "older", r.id, e.nextCursor)
                                 /\ entry' = [entry EXCEPT ![r.id] = Pressed(e)]
    BY <2>1
  <2>2. /\ CallsInv' /\ Asked("older", r.id)'
        /\ \A i \in Ids : Asked("older", i) => Asked("older", i)'
    BY <2>n, NewCallAsked DEF AdminInv
  <2>3. r.id \in Ids => \A d \in Pressed(e) : IsEntry(d)
    BY EntryFacts DEF DrawnInv, Pressed
  <2>4. EntryInv'
    BY <2>n, <2>3 DEF AdminInv, EntryInv
  <2>5. \A i \in Ids : i # r.id => entry'[i] = entry[i]
    BY <2>n DEF AdminInv, EntryInv
  <2>6. NeverStuckLoading'
    BY <2>2, <2>5 DEF AdminInv, NeverStuckLoading
  <2> QED
    BY <2>2, <2>4, <2>6 DEF AdminInv
<1> QED
  BY <1>2, <1>3, <1>4, <1>5 DEF Button

\* The list of rooms arrives: the other calls go on, and an entry may go.
LEMMA ListedStep ==
  ASSUME AdminInv, NEW s \in Slots, Listed(s)
  PROVE  AdminInv'
<1> DEFINE Gone(k) == ~ \E q \in k.list, r \in rooms : q.id = r.id
<1>1. PICK k \in calls[s] :
         /\ k.at = "listed"
         /\ calls' = [r \in Slots |->
               IF r = s THEN {} ELSE {[j EXCEPT !.here = @ /\ ~ Gone(k)] : j \in calls[r]}]
         /\ entry' = IF k.op = "delete" THEN [entry EXCEPT ![k.id] = {}] ELSE entry
  BY DEF Listed
<1> DEFINE Kept(j) == [j EXCEPT !.here = @ /\ ~ Gone(k)]
<1>0. calls' = [r \in Slots |-> IF r = s THEN {} ELSE {Kept(j) : j \in calls[r]}]
  BY <1>1
<1> HIDE DEF Gone
<1>2. ASSUME NEW r \in Slots, NEW j \in calls[r]
      PROVE  CallOK(Kept(j)) /\ Kept(j).op = j.op /\ Kept(j).id = j.id
  <2>1. CallOK(j) /\ IsCall(j)
    BY DEF AdminInv, CallsInv, CallOK
  <2> QED
    BY <2>1, CallFacts DEF CallOK
<1>3. \A r \in Slots : calls'[r] = IF r = s THEN {} ELSE {Kept(j) : j \in calls[r]}
  BY <1>0
<1> HIDE DEF Kept
<1>4. CallsInv'
  <2>1. \A r \in Slots : \A p, q \in calls'[r] : p = q
    <3> SUFFICES ASSUME NEW r \in Slots, NEW p \in calls'[r], NEW q \in calls'[r] PROVE p = q
      OBVIOUS
    <3>1. PICK i \in calls[r] : p = Kept(i)
      BY <1>3
    <3>2. PICK j \in calls[r] : q = Kept(j)
      BY <1>3
    <3>3. i = j
      BY DEF AdminInv, CallsInv
    <3> QED
      BY <3>1, <3>2, <3>3
  <2>2. \A r \in Slots : \A p \in calls'[r] : CallOK(p)
    <3> SUFFICES ASSUME NEW r \in Slots, NEW p \in calls'[r] PROVE CallOK(p)
      OBVIOUS
    <3>1. PICK j \in calls[r] : p = Kept(j)
      BY <1>3
    <3> QED
      BY <1>2, <3>1
  <2>3. calls' = [r \in Slots |-> calls'[r]]
    BY <1>0
  <2> QED
    BY <2>1, <2>2, <2>3 DEF CallsInv, CallOK
<1>5. EntryInv' /\ \A i \in Ids : entry'[i] \subseteq entry[i]
  BY <1>1 DEF AdminInv, EntryInv
<1>6. ASSUME NEW i \in Ids, Asked("older", i) PROVE Asked("older", i)'
  <2>0. PICK t \in Slots : \E j \in calls[t] : j.op = "older" /\ j.id = i
    BY <1>6 DEF Asked
  <2>1. PICK j \in calls[t] : j.op = "older" /\ j.id = i
    BY <2>0
  <2>2. t # s
    <3>1. k.op # "older"
      BY <1>1 DEF AdminInv, CallsInv, CallOK, Changes
    <3> QED
      BY <2>1, <3>1 DEF AdminInv, CallsInv
  <2>3. Kept(j) \in calls'[t]
    BY <1>3, <2>2
  <2> QED
    BY <1>2, <2>1, <2>3 DEF Asked
<1>7. NeverStuckLoading'
  BY <1>5, <1>6 DEF AdminInv, NeverStuckLoading
<1> QED
  BY <1>4, <1>5, <1>7 DEF AdminInv

\* The other answers.
LEMMA ArriveStep ==
  ASSUME AdminInv, NEW s \in Slots, Arrive(s)
  PROVE  AdminInv'
<1>1. CASE ChangeAnswered(s)
  <2>1. PICK k \in calls[s] :
           /\ k.op \in Changes \cup {"create"} /\ entry' = entry
           /\ calls' = [calls EXCEPT ![s] =
                          {IF k.op \in {"title", "password"} THEN NewCall("list", 0, 0)
                           ELSE [k EXCEPT !.at = "refresh"]}]
    BY <1>1 DEF ChangeAnswered, Becomes, maps
  <2>2. CallOK([k EXCEPT !.at = "refresh"])
    <3>1. IsCall(k)
      BY DEF AdminInv, CallsInv, CallOK
    <3> QED
      BY <2>1, <3>1, CallFacts DEF CallOK
  <2>3. k.op # "older"
    BY <2>1 DEF Changes
  <2> QED
    BY <2>1, <2>2, <2>3, NewCallFacts, OtherGoesOn
<1>2. CASE CallBreaks(s)
  <2>1. PICK k \in calls[s] :
           /\ calls' = [calls EXCEPT ![s] = {}]
           /\ entry' = IF k.op # "older" THEN entry
                       ELSE [entry EXCEPT ![k.id] = {[e EXCEPT !.isLoadingOlder = FALSE] : e \in @}]
    BY <1>2 DEF CallBreaks, Ended
  <2>2. CASE k.op # "older"
    BY <2>1, <2>2, CallEnds
  <2>3. CASE k.op = "older"
    <3>1. CASE k.id \in Ids
      <4>1. ASSUME NEW e \in {[d EXCEPT !.isLoadingOlder = FALSE] : d \in entry[k.id]}
            PROVE  IsEntry(e) /\ e.isLoadingOlder = FALSE
        <5>1. PICK d \in entry[k.id] : e = [d EXCEPT !.isLoadingOlder = FALSE]
          OBVIOUS
        <5>2. IsEntry(d)
          BY <3>1 DEF AdminInv, EntryInv
        <5> QED
          BY <5>1, <5>2, EntryFacts
      <4> QED
        BY <2>1, <2>3, <4>1, OlderEnds
    <3>2. CASE k.id \notin Ids
      <4>1. entry' = [entry EXCEPT ![k.id] = {}]
        BY <2>1, <2>3, <3>2 DEF AdminInv, EntryInv
      <4> QED
        BY <2>1, <2>3, <4>1, OlderEnds
    <3> QED
      BY <3>1, <3>2
  <2> QED
    BY <2>2, <2>3
<1>3. CASE ClearFails(s) \/ TokenArrives(s)
  <2>1. PICK k \in calls[s] : /\ k.op \in {"clear", "ingest", "bypass"}
                              /\ calls' = [calls EXCEPT ![s] = {}] /\ entry' = entry
    BY <1>3 DEF ClearFails, TokenArrives, Ended, maps
  <2> QED
    BY <2>1, CallEnds
<1>4. CASE CommentsArrive(s)
  <2>1. PICK k \in calls[s] :
           /\ k.op = "load" /\ calls' = [calls EXCEPT ![s] = {}]
           /\ entry' = [entry EXCEPT ![k.id] = Entry(k.page, FALSE, k.next)]
    BY <1>4 DEF CommentsArrive, Ended
  <2>2. \A e \in Entry(k.page, FALSE, k.next) : IsEntry(e) /\ e.isLoadingOlder = FALSE
    BY EntryFacts
  <2> QED
    BY <2>1, <2>2, EntryReplaced
<1>5. CASE OlderCommentsArrive(s)
  <2>1. PICK k \in calls[s] :
           /\ k.op = "older" /\ calls' = [calls EXCEPT ![s] = {}]
           /\ \E f : /\ entry' = [entry EXCEPT ![k.id] = f]
                     /\ \A e \in f : IsEntry(e) /\ e.isLoadingOlder = FALSE
    <3>1. PICK k \in calls[s] :
             /\ k.op = "older" /\ calls' = [calls EXCEPT ![s] = {}]
             /\ entry' = [entry EXCEPT ![k.id] =
                            UNION {Entry(k.page \cup e.comments, FALSE, k.next) : e \in @}]
      BY <1>5 DEF OlderCommentsArrive, Ended
    <3> DEFINE g(e) == Entry(k.page \cup e.comments, FALSE, k.next)
               f == UNION {g(e) : e \in entry[k.id]}
    <3>2. \A e : \A d \in g(e) : IsEntry(d) /\ d.isLoadingOlder = FALSE
      BY EntryFacts
    <3>3. entry' = [entry EXCEPT ![k.id] = f]
      BY <3>1
    <3> HIDE DEF g
    <3>4. \A d \in f : IsEntry(d) /\ d.isLoadingOlder = FALSE
      BY <3>2
    <3> HIDE DEF f
    <3> QED
      BY <3>1, <3>3, <3>4
  <2> QED
    BY <2>1, OlderEnds
<1>6. CASE Removed(s)
  <2> DEFINE Left(k, e) == [e EXCEPT !.comments = @ \ {k.arg}]
  <2>1. PICK k \in calls[s] :
           /\ k.op = "remove" /\ calls' = [calls EXCEPT ![s] = {}]
           /\ entry' = [entry EXCEPT ![k.id] = IF @ = {} THEN Entry({}, FALSE, 0)
                                               ELSE {Left(k, e) : e \in @}]
    BY <1>6 DEF Removed, Ended
  <2>2. \A e : IsEntry(e) => /\ IsEntry(Left(k, e))
                              /\ Left(k, e).isLoadingOlder = e.isLoadingOlder
    BY DEF IsEntry
  <2>3. \A e \in Entry({}, FALSE, 0) : IsEntry(e) /\ e.isLoadingOlder = FALSE
    BY EntryFacts
  <2> HIDE DEF Left
  <2> DEFINE f == IF entry[k.id] = {} THEN Entry({}, FALSE, 0)
                  ELSE {Left(k, e) : e \in entry[k.id]}
  <2>4. entry' = [entry EXCEPT ![k.id] = f]
    BY <2>1
  <2>5. ASSUME k.id \in Ids, NEW d \in f
        PROVE  IsEntry(d) /\ (d.isLoadingOlder => \E e \in entry[k.id] : e.isLoadingOlder)
    <3>1. CASE entry[k.id] = {}
      BY <2>3, <3>1
    <3>2. CASE entry[k.id] # {}
      <4>1. PICK e \in entry[k.id] : d = Left(k, e)
        BY <3>2
      <4>2. IsEntry(e)
        BY <2>5 DEF AdminInv, EntryInv
      <4> QED
        BY <2>2, <4>1, <4>2
    <3> QED
      BY <3>1, <3>2
  <2> HIDE DEF f
  <2>6. k.op # "older"
    BY <2>1
  <2>7. CASE k.id \notin Ids
    <3>1. entry' = entry
      BY <2>4, <2>7 DEF AdminInv, EntryInv
    <3> QED
      BY <2>1, <2>6, <3>1, CallEnds
  <2> QED
    BY <2>1, <2>4, <2>5, <2>6, <2>7, EntryReplaced
<1> QED
  BY <1>1, <1>2, <1>3, <1>4, <1>5, <1>6, ListedStep DEF Arrive

LEMMA NextAdmin == AdminInv /\ DrawnInv /\ [AdminNext]_adminVars => AdminInv' /\ DrawnInv'
<1> SUFFICES ASSUME AdminInv, DrawnInv, [AdminNext]_adminVars PROVE AdminInv' /\ DrawnInv'
  OBVIOUS
<1>1. CASE StoreRoomComment \/ RoomExpires \/ RenderComments \/ UNCHANGED adminVars
  <2>1. calls' = calls /\ entry' = entry
    BY <1>1 DEF StoreRoomComment, RoomExpires, RenderComments, adminVars, maps
  <2>2. AdminInv'
    BY <2>1 DEF AdminInv, CallsInv, EntryInv, NeverStuckLoading, Asked
  <2> QED
    BY <2>2, NextDrawn DEF AdminInv
<1>2. DrawnInv'
  BY NextDrawn DEF AdminInv
<1> QED
  BY <1>1, <1>2, ServeStep, ButtonStep, ArriveStep DEF AdminNext

\* The button for older comments is never left disabled: over any order of reloads,
\* deletions, older pages and failures, an entry that is loading has its request.
THEOREM ButtonComesBack == AdminSpec => []NeverStuckLoading
<1>1. AdminInv => NeverStuckLoading
  BY DEF AdminInv
<1> QED
  BY <1>1, InitAdmin, NextAdmin, PTL DEF AdminSpec

\* The parts of AdminTypeOK, and what makes them inductive: the next cursor of an answer
\* is a comment, and a call that leaves a token is for a room that was made.
CallType(k) ==
    /\ k \in Call /\ k.next \in 0 .. MaxComments
    /\ k.op = "ingest" \/ (k.op = "create" /\ k.at # "sent") => k.id \in Ids

EntryType(e) ==
    e \in [comments : SUBSET CommentIds, isLoadingOlder : BOOLEAN, nextCursor : 0 .. MaxComments]

BackendType ==
    /\ room \in SUBSET RoomRecords /\ made \in 0 .. MaxRooms
    /\ roomComments \in SUBSET CommentIds /\ newest \in 0 .. MaxComments

PageType == rooms \in SUBSET RoomRecords /\ token \in SUBSET Ids /\ bypassUrl \in BOOLEAN

CallsType == \A s \in Slots : \A k \in calls[s] : CallType(k)

EntriesType == \A i \in Ids : \A e \in entry[i] : EntryType(e)

DrawnType == \A i \in Ids : \A e \in drawn[i] : EntryType(e)

AdminTypeInv ==
    AdminInv /\ DrawnInv /\ BackendType /\ PageType /\ CallsType /\ EntriesType /\ DrawnType

LEMMA AdminNumbers ==
  /\ MaxRooms \in Nat /\ MaxComments \in Nat /\ 0 \in 0 .. MaxComments
  /\ Ids \subseteq Nat /\ CommentIds \subseteq Nat /\ 0 \notin Ids
BY AdminRoomsAssumption, CommentPagesAssumption DEF Ids, CommentIds

LEMMA NewCallType ==
  ASSUME NEW op \in AdminOps, NEW id \in Ids \cup {0}, NEW arg \in Nat, op = "ingest" => id \in Ids
  PROVE  CallType(NewCall(op, id, arg))
<1> DEFINE here == op \in {"clear", "bypass"}
<1>1. here \in BOOLEAN
  OBVIOUS
<1>2. NewCall(op, id, arg) =
        [op |-> op, id |-> id, arg |-> arg, here |-> here, at |-> "sent", list |-> {},
         page |-> {}, next |-> 0]
  BY DEF NewCall
<1> HIDE DEF here
<1> QED
  BY <1>1, <1>2, AdminNumbers DEF CallType, Call

\* A page consists of comments, and so does its cursor.
LEMMA AnswerPageType ==
  ASSUME BackendType, NEW id, NEW c
  PROVE  PageBefore(id, c) \in SUBSET CommentIds
BY DEF BackendType, PageBefore

LEMMA CursorType ==
  ASSUME NEW page \in SUBSET CommentIds
  PROVE  NextCursorOf(page) \in 0 .. MaxComments
<1> DEFINE firsts == {c \in page : \A d \in page : c <= d}
<1>1. firsts \subseteq 0 .. MaxComments
  <2>1. \A c \in 1 .. MaxComments : c \in 0 .. MaxComments
    BY AdminNumbers
  <2> QED
    BY <2>1 DEF CommentIds
<1>2. (\E f \in firsts : TRUE) => (CHOOSE f \in firsts : TRUE) \in firsts
  OBVIOUS
<1>3. NextCursorOf(page) =
        IF \E c \in roomComments, f \in firsts : c < f THEN CHOOSE f \in firsts : TRUE ELSE 0
  BY DEF NextCursorOf
<1> HIDE DEF firsts
<1> QED
  BY <1>1, <1>2, <1>3, AdminNumbers

LEMMA InitAdminType == AdminInit => AdminTypeInv
<1> SUFFICES ASSUME AdminInit PROVE AdminTypeInv
  OBVIOUS
<1>1. PICK s \in Slots :
         calls = [r \in Slots |-> IF r = s THEN {NewCall("list", 0, 0)} ELSE {}]
  BY DEF AdminInit
<1>2. CallType(NewCall("list", 0, 0))
  BY NewCallType DEF AdminOps
<1>3. CallsType
  BY <1>1, <1>2 DEF CallsType
<1>4. BackendType
  <2>1. made \in 0 .. MaxRooms /\ newest \in 0 .. MaxComments
    BY AdminNumbers, AdminRoomsAssumption DEF AdminInit
  <2>2. \A i \in 1 .. made : [id |-> i, locked |-> FALSE] \in RoomRecords
    BY <2>1, AdminNumbers DEF RoomRecords, Ids
  <2>3. room \in SUBSET RoomRecords
    BY <2>2 DEF AdminInit
  <2>4. roomComments \in SUBSET CommentIds
    BY <2>1, AdminNumbers DEF AdminInit, CommentIds
  <2> QED
    BY <2>1, <2>3, <2>4 DEF BackendType
<1>5. PageType /\ EntriesType /\ DrawnType
  BY DEF AdminInit, PageType, EntriesType, DrawnType
<1> QED
  BY <1>3, <1>4, <1>5, InitAdmin DEF AdminTypeInv

LEMMA CallsKeepType ==
  ASSUME CallsInv, CallsType, NEW s \in Slots, NEW rest, calls' = [calls EXCEPT ![s] = rest],
         \A j \in rest : CallType(j)
  PROVE  CallsType'
<1>1. \A t \in Slots : calls'[t] = IF t = s THEN rest ELSE calls[t]
  BY DEF CallsInv
<1> QED
  BY <1>1 DEF CallsType, CallType

LEMMA CallKeepsType ==
  ASSUME CallsInv, CallsType, NEW s \in Slots, NEW j, CallType(j),
         calls' = [calls EXCEPT ![s] = {j}]
  PROVE  CallsType'
<1>1. \A i \in {j} : CallType(i)
  OBVIOUS
<1> DEFINE rest == {j}
<1>2. calls' = [calls EXCEPT ![s] = rest] /\ \A i \in rest : CallType(i)
  BY <1>1
<1> HIDE DEF rest
<1> QED
  BY <1>2, CallsKeepType

LEMMA EntryOfType ==
  /\ \A held \in SUBSET CommentIds, busy \in BOOLEAN, next \in 0 .. MaxComments :
        \A e \in Entry(held, busy, next) : EntryType(e)
  /\ \A e : EntryType(e) => \A busy \in BOOLEAN : EntryType([e EXCEPT !.isLoadingOlder = busy])
BY DEF Entry, EntryType

LEMMA EntryLoads ==
  \A e : EntryType(e) => /\ EntryType([e EXCEPT !.isLoadingOlder = TRUE])
                        /\ EntryType([e EXCEPT !.isLoadingOlder = FALSE])
<1>1. TRUE \in BOOLEAN /\ FALSE \in BOOLEAN
  OBVIOUS
<1> QED
  BY <1>1, EntryOfType, Zenon

LEMMA EntriesKeepType ==
  ASSUME EntryInv, EntriesType, NEW i, NEW f, entry' = [entry EXCEPT ![i] = f],
         i \in Ids => \A e \in f : EntryType(e)
  PROVE  EntriesType'
<1>1. \A h \in Ids : entry'[h] = IF h = i THEN f ELSE entry[h]
  BY DEF EntryInv
<1> QED
  BY <1>1 DEF EntriesType, EntryType

LEMMA NextDrawnType ==
  ASSUME AdminTypeInv, [AdminNext]_adminVars
  PROVE  DrawnType'
<1>1. CASE drawn' = drawn \/ drawn' = entry
  BY <1>1 DEF AdminTypeInv, EntriesType, DrawnType
<1>2. ASSUME NEW r \in rooms, NEW e \in drawn[r.id], drawn' = [drawn EXCEPT ![r.id] = Pressed(e)]
      PROVE  DrawnType'
  <2>1. r.id \in Ids /\ EntryType(e)
    BY DEF AdminTypeInv, PageType, RoomRecords, DrawnType
  <2>2. EntryType([e EXCEPT !.isLoadingOlder = TRUE])
    BY <2>1, EntryLoads, Zenon
  <2>3. \A d \in Pressed(e) : EntryType(d)
    BY <2>2 DEF Pressed
  <2>4. \A h \in Ids : drawn'[h] = IF h = r.id THEN Pressed(e) ELSE drawn[h]
    BY <1>2 DEF AdminTypeInv, DrawnInv
  <2> QED
    BY <2>3, <2>4 DEF AdminTypeInv, DrawnType, EntryType
<1> QED
  BY <1>1, <1>2, DrawnStep

\* The answers of the backend.
LEMMA ServeType ==
  ASSUME AdminTypeInv, NEW s \in Slots, Serve(s)
  PROVE  BackendType' /\ PageType' /\ CallsType' /\ EntriesType'
<1>a. /\ \A k \in calls[s] : CallType(k) /\ k \in Call
      /\ CallsInv /\ CallsType /\ BackendType
  BY DEF AdminTypeInv, AdminInv, CallsType, CallType
<1>b. ASSUME UNCHANGED <<maps, bypassUrl>> PROVE PageType' /\ EntriesType'
  BY <1>b DEF maps, AdminTypeInv, PageType, EntriesType
<1>c. ASSUME UNCHANGED backend PROVE BackendType'
  BY <1>a, <1>c DEF backend, BackendType
<1>1. CASE ServeChange(s)
  <2>1. PICK k \in calls[s], r \in room :
           /\ k.op \in Changes /\ room' = Changed(k.op, r)
           /\ roomComments' = IF k.op = "delete" THEN {} ELSE roomComments
           /\ calls' = [calls EXCEPT ![s] = {Served(k)}]
           /\ UNCHANGED <<made, newest, maps, bypassUrl>>
    BY <1>1 DEF ServeChange, Becomes
  <2>2. CallType(Served(k))
    <3>1. k.op # "create" /\ CallType(k)
      BY <1>a, <2>1 DEF Changes
    <3> QED
      BY <3>1 DEF CallType, Call, Served
  <2>3. room' \in SUBSET RoomRecords
    <3>1. r \in RoomRecords
      BY <1>a DEF BackendType
    <3>2. \A locked \in BOOLEAN : [r EXCEPT !.locked = locked] \in RoomRecords
      BY <3>1 DEF RoomRecords
    <3>3. \E locked \in BOOLEAN : Changed(k.op, r) \in {{r}, {}, {[r EXCEPT !.locked = locked]}}
      <4> DEFINE locked == k.op = "password"
      <4>1. locked \in BOOLEAN
        OBVIOUS
      <4>2. Changed(k.op, r) \in {{r}, {}, {[r EXCEPT !.locked = locked]}}
        BY <2>1, Zenon DEF Changed, Changes
      <4> HIDE DEF locked
      <4> QED
        BY <4>1, <4>2, Zenon
    <3> QED
      BY <2>1, <3>1, <3>2, <3>3
  <2>4. BackendType'
    BY <1>a, <2>1, <2>3 DEF BackendType
  <2> QED
    BY <1>a, <1>b, <2>1, <2>2, <2>4, CallsKeepType
<1>2. CASE ServeCreate(s)
  <2> DEFINE id == made + 1
  <2>1. PICK k \in calls[s] :
           /\ made < MaxRooms /\ made' = id /\ room' = {[id |-> id, locked |-> FALSE]}
           /\ calls' = [calls EXCEPT ![s] = {[Served(k) EXCEPT !.id = id]}]
           /\ UNCHANGED <<roomComments, newest, maps, bypassUrl>>
    BY <1>2 DEF ServeCreate, Becomes
  <2>2. id \in Ids /\ id \in 0 .. MaxRooms
    BY <1>a, <2>1, AdminNumbers DEF BackendType, Ids
  <2> HIDE DEF id
  <2>3. CallType([Served(k) EXCEPT !.id = id])
    <3>1. CallType(k)
      BY <1>a
    <3> QED
      BY <2>2, <3>1 DEF CallType, Call, Served
  <2>4. BackendType'
    BY <1>a, <2>1, <2>2 DEF BackendType, RoomRecords
  <2>5. CallsType'
    BY <1>a, <2>1, <2>3, CallKeepsType
  <2> QED
    BY <1>b, <2>1, <2>4, <2>5
<1>3. CASE ServeIssue(s) \/ ServeRemove(s)
  <2>1. PICK k \in calls[s] :
           /\ k.op # "create" /\ calls' = [calls EXCEPT ![s] = {Served(k)}]
           /\ roomComments' \subseteq roomComments
           /\ UNCHANGED <<room, made, newest, maps, bypassUrl>>
    BY <1>3 DEF ServeIssue, ServeRemove, Becomes, Issues, backend
  <2>2. CallType(Served(k))
    <3>1. CallType(k)
      BY <1>a
    <3> QED
      BY <2>1, <3>1 DEF CallType, Call, Served
  <2>3. BackendType'
    BY <1>a, <2>1 DEF BackendType
  <2>4. CallsType'
    BY <1>a, <2>1, <2>2, CallKeepsType
  <2> QED
    BY <1>b, <2>1, <2>3, <2>4
<1>4. ASSUME NEW ok \in BOOLEAN, ServePage(s, ok)
      PROVE  BackendType' /\ PageType' /\ CallsType' /\ EntriesType'
  <2> DEFINE page(k) == IF ok THEN PageBefore(k.id, k.arg) ELSE {}
             next(k) == NextCursorOf(page(k))
  <2>1. PICK k \in calls[s] :
           /\ k.op \in {"load", "older"}
           /\ calls' = [calls EXCEPT ![s] = {WithPage(Served(k), page(k), next(k))}]
           /\ UNCHANGED <<backend, maps, bypassUrl>>
    BY <1>4 DEF ServePage, Becomes, WithPage
  <2>2. page(k) \in SUBSET CommentIds
    BY <1>a, AnswerPageType
  <2>3. next(k) \in 0 .. MaxComments
    <3> HIDE DEF page
    <3> QED
      BY <2>2, CursorType
  <2> HIDE DEF page, next
  <2>4. CallType(WithPage(Served(k), page(k), next(k)))
    <3>1. CallType(k) /\ k.op # "create"
      BY <1>a, <2>1
    <3>2. CallType(Served(k)) /\ Served(k).op = k.op
      BY <3>1 DEF CallType, Call, Served
    <3>3. next(k) \in Nat
      BY <2>3, AdminNumbers
    <3> QED
      BY <2>1, <2>2, <2>3, <3>2, <3>3 DEF CallType, Call, WithPage
  <2> QED
    BY <1>a, <1>b, <1>c, <2>1, <2>4, CallsKeepType
<1>5. ASSUME NEW ok \in BOOLEAN, ServeList(s, ok)
      PROVE  BackendType' /\ PageType' /\ CallsType' /\ EntriesType'
  <2> DEFINE listed == IF ok THEN room ELSE {}
  <2>1. PICK k \in calls[s] :
           /\ k.at = "refresh" \/ k.op = "list"
           /\ calls' = [calls EXCEPT ![s] = {WithList(k, listed)}]
           /\ UNCHANGED <<backend, maps, bypassUrl>>
    BY <1>5 DEF ServeList, Becomes, WithList
  <2>2. listed \in SUBSET RoomRecords
    BY <1>a DEF BackendType
  <2> HIDE DEF listed
  <2>3. CallType(WithList(k, listed))
    <3>1. CallType(k)
      BY <1>a
    <3> QED
      BY <2>1, <2>2, <3>1 DEF CallType, Call, WithList
  <2>4. CallsType'
    BY <1>a, <2>1, <2>3, CallKeepsType
  <2> QED
    BY <1>b, <1>c, <2>1, <2>4
<1> QED
  BY <1>1, <1>2, <1>3, <1>4, <1>5 DEF Serve

\* The buttons.
LEMMA ButtonType ==
  ASSUME AdminTypeInv, NEW s \in Slots, Button(s)
  PROVE  BackendType' /\ PageType' /\ CallsType' /\ EntriesType'
<1>a. /\ CallsInv /\ CallsType /\ EntryInv /\ EntriesType /\ DrawnType
      /\ BackendType /\ PageType
  BY DEF AdminTypeInv, AdminInv
<1>b. \A r \in rooms : r.id \in Ids
  BY <1>a DEF PageType, RoomRecords
<1>1. ASSUME UNCHANGED <<backend, rooms, token, bypassUrl>> PROVE BackendType' /\ PageType'
  BY <1>a, <1>1 DEF backend, BackendType, PageType
<1>2. ASSUME NEW op \in AdminOps, NEW id \in Ids \cup {0}, NEW arg \in Nat,
             op = "ingest" => id \in Ids, AskBackend(s, op, id, arg)
      PROVE  CallsType'
  <2>1. calls' = [calls EXCEPT ![s] = {NewCall(op, id, arg)}]
    BY <1>2 DEF AskBackend
  <2>2. CallType(NewCall(op, id, arg))
    BY <1>2, NewCallType
  <2> QED
    BY <1>a, <2>1, <2>2, CallsKeepType
<1>3. ASSUME UNCHANGED <<backend, maps, bypassUrl>>, CallsType'
      PROVE  BackendType' /\ PageType' /\ CallsType' /\ EntriesType'
  BY <1>a, <1>1, <1>3 DEF maps, EntriesType
<1>4. CASE SubmitRoom(s)
  BY <1>2, <1>3, <1>4 DEF SubmitRoom, AdminOps
<1>5. ASSUME NEW op \in {"title", "delete", "password", "clear", "ingest", "bypass", "load"},
             Press(s, op)
      PROVE  BackendType' /\ PageType' /\ CallsType' /\ EntriesType'
  <2>1. op \in AdminOps
    BY DEF AdminOps, Changes, Issues
  <2>2. PICK r \in rooms : AskBackend(s, op, r.id, 0)
    BY <1>5 DEF Press
  <2>3. CallsType'
    BY <1>b, <1>2, <2>1, <2>2
  <2> QED
    BY <1>3, <1>5, <2>3 DEF Press
<1>6. ASSUME NEW c \in CommentIds, RemoveComment(s, c)
      PROVE  BackendType' /\ PageType' /\ CallsType' /\ EntriesType'
  <2>1. "remove" \in AdminOps /\ c \in Nat
    BY AdminNumbers DEF AdminOps
  <2>2. PICK r \in rooms : AskBackend(s, "remove", r.id, c)
    BY <1>6 DEF RemoveComment
  <2>3. CallsType'
    BY <1>b, <1>2, <2>1, <2>2
  <2> QED
    BY <1>3, <1>6, <2>3 DEF RemoveComment
<1>7. CASE LoadOlderComments(s)
  <2>n. PICK r \in rooms : \E e \in drawn[r.id] :
           /\ AskBackend(s, "older", r.id, e.nextCursor)
           /\ entry' = [entry EXCEPT ![r.id] = {[e EXCEPT !.isLoadingOlder = TRUE]}]
           /\ UNCHANGED <<backend, rooms, token, bypassUrl>>
    BY <1>7 DEF LoadOlderComments
  <2>1. PICK e \in drawn[r.id] :
           /\ AskBackend(s, "older", r.id, e.nextCursor)
           /\ entry' = [entry EXCEPT ![r.id] = {[e EXCEPT !.isLoadingOlder = TRUE]}]
           /\ UNCHANGED <<backend, rooms, token, bypassUrl>>
    BY <2>n
  <2>2. EntryType(e)
    BY <1>a, <1>b DEF DrawnType
  <2>3. EntryType([e EXCEPT !.isLoadingOlder = TRUE]) /\ e.nextCursor \in Nat
    <3>1. EntryType([e EXCEPT !.isLoadingOlder = TRUE])
      BY <2>2, EntryLoads, Zenon
    <3>2. e.nextCursor \in 0 .. MaxComments
      BY <2>2 DEF EntryType
    <3> QED
      BY <3>1, <3>2
  <2>4. EntriesType'
    BY <1>a, <2>1, <2>3, EntriesKeepType
  <2>5. CallsType'
    BY <1>b, <1>2, <2>1, <2>3 DEF AdminOps
  <2> QED
    BY <1>1, <2>1, <2>4, <2>5
<1> QED
  BY <1>4, <1>5, <1>6, <1>7 DEF Button

\* The answers.
LEMMA ArriveType ==
  ASSUME AdminTypeInv, NEW s \in Slots, Arrive(s)
  PROVE  BackendType' /\ PageType' /\ CallsType' /\ EntriesType'
<1>a. /\ \A k \in calls[s] : CallType(k) /\ k \in Call
      /\ CallsInv /\ CallsType /\ EntryInv /\ EntriesType /\ BackendType /\ PageType
  BY DEF AdminTypeInv, AdminInv, CallsType, CallType
<1>b. UNCHANGED backend => BackendType'
  BY <1>a DEF backend, BackendType
<1>c. calls' = [calls EXCEPT ![s] = {}] => CallsType'
  BY <1>a, CallsKeepType
<1>d. UNCHANGED <<rooms, token, bypassUrl>> => PageType'
  BY <1>a DEF PageType
<1>e. entry' = entry => EntriesType'
  BY <1>a DEF EntriesType
<1>1. CASE ChangeAnswered(s)
  <2>1. PICK k \in calls[s] :
           /\ k.at = "answered"
           /\ calls' = [calls EXCEPT ![s] =
                          {IF k.op \in {"title", "password"} THEN NewCall("list", 0, 0)
                           ELSE [k EXCEPT !.at = "refresh"]}]
           /\ UNCHANGED <<backend, maps, bypassUrl>>
    BY <1>1 DEF ChangeAnswered, Becomes
  <2>2. CallType(NewCall("list", 0, 0))
    BY NewCallType DEF AdminOps
  <2>3. CallType([k EXCEPT !.at = "refresh"])
    <3>1. CallType(k)
      BY <1>a
    <3> QED
      BY <2>1, <3>1 DEF CallType, Call
  <2> DEFINE j == IF k.op \in {"title", "password"} THEN NewCall("list", 0, 0)
                  ELSE [k EXCEPT !.at = "refresh"]
  <2>4. CallsType'
    <3>1. CallType(j) /\ calls' = [calls EXCEPT ![s] = {j}]
      BY <2>1, <2>2, <2>3
    <3> HIDE DEF j
    <3> QED
      BY <1>a, <3>1, CallKeepsType
  <2> QED
    BY <1>b, <1>d, <1>e, <2>1, <2>4 DEF maps
<1>2. CASE CallBreaks(s)
  <2>1. PICK k \in calls[s] :
           /\ calls' = [calls EXCEPT ![s] = {}]
           /\ entry' = IF k.op # "older" THEN entry
                       ELSE [entry EXCEPT ![k.id] = {[e EXCEPT !.isLoadingOlder = FALSE] : e \in @}]
           /\ UNCHANGED <<backend, rooms, token, bypassUrl>>
    BY <1>2 DEF CallBreaks, Ended
  <2>2. CASE k.op = "older"
    <3> DEFINE f == {[e EXCEPT !.isLoadingOlder = FALSE] : e \in entry[k.id]}
    <3>1. \A e : EntryType(e) => EntryType([e EXCEPT !.isLoadingOlder = FALSE])
      BY EntryLoads, Zenon
    <3>2. k.id \in Ids => \A e \in f : EntryType(e)
      BY <1>a, <3>1 DEF EntriesType
    <3>3. entry' = [entry EXCEPT ![k.id] = f]
      BY <2>1, <2>2
    <3> HIDE DEF f
    <3>4. EntriesType'
      BY <1>a, <3>2, <3>3, EntriesKeepType
    <3> QED
      BY <1>b, <1>c, <1>d, <2>1, <3>4
  <2> QED
    BY <1>b, <1>c, <1>d, <1>e, <2>1, <2>2
<1>3. CASE Listed(s)
  <2> DEFINE Gone(k) == ~ \E q \in k.list, r \in rooms : q.id = r.id
             Kept(k, j) == [j EXCEPT !.here = @ /\ ~ Gone(k)]
  <2>1. PICK k \in calls[s] :
           /\ k.at = "listed" /\ rooms' = k.list
           /\ calls' = [r \in Slots |-> IF r = s THEN {} ELSE {Kept(k, j) : j \in calls[r]}]
           /\ token' = CASE k.op = "create" -> token \cup {k.id}
                         [] k.op = "delete" -> token \ {k.id}
                         [] OTHER -> token
           /\ entry' = IF k.op = "delete" THEN [entry EXCEPT ![k.id] = {}] ELSE entry
           /\ bypassUrl' = (bypassUrl /\ ~ Gone(k) /\ ~ (k.op = "clear" /\ k.here))
           /\ UNCHANGED backend
    BY <1>3 DEF Listed
  <2>2. CallType(k) /\ k \in Call
    BY <1>a
  <2>3. PageType'
    <3>1. rooms' \in SUBSET RoomRecords
      BY <2>1, <2>2 DEF Call
    <3>2. token' \in SUBSET Ids
      <4>1. k.op = "create" => k.id \in Ids
        BY <2>1, <2>2 DEF CallType
      <4>2. token' \in {token \cup {k.id}, token \ {k.id}, token}
            /\ (k.op # "create" => token' \in {token \ {k.id}, token})
        BY <2>1
      <4> QED
        BY <1>a, <4>1, <4>2 DEF PageType
    <3>3. bypassUrl' \in BOOLEAN
      BY <2>1
    <3> QED
      BY <3>1, <3>2, <3>3 DEF PageType
  <2>4. EntriesType'
    <3>1. CASE k.op = "delete"
      <4>1. entry' = [entry EXCEPT ![k.id] = {}]
        BY <2>1, <3>1
      <4> QED
        BY <1>a, <4>1, EntriesKeepType
    <3> QED
      BY <1>e, <2>1, <3>1
  <2>5. ASSUME NEW r \in Slots, NEW p \in calls'[r] PROVE CallType(p)
    <3>1. calls'[r] = IF r = s THEN {} ELSE {Kept(k, j) : j \in calls[r]}
      BY <2>1
    <3> HIDE DEF Kept
    <3>2. PICK j \in calls[r] : p = Kept(k, j)
      BY <2>5, <3>1
    <3>3. CallType(j) /\ j \in Call
      BY <1>a DEF CallsType, CallType
    <3> DEFINE here == j.here /\ ~ Gone(k)
    <3>4. here \in BOOLEAN
      OBVIOUS
    <3>5. p = [j EXCEPT !.here = here]
      BY <3>2, Zenon DEF Kept
    <3> HIDE DEF here
    <3> QED
      BY <3>3, <3>4, <3>5 DEF CallType, Call
  <2>6. CallsType'
    BY <2>5 DEF CallsType, CallType
  <2> QED
    BY <1>b, <2>1, <2>3, <2>4, <2>6
<1>4. CASE ClearFails(s)
  BY <1>a, <1>b, <1>c, <1>e, <1>4 DEF ClearFails, Ended, maps, PageType
<1>5. CASE TokenArrives(s)
  <2>1. PICK k \in calls[s] :
           /\ calls' = [calls EXCEPT ![s] = {}]
           /\ token' = IF k.op = "ingest" THEN token \cup {k.id} ELSE token
           /\ bypassUrl' = (bypassUrl \/ (k.op = "bypass" /\ k.here))
           /\ UNCHANGED <<backend, rooms, entry>>
    BY <1>5 DEF TokenArrives, Ended
  <2>2. k.op = "ingest" => k.id \in Ids
    BY <1>a DEF CallType
  <2>3. token' \in SUBSET Ids
    BY <1>a, <2>1, <2>2 DEF PageType
  <2>4. bypassUrl' \in BOOLEAN
    BY <2>1
  <2>5. PageType'
    BY <1>a, <2>1, <2>3, <2>4 DEF PageType
  <2> QED
    BY <1>b, <1>c, <1>e, <2>1, <2>5
\* The other answers are for an entry.
<1>6. ASSUME NEW i, NEW f, entry' = [entry EXCEPT ![i] = f], i \in Ids => \A e \in f : EntryType(e),
             calls' = [calls EXCEPT ![s] = {}], UNCHANGED <<backend, rooms, token, bypassUrl>>
      PROVE  BackendType' /\ PageType' /\ CallsType' /\ EntriesType'
  <2>1. EntriesType'
    BY <1>a, <1>6, EntriesKeepType
  <2> QED
    BY <1>b, <1>c, <1>d, <1>6, <2>1
<1>7. \A held \in SUBSET CommentIds, next \in 0 .. MaxComments :
         \A e \in Entry(held, FALSE, next) : EntryType(e)
  BY EntryOfType
<1>8. CASE CommentsArrive(s)
  <2>1. PICK k \in calls[s] :
           /\ calls' = [calls EXCEPT ![s] = {}]
           /\ entry' = [entry EXCEPT ![k.id] = Entry(k.page, FALSE, k.next)]
           /\ UNCHANGED <<backend, rooms, token, bypassUrl>>
    BY <1>8 DEF CommentsArrive, Ended
  <2>2. k.page \in SUBSET CommentIds /\ k.next \in 0 .. MaxComments
    BY <1>a DEF CallType, Call
  <2> QED
    BY <1>6, <1>7, <2>1, <2>2
<1>9. CASE OlderCommentsArrive(s)
  <2> DEFINE Grown(k, e) == Entry(k.page \cup e.comments, FALSE, k.next)
             f(k) == UNION {Grown(k, e) : e \in entry[k.id]}
  <2>1. PICK k \in calls[s] :
           /\ calls' = [calls EXCEPT ![s] = {}]
           /\ entry' = [entry EXCEPT ![k.id] = f(k)]
           /\ UNCHANGED <<backend, rooms, token, bypassUrl>>
    BY <1>9 DEF OlderCommentsArrive, Ended
  <2>2. k.page \in SUBSET CommentIds /\ k.next \in 0 .. MaxComments
    BY <1>a DEF CallType, Call
  <2>3. ASSUME k.id \in Ids, NEW d \in f(k) PROVE EntryType(d)
    <3> HIDE DEF Grown
    <3>1. PICK e \in entry[k.id] : d \in Grown(k, e)
      BY <2>3
    <3>2. e.comments \in SUBSET CommentIds
      BY <1>a, <2>3 DEF EntriesType, EntryType
    <3> QED
      BY <1>7, <2>2, <3>1, <3>2 DEF Grown
  <2> HIDE DEF f
  <2> QED
    BY <1>6, <2>1, <2>3
<1>10. CASE Removed(s)
  <2> DEFINE Left(k, e) == [e EXCEPT !.comments = @ \ {k.arg}]
             f(k) == IF entry[k.id] = {} THEN Entry({}, FALSE, 0)
                     ELSE {Left(k, e) : e \in entry[k.id]}
  <2>1. PICK k \in calls[s] :
           /\ calls' = [calls EXCEPT ![s] = {}]
           /\ entry' = [entry EXCEPT ![k.id] = f(k)]
           /\ UNCHANGED <<backend, rooms, token, bypassUrl>>
    BY <1>10 DEF Removed, Ended
  <2>2. \A e : EntryType(e) => EntryType(Left(k, e))
    BY DEF EntryType
  <2>3. ASSUME k.id \in Ids, NEW d \in f(k) PROVE EntryType(d)
    <3> HIDE DEF Left
    <3>1. CASE entry[k.id] = {}
      BY <1>7, <2>3, <3>1, AdminNumbers
    <3>2. CASE entry[k.id] # {}
      BY <1>a, <2>2, <2>3, <3>2 DEF EntriesType
    <3> QED
      BY <3>1, <3>2
  <2> HIDE DEF f
  <2> QED
    BY <1>6, <2>1, <2>3
<1> QED
  BY <1>1, <1>2, <1>3, <1>4, <1>5, <1>8, <1>9, <1>10 DEF Arrive

LEMMA NextAdminType == AdminTypeInv /\ [AdminNext]_adminVars => AdminTypeInv'
<1> SUFFICES ASSUME AdminTypeInv, [AdminNext]_adminVars PROVE AdminTypeInv'
  OBVIOUS
<1>1. AdminInv' /\ DrawnInv' /\ DrawnType'
  BY NextAdmin, NextDrawnType DEF AdminTypeInv
<1>2. CASE StoreRoomComment \/ RoomExpires
  <2>1. /\ UNCHANGED <<made, calls, maps, bypassUrl>> /\ room' \in {room, {}}
        /\ \/ newest' = newest /\ roomComments' = {}
           \/ /\ newest < MaxComments /\ newest' = newest + 1
              /\ roomComments' = roomComments \cup {newest'}
    BY <1>2 DEF StoreRoomComment, RoomExpires
  <2>2. BackendType'
    <3>1. BackendType /\ room' \in SUBSET RoomRecords
      BY <2>1 DEF AdminTypeInv, BackendType
    <3>2. newest' \in 0 .. MaxComments /\ roomComments' \in SUBSET CommentIds
      <4>1. CASE newest' = newest /\ roomComments' = {}
        BY <3>1, <4>1 DEF BackendType
      <4>2. CASE /\ newest < MaxComments /\ newest' = newest + 1
                 /\ roomComments' = roomComments \cup {newest'}
        <5>1. newest' \in 1 .. MaxComments /\ newest' \in 0 .. MaxComments
          BY <3>1, <4>2, AdminNumbers DEF BackendType
        <5> QED
          BY <3>1, <4>2, <5>1 DEF BackendType, CommentIds
      <4> QED
        BY <2>1, <4>1, <4>2
    <3> QED
      BY <2>1, <3>1, <3>2 DEF BackendType
  <2> QED
    BY <1>1, <2>1, <2>2 DEF AdminTypeInv, PageType, CallsType, EntriesType, maps
<1>3. CASE UNCHANGED adminVars
  BY <1>1, <1>3 DEF adminVars, backend, maps, AdminTypeInv, BackendType, PageType, CallsType,
                    EntriesType
<1>4. CASE RenderComments
  <2>1. entry' = entry /\ UNCHANGED <<backend, calls, rooms, token, bypassUrl>>
    BY <1>4 DEF RenderComments
  <2> QED
    BY <1>1, <2>1 DEF backend, AdminTypeInv, BackendType, PageType, CallsType, EntriesType
<1> QED
  BY <1>1, <1>2, <1>3, <1>4, ServeType, ButtonType, ArriveType DEF AdminNext, AdminTypeInv

\* The rooms, calls and entries of the page have their types, with one call per slot, for
\* any number of calls under way.
THEOREM AdminTypeCorrect == AdminSpec => []AdminTypeOK
<1>1. AdminTypeInv => AdminTypeOK
  <2> SUFFICES ASSUME AdminTypeInv PROVE AdminTypeOK
    OBVIOUS
  <2>1. ASSUME NEW s \in Slots PROVE calls[s] \subseteq Call /\ Cardinality(calls[s]) <= 1
    <3>1. calls[s] \subseteq Call /\ \A k, j \in calls[s] : k = j
      BY DEF AdminTypeInv, AdminInv, CallsInv, CallsType, CallType
    <3>2. calls[s] = {} \/ \E k : calls[s] = {k}
      BY <3>1
    <3>3. Cardinality({}) = 0 /\ \A k : Cardinality({k}) = 1
      BY FS_EmptySet, FS_Singleton
    <3>4. Cardinality(calls[s]) \in {0, 1}
      BY <3>2, <3>3
    <3> QED
      BY <3>1, <3>4
  <2>2. \A i \in Ids : \A e \in entry[i] \cup drawn[i] :
           /\ e.comments \subseteq CommentIds
           /\ e.isLoadingOlder \in BOOLEAN /\ e.nextCursor \in 0 .. MaxComments
    BY DEF AdminTypeInv, EntriesType, DrawnType, EntryType
  <2> QED
    BY <2>1, <2>2 DEF AdminTypeInv, BackendType, PageType, AdminTypeOK
<1> QED
  BY <1>1, InitAdminType, NextAdminType, PTL DEF AdminSpec

-----------------------------------------------------------------------------
(* The rooms, the names, the tokens and the owner's page side by side       *)

APart == part \in {"rooms", "profile", "access", "admin"}

\* Every step is a step of each part or leaves it alone.
LEMMA BackendStep ==
  [BackendNext]_backendVars =>
     /\ [Next]_vars
     /\ [ProfilesNext]_profileVars
     /\ [AccessNext]_accessVars
     /\ [AdminNext]_adminVars
<1> SUFFICES ASSUME [BackendNext]_backendVars
             PROVE  /\ [Next]_vars
                    /\ [ProfilesNext]_profileVars
                    /\ [AccessNext]_accessVars
                    /\ [AdminNext]_adminVars
  OBVIOUS
<1>1. CASE UNCHANGED backendVars
  BY <1>1 DEF backendVars
<1>2. CASE Next /\ UNCHANGED <<profileVars, accessVars, adminVars>>
  BY <1>2
<1>3. CASE ProfilesNext /\ UNCHANGED <<vars, accessVars, adminVars>>
  BY <1>3
<1>4. CASE AccessNext /\ UNCHANGED <<vars, profileVars, adminVars>>
  BY <1>4
<1>5. CASE AdminNext /\ UNCHANGED <<vars, profileVars, accessVars>>
  BY <1>5
<1> QED
  BY <1>1, <1>2, <1>3, <1>4, <1>5 DEF BackendNext

\* Every part keeps its types in the run that starts the four and moves one.
THEOREM BackendTypeCorrect == BackendSpec => []BackendTypeOK
<1>1. BackendSpec => Spec /\ ProfilesSpec /\ AccessSpec /\ AdminSpec
  <2>1. BackendInit => Init /\ ProfilesInit /\ AccessInit /\ AdminInit
    BY DEF BackendInit
  <2> QED
    BY <2>1, BackendStep, PTL DEF BackendSpec, Spec, ProfilesSpec, AccessSpec, AdminSpec
<1>2. BackendSpec => []APart
  <2>1. BackendInit => APart
    BY DEF BackendInit, APart
  <2>2. APart /\ [BackendNext]_backendVars => APart'
    BY DEF BackendNext, APart, backendVars
  <2> QED
    BY <2>1, <2>2, PTL DEF BackendSpec
<1>3. APart /\ TypeOK /\ ProfilesTypeOK /\ AccessTypeOK /\ AdminTypeOK => BackendTypeOK
  BY DEF APart, BackendTypeOK
<1> QED
  BY <1>1, <1>2, <1>3, TypeCorrect, ProfilesTypeCorrect, AccessTypeCorrect, AdminTypeCorrect, PTL
=============================================================================
