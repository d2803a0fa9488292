------------------------------ MODULE RoomAccess ----------------------------
(***************************************************************************)
(* The password, the bypass token and the ingest token of one room         *)
(* (backend/internal/httpapi/room_handlers.go, stream_access.go,           *)
(* internal/roomauth and internal/ingestauth): the owner sets, rotates and *)
(* removes them in several requests at a time, while viewers ask for the   *)
(* stream and encoders publish it.                                         *)
(*                                                                         *)
(* A token is random: it is a number of its own, and nobody has it before  *)
(* the answer that carries it.  A hash stands for what it is made of.      *)
(***************************************************************************)
EXTENDS Naturals, Sequences

CONSTANTS
    Handlers,       \* requests under way
    Passwords,
    MaxIssued       \* bound: tokens made

\* A room starts with its ingest token.
ASSUME RoomAccessAssumption == MaxIssued \in Nat \ {0}

NoToken == 0        \* an empty hash
Tokens == 1 .. MaxIssued

VARIABLES
    password,       \* password_salt_and_hash, in a set that may be empty
    bypass,         \* bypass_token_hash
    ingest,         \* ingest_token_hash
    issued,         \* the kinds of the tokens made so far
    told,           \* tokens whose answer has been written
    void,           \* tokens the owner has been told to be replaced or removed
    handler         \* the requests

row == <<password, bypass, ingest>>
tokens == <<issued, told, void>>
accessVars == <<row, tokens, handler>>

Ops == {"setPassword", "clear", "bypass", "ingest", "access", "whip"}

\* before is what the owner could have been given, and wasVoid what was void, when the
\* request began; token is the one it made, or the one that opened the room.
NoRequest == [op |-> "none", at |-> "idle", token |-> NoToken, before |-> {}, wasVoid |-> {}]

\* The room was made with its first ingest token.
AccessInit ==
    /\ password = {} /\ bypass = NoToken /\ ingest = 1
    /\ issued = <<"ingest">> /\ told = {1} /\ void = {}
    /\ handler = [r \in Handlers |-> NoRequest]

Sent(r, op) == handler[r].op = op /\ handler[r].at = "sent"
Goes(r, at, token) == handler' = [handler EXCEPT ![r].at = at, ![r].token = token]

\* The answer to r says that the earlier tokens of a kind are void.
Voided(r, kind) == void \cup {t \in handler[r].before : issued[t] = kind}

-----------------------------------------------------------------------------
BeginRequest(r, op) ==
    /\ handler[r].at = "idle"
    /\ handler' = [handler EXCEPT ![r] = [op |-> op, at |-> "sent", token |-> NoToken,
                                          before |-> told, wasVoid |-> void]]
    /\ UNCHANGED <<row, tokens>>

\* handleSetRoomPassword.
SetRoomPassword(r, p) ==
    /\ Sent(r, "setPassword")
    /\ password' = {p}
    /\ Goes(r, "answered", NoToken)
    /\ UNCHANGED <<bypass, ingest, tokens>>

\* The first statement of handleDeleteRoomPassword.
DeletePassword(r) ==
    /\ Sent(r, "clear")
    /\ password' = {}
    /\ Goes(r, "cleared", NoToken)
    /\ UNCHANGED <<bypass, ingest, tokens>>

\* Mutant: only the password is removed.
DeleteNothingMore(r) ==
    /\ handler[r].at = "cleared"
    /\ void' = Voided(r, "bypass")
    /\ Goes(r, "answered", NoToken)
    /\ UNCHANGED <<row, issued, told>>

\* The second one, and the answer.
DeleteBypassToken(r) ==
    /\ handler[r].at = "cleared"
    /\ bypass' = NoToken
    /\ void' = Voided(r, "bypass")
    /\ Goes(r, "answered", NoToken)
    /\ UNCHANGED <<password, ingest, issued, told>>

\* handleRotateRoomBypassToken and handleRotateRoomIngestToken store the hash of a new
\* token.
Rotate(r, kind) ==
    LET token == Len(issued) + 1
    IN  /\ Sent(r, kind) /\ Len(issued) < MaxIssued
        /\ issued' = Append(issued, kind)
        /\ bypass' = IF kind = "bypass" THEN token ELSE bypass
        /\ ingest' = IF kind = "ingest" THEN token ELSE ingest
        /\ Goes(r, "stored", token)
        /\ UNCHANGED <<password, told, void>>

\* The answer carries it.
Tell(r) ==
    /\ handler[r].at = "stored"
    /\ told' = told \cup {handler[r].token}
    /\ void' = Voided(r, handler[r].op)
    /\ Goes(r, "answered", NoToken)
    /\ UNCHANGED <<row, issued>>

\* handleCreateStreamAccess, with the token t, the right password or nothing.
CreateStreamAccess(r, t, knowsPassword) ==
    /\ Sent(r, "access") /\ t \in told \cup {NoToken}
    /\ IF password = {} \/ (t = NoToken /\ knowsPassword) THEN Goes(r, "granted", NoToken)
       ELSE IF t # NoToken /\ t = bypass THEN Goes(r, "granted", t)
       ELSE Goes(r, "refused", NoToken)
    /\ UNCHANGED <<row, tokens>>

\* handleWhipProxy lets the encoder with the token t through.
WhipProxy(r, t) ==
    /\ Sent(r, "whip") /\ t \in told
    /\ IF t = ingest THEN Goes(r, "granted", t) ELSE Goes(r, "refused", NoToken)
    /\ UNCHANGED <<row, tokens>>

\* A statement fails, the media server does, or the client goes before the answer.
Fails(r) ==
    /\ handler[r].at \in {"sent", "cleared", "stored", "granted"}
    /\ Goes(r, "failed", NoToken)
    /\ UNCHANGED <<row, tokens>>

Ends(r) ==
    /\ handler[r].at \in {"answered", "granted", "refused", "failed"}
    /\ handler' = [handler EXCEPT ![r] = NoRequest]
    /\ UNCHANGED <<row, tokens>>

AccessNext ==
    \E r \in Handlers :
        \/ \E op \in Ops : BeginRequest(r, op)
        \/ \E p \in Passwords : SetRoomPassword(r, p)
        \/ DeletePassword(r) \/ DeleteBypassToken(r)
        \/ \E kind \in {"bypass", "ingest"} : Rotate(r, kind)
        \/ Tell(r)
        \/ \E t \in Tokens \cup {NoToken}, knows \in BOOLEAN : CreateStreamAccess(r, t, knows)
        \/ \E t \in Tokens : WhipProxy(r, t)
        \/ Fails(r) \/ Ends(r)

AccessSpec == AccessInit /\ [][AccessNext]_accessVars

-----------------------------------------------------------------------------
(* Properties *)

AccessTypeOK ==
    /\ password \in {{}} \cup {{p} : p \in Passwords}
    /\ bypass \in 0 .. Len(issued) /\ ingest \in 1 .. Len(issued)
    /\ issued \in Seq({"bypass", "ingest"}) /\ Len(issued) <= MaxIssued
    /\ told \in SUBSET (1 .. Len(issued)) /\ void \in SUBSET told
    /\ handler \in [Handlers ->
         [op : Ops \cup {"none"}, token : 0 .. Len(issued), before : SUBSET told,
          wasVoid : SUBSET void,
          at : {"idle", "sent", "cleared", "stored", "answered", "granted", "refused", "failed"}]]

\* A token that the owner was told to be replaced, or removed with the password, opens
\* nothing that is asked for afterwards, over any interleaving of rotations and removals.
\* It is about answers that say so: a removal that fails half-way is BypassGoesWithPassword.
VoidStaysVoid ==
    \A r \in Handlers :
        handler[r].at = "granted" => handler[r].token \notin handler[r].wasVoid

\* When a request that has removed the password is over, whatever became of it, none of
\* the bypass tokens there were before is left to open the room under the next password.
BypassGoesWithPassword ==
    [][\A r \in Handlers : handler[r].at = "cleared" /\ handler'[r].at # "cleared"
            => bypass' \notin handler[r].before]_accessVars
=============================================================================
