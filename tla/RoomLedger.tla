----------------------------- MODULE RoomLedger -----------------------------
(***************************************************************************)
(* What the room tables promise to owners and viewers, without requests,   *)
(* copies of rows, the media server or times.  An owner opens a room under *)
(* a free id and has no other one.  The room keeps its number and its      *)
(* owner, goes live at most once, and is closed as a whole: with it goes   *)
(* what was entered in it, and it does not come back.  Comments and visits *)
(* are entered in an open room only.                                       *)
(***************************************************************************)
EXTENDS Naturals

CONSTANTS Rooms, Owners, Tables

VARIABLES
    ledger,         \* the room that is open under an id, in a set that may be empty
    entries,        \* comments and visits, with the number of their room
    opened          \* rooms opened so far

ledgerVars == <<ledger, entries, opened>>

LedgerInit ==
    /\ ledger = [r \in Rooms |-> {}]
    /\ entries = {}
    /\ opened = 0

Open(o, r) ==
    /\ ledger[r] = {}
    /\ \A s \in Rooms : \A e \in ledger[s] : e.owner # o
    /\ opened' = opened + 1
    /\ ledger' = [ledger EXCEPT ![r] = {[gen |-> opened + 1, owner |-> o, status |-> "waiting"]}]
    /\ UNCHANGED entries

GoLive(r) ==
    /\ \E e \in ledger[r] : ledger' = [ledger EXCEPT ![r] = {[e EXCEPT !.status = "live"]}]
    /\ UNCHANGED <<entries, opened>>

\* By the owner, by the encoder, or because the stream has ended.
Close(r) ==
    /\ ledger' = [ledger EXCEPT ![r] = {}]
    /\ entries' = {x \in entries : x.room # r}
    /\ UNCHANGED opened

Enter(t, r) ==
    /\ \E e \in ledger[r] : entries' = entries \cup {[table |-> t, room |-> r, gen |-> e.gen]}
    /\ UNCHANGED <<ledger, opened>>

Erase(x) ==
    /\ entries' = entries \ {x}
    /\ UNCHANGED <<ledger, opened>>

LedgerNext ==
    \/ \E o \in Owners, r \in Rooms : Open(o, r)
    \/ \E r \in Rooms : GoLive(r) \/ Close(r) \/ \E t \in Tables : Enter(t, r)
    \/ \E x \in entries : Erase(x)

LedgerSpec == LedgerInit /\ [][LedgerNext]_ledgerVars
=============================================================================
