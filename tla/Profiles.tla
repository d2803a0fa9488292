------------------------------- MODULE Profiles -----------------------------
(***************************************************************************)
(* The display name of one user (backend/internal/httpapi: GET and PATCH   *)
(* /api/me and getOrCreateUserProfile, which the public list of rooms and  *)
(* every new comment call too).  The row is read in one statement and      *)
(* written in another, and any number of requests are between the two.     *)
(*                                                                         *)
(* A generated name is unique: it is the request that generated it.  Each  *)
(* request is made once.                                                   *)
(***************************************************************************)
EXTENDS Naturals, Sequences, SequencesExt

CONSTANTS
    Callers,        \* requests
    Names           \* names the user saves

VARIABLES
    profile,        \* the names the row has had, in order; none while there is no row
    callers         \* the requests

profileVars == <<profile, callers>>

Kinds == {"me", "comment", "save"}
Waiting == [kind |-> "me", at |-> "idle", name |-> "", since |-> 0]

ProfilesInit ==
    /\ profile = <<>>
    /\ callers = [r \in Callers |-> Waiting]

\* The request r goes on to a step, with the name it has found or made.
Step(r, at, name) == [callers EXCEPT ![r].at = at, ![r].name = name]

-----------------------------------------------------------------------------
\* A request comes in: the user or a viewer lists rooms or asks for /api/me, the user
\* comments, or the user saves a name.
ComesIn(r, kind, name) ==
    /\ callers[r].at = "idle"
    /\ (kind = "save") = (name \in Names)
    /\ callers' = [callers EXCEPT ![r] = [kind |-> kind, name |-> name, since |-> Len(profile),
                                          at |-> IF kind = "save" THEN "save" ELSE "read"]]
    /\ UNCHANGED profile

\* GetUserProfile.
GetUserProfile(r) ==
    /\ callers[r].at = "read"
    /\ callers' = IF profile = <<>> THEN Step(r, "create", "") ELSE Step(r, "named", Last(profile))
    /\ UNCHANGED profile

\* Mutant: a row that is there by now is left alone, and the generated name is used.
InsertGenerated(r) ==
    /\ callers[r].at = "create"
    /\ profile' = IF profile = <<>> THEN <<r>> ELSE profile
    /\ callers' = Step(r, "named", r)

\* There was no row: a generated name is upserted, whatever the row is by now.
UpsertGenerated(r) ==
    /\ callers[r].at = "create"
    /\ profile' = Append(profile, r)
    /\ callers' = Step(r, "named", r)

\* handleUpdateMe.
UpdateMe(r) ==
    /\ callers[r].at = "save"
    /\ profile' = Append(profile, callers[r].name)
    /\ callers' = [callers EXCEPT ![r].at = "answered"]

\* createCommentFromRequest stores the comment with the name.
CreateComment(r) ==
    /\ callers[r].at = "named" /\ callers[r].kind = "comment"
    /\ callers' = [callers EXCEPT ![r].at = "stored"]
    /\ UNCHANGED profile

\* A statement fails, or the client has gone.
CallFails(r) ==
    /\ callers[r].at \in {"read", "create", "save", "named"}
    /\ callers' = [callers EXCEPT ![r].at = "failed"]
    /\ UNCHANGED profile

ProfilesNext ==
    \E r \in Callers :
        \/ \E kind \in Kinds, name \in Names \cup {""} : ComesIn(r, kind, name)
        \/ GetUserProfile(r) \/ UpsertGenerated(r) \/ UpdateMe(r)
        \/ CreateComment(r) \/ CallFails(r)

ProfilesSpec == ProfilesInit /\ [][ProfilesNext]_profileVars

-----------------------------------------------------------------------------
(* Properties *)

ProfilesTypeOK ==
    /\ profile \in Seq(Names \cup Callers)
    /\ callers \in [Callers ->
         [kind : Kinds, name : Names \cup Callers \cup {""}, since : 0 .. Len(profile),
          at : {"idle", "read", "create", "save", "named", "answered", "stored", "failed"}]]

\* A comment bears a name the user really had at some moment of its request, over any
\* interleaving of first requests that generate names and of saves.
CommentNamesWereCurrent ==
    \A r \in Callers :
        callers[r].at = "stored" =>
            \E i \in DOMAIN profile : i >= callers[r].since /\ profile[i] = callers[r].name

\* A generated name is for a user without a profile, and never takes the place of a
\* name the user has saved (docs/auth-and-security.md).
SavedNameStays ==
    [][profile # <<>> /\ profile' # profile /\ Last(profile) \in Names
         => Last(profile') \in Names]_profileVars
=============================================================================
