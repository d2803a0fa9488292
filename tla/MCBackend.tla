------------------------------ MODULE MCBackend -----------------------------
(***************************************************************************)
(* The rooms of the backend, the names of its users, the tokens of a room  *)
(* and the page of its owner, side by side for one run: the four share no  *)
(* state.  Init chooses the one that a behaviour is about, and the others  *)
(* stay as they start.                                                     *)
(***************************************************************************)
EXTENDS MCRoomDirectory, RoomAccess, Profiles, AdminRooms

VARIABLES part

BackendInit ==
    /\ part \in {"rooms", "profile", "access", "admin"}
    /\ Init /\ ProfilesInit /\ AccessInit /\ AdminInit
    /\ part # "admin" => made = 0

BackendNext ==
    /\ \/ part = "rooms" /\ Next /\ UNCHANGED <<profileVars, accessVars, adminVars>>
       \/ part = "profile" /\ ProfilesNext /\ UNCHANGED <<vars, accessVars, adminVars>>
       \/ part = "access" /\ AccessNext /\ UNCHANGED <<vars, profileVars, adminVars>>
       \/ part = "admin" /\ AdminNext /\ UNCHANGED <<vars, profileVars, accessVars>>
    /\ UNCHANGED part

backendVars == <<part, vars, profileVars, accessVars, adminVars>>

BackendSpec == BackendInit /\ [][BackendNext]_backendVars

\* Calls of the page are as good as each other.
BackendSymmetry == OwnerSymmetry \cup Permutations(Slots)

\* The type invariant of the part.
BackendTypeOK ==
    CASE part = "rooms" -> TypeOK
      [] part = "profile" -> ProfilesTypeOK
      [] part = "access" -> AccessTypeOK
      [] part = "admin" -> AdminTypeOK
=============================================================================
