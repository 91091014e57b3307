--------------------------- MODULE SerialService ----------------------------
(***************************************************************************)
(* What the inference server promises, without threads: one model that     *)
(* serves one request at a time.                                           *)
(*                                                                         *)
(* A client owns the model from the moment it enters to the moment it      *)
(* leaves.  A client that asks the engine for an answer gets the fragments *)
(* of its own text one after the other, then one answer, and leaves only   *)
(* when it has been answered and has taken every fragment: whoever enters  *)
(* next finds an engine that owes nothing to anyone.                       *)
(***************************************************************************)
EXTENDS Naturals

CONSTANTS
    Clients,   \* those who may ask
    Nobody     \* the owner of an idle model

VARIABLES
    owner,     \* the client the model works for
    stage,     \* what each client has been promised: an answer to come
               \* ("asked"), nothing more ("answered"), or nothing ("idle")
    made,      \* fragments of text the engine has made for each client
    taken      \* fragments each client has taken

serviceVars == <<owner, stage, made, taken>>

ServiceInit ==
    /\ owner = Nobody
    /\ stage = [c \in Clients |-> "idle"]
    /\ made = [c \in Clients |-> 0]
    /\ taken = [c \in Clients |-> 0]

Enter(c) ==
    /\ owner = Nobody
    /\ stage[c] = "idle"
    /\ owner' = c
    /\ UNCHANGED <<stage, made, taken>>

Ask(c) ==
    /\ owner = c
    /\ stage[c] = "idle"
    /\ stage' = [stage EXCEPT ![c] = "asked"]
    /\ UNCHANGED <<owner, made, taken>>

Make(c) ==
    /\ owner = c
    /\ stage[c] = "asked"
    /\ made' = [made EXCEPT ![c] = @ + 1]
    /\ UNCHANGED <<owner, stage, taken>>

Take(c) ==
    /\ owner = c
    /\ taken[c] < made[c]
    /\ taken' = [taken EXCEPT ![c] = @ + 1]
    /\ UNCHANGED <<owner, stage, made>>

GiveAnswer(c) ==
    /\ owner = c
    /\ stage[c] = "asked"
    /\ stage' = [stage EXCEPT ![c] = "answered"]
    /\ UNCHANGED <<owner, made, taken>>

Leave(c) ==
    /\ owner = c
    /\ stage[c] # "asked"
    /\ taken[c] = made[c]
    /\ owner' = Nobody
    /\ UNCHANGED <<stage, made, taken>>

ServiceNext ==
    \E c \in Clients :
        Enter(c) \/ Ask(c) \/ Make(c) \/ Take(c) \/ GiveAnswer(c) \/ Leave(c)

ServiceSpec == ServiceInit /\ [][ServiceNext]_serviceVars

=============================================================================
