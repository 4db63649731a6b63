----------------------------- MODULE MCServices -----------------------------
(***************************************************************************)
(* The services behind the HTTP API, for TLC: e-mail intake, received      *)
(* e-mail, attachments, templates and administration.  They share no       *)
(* state, so a behaviour is one of a single part, chosen at the start; the *)
(* state space is the sum of theirs and not the product.                   *)
(***************************************************************************)
EXTENDS EmailIntake, ReceivedEmail, Attachments, Templates, Administration, TLC

VARIABLE part

Services == {"intake", "received", "attachments", "templates", "administration"}

servicesVars == <<part, vars, rcVars, attVars, tmVars, adVars>>

\* A part that is not the chosen one starts in one state only.
ServicesInit ==
    /\ part \in Services
    /\ Init /\ (part # "intake" => backend = "memory")
    /\ RcInit
    /\ AttInit /\ (part # "attachments" => storage = "memory")
    /\ TmInit
    /\ AdInit /\ (part # "administration" => /\ recordStore = "postgres"
                                             /\ domainProvider = "local")

\* Requests differ in their names only: of the behaviours that differ in who
\* comes first, or in which request body comes first, one is enough.
InTurn(local, later, idle) ==
    \A c, d \in DOMAIN local :
        d < c /\ local[c] = idle /\ later[c] # idle => local[d] # idle

FirstHash == \A c \in Calls : c = 1 /\ call[c].pc # "idle" => call[c].hash = "h1"

ServicesNext ==
    \/ /\ part = "intake" /\ Next /\ FirstHash'
       /\ InTurn(call, call', [pc |-> "idle"])
       /\ UNCHANGED <<part, rcVars, attVars, tmVars, adVars>>
    \/ part = "received" /\ RcNext /\ UNCHANGED <<part, vars, attVars, tmVars, adVars>>
    \/ part = "attachments" /\ AttNext /\ UNCHANGED <<part, vars, rcVars, tmVars, adVars>>
    \/ part = "templates" /\ TmNext /\ UNCHANGED <<part, vars, rcVars, attVars, adVars>>
    \/ /\ part = "administration" /\ AdNext /\ InTurn(request, request', Waiting)
       /\ UNCHANGED <<part, vars, rcVars, attVars, tmVars>>

ServicesSpec == ServicesInit /\ [][ServicesNext]_servicesVars

-----------------------------------------------------------------------------
\* Delays of the two deliveries of an S3 notification after a failed one.
RedeliveredAfter == <<2, 4>>
=============================================================================
