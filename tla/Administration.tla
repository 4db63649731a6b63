--------------------------- MODULE Administration ---------------------------
(***************************************************************************)
(* API keys, sending domains and the suppression list behind their HTTP    *)
(* routes: the authentication middleware and the routes of src/src/app.ts, *)
(* console sessions (src/src/console-auth.ts), ApiKeyService,              *)
(* DomainService and SuppressionService (src/src/services/), the domain    *)
(* providers and the stores they write to, and the CLI commands in front.  *)
(*                                                                         *)
(* A request is authenticated on a read of its key, and then makes one     *)
(* store or provider call after another; requests interleave between the   *)
(* calls and may be cut short after any of them.  The memory and           *)
(* PostgreSQL stores update a record in one step; DynamoDB reads it and    *)
(* puts it back, unconditionally.  One sending domain name and one         *)
(* suppressed mailbox are enough for the races; records have ids of their  *)
(* own, which are never used twice.                                        *)
(***************************************************************************)
EXTENDS Integers, FiniteSets

CONSTANTS
    AdminCallers,     \* concurrent requests
    DomainIds,        \* ids of domain records
    KeyIds,           \* ids of API keys
    GrantableScopes,  \* scopes a key may be given
    RecordStores,     \* the stores to check
    DomainProviders,  \* the domain providers to check
    LastKeyHour,      \* bound on the clock that key expiries are compared with
    MaxAdminRequests, \* bound on requests
    MaxAdminFaults    \* bound on requests cut short

ASSUME AdminAssumption == LastKeyHour \in Nat

VARIABLES
    recordStore,     \* the store of this deployment
    domainProvider,  \* the domain provider of this deployment
    domains,         \* status of a domain record, "unused" or "deleted"
    identities,      \* identities of the name at the provider
    dns,             \* what the provider sees in the DNS
    keys,            \* API key records
    keyHour,         \* the clock
    mailbox,         \* whether the suppression record exists
    request,         \* what each request is doing
    deletedDomains,  \* domains whose deletion was answered, on DynamoDB with
                     \* no put of them outstanding
    revokedKeys,     \* keys whose revocation was answered
    arrivals,        \* requests so far
    adminFaults      \* requests cut short so far

adVars == <<recordStore, domainProvider, domains, identities, dns, keys, keyHour, mailbox,
            request, deletedDomains, revokedKeys, arrivals, adminFaults>>

NoKey == [scopes |-> {}, expires |-> LastKeyHour + 1, revoked |-> FALSE]

AdminOps == {"keys.create", "keys.revoke", "domains.create", "domains.verify",
             "domains.delete", "suppressions.put", "suppressions.delete"}

Waiting == [op |-> "none", token |-> "none", late |-> FALSE, scopes |-> {}, id |-> "none",
            at |-> "idle", copy |-> "none"]

AdInit ==
    /\ recordStore \in RecordStores
    /\ domainProvider \in DomainProviders
    /\ recordStore = "dynamo" => domainProvider = "ses"  \* createAwsRuntime
    /\ domains = [d \in DomainIds |-> "unused"]
    /\ identities = 0
    /\ dns = "pending"
    /\ keys = [k \in KeyIds |-> NoKey]
    /\ keyHour = 0
    /\ mailbox = FALSE
    /\ request = [c \in AdminCallers |-> Waiting]
    /\ deletedDomains = {}
    /\ revokedKeys = {}
    /\ arrivals = 0
    /\ adminFaults = 0

-----------------------------------------------------------------------------
(* The way in.                                                              *)

\* hasScope of the route's scope.
RequiredScope(op) ==
    IF op \in {"keys.create", "keys.revoke"} THEN "api_keys:write"
    ELSE IF op \in {"domains.create", "domains.verify", "domains.delete"} THEN "domains:write"
    ELSE "suppressions:write"

hasScope(scopes, op) == "*" \in scopes \/ RequiredScope(op) \in scopes

\* The commands that destroy something refuse to run without --yes.
domainCommand(op, yes) == op = "domains.delete" => yes

suppressionCommand(op, yes) == op = "suppressions.delete" => yes

\* "domains", "suppressions" and "keys" of the CLI send one request each;
\* revoking a key needs no --yes.
CliSends(op, yes) == domainCommand(op, yes) /\ suppressionCommand(op, yes)

TargetsOf(op) ==
    IF op \in {"domains.verify", "domains.delete"} THEN DomainIds
    ELSE IF op = "keys.revoke" THEN KeyIds ELSE {"none"}

\* Tokens: a scoped key, the bootstrap key, or the cookie of a console
\* session.
Tokens == KeyIds \cup {"bootstrap", "session"}

Begin(c, op, id, token, yes) ==
    /\ request[c].at = "idle"
    /\ arrivals < MaxAdminRequests
    /\ arrivals' = arrivals + 1
    /\ CliSends(op, yes)
    /\ id \in TargetsOf(op)
    /\ request' = [request EXCEPT ![c] =
                     [Waiting EXCEPT !.op = op, !.id = id, !.token = token, !.at = "arrived",
                                     !.late = token \in revokedKeys]]
    /\ UNCHANGED <<recordStore, domainProvider, domains, identities, dns, keys, keyHour, mailbox,
                   deletedDomains, revokedKeys, adminFaults>>

\* ApiKeyService.authenticate for a scoped key.  The hash of an unknown or
\* made-up token does not match, which is the case of an absent record.
KeyAccepted(k) ==
    /\ keys[k] # NoKey
    /\ ~keys[k].revoked
    /\ keys[k].expires > keyHour

\* getSession: a session is an operator's as long as the address is on the
\* allow list, and a mutation must come from the console's own origin.
SessionAccepted(allowed, sameOrigin) == allowed /\ sameOrigin

\* The middleware: a bearer token decides alone, a session is only asked for
\* without one.
Principal(token, allowed, sameOrigin) ==
    IF token \in KeyIds THEN IF KeyAccepted(token) THEN keys[token].scopes ELSE {}
    ELSE IF token = "bootstrap" THEN {"*"}
    ELSE IF SessionAccepted(allowed, sameOrigin) THEN {"*"} ELSE {}

Finish(c) == request' = [request EXCEPT ![c] = Waiting]

Authenticate(c, allowed, sameOrigin) ==
    /\ request[c].at = "arrived"
    /\ LET scopes == Principal(request[c].token, allowed, sameOrigin)
       IN IF hasScope(scopes, request[c].op)
            THEN request' = [request EXCEPT ![c].scopes = scopes, ![c].at = "begun",
                                                      ![c].token = "none"]
            ELSE Finish(c)
    /\ UNCHANGED <<recordStore, domainProvider, domains, identities, dns, keys, keyHour, mailbox,
                   deletedDomains, revokedKeys, arrivals, adminFaults>>

-----------------------------------------------------------------------------
(* API keys.                                                                *)

\* "An API key cannot delegate scopes it does not have."
MayDelegate(c, scopes) == "*" \in request[c].scopes \/ scopes \subseteq request[c].scopes

\* create: an expiry in the past is refused, LastKeyHour + 1 stands for none.
CreateKey(c, k, scopes, expires) ==
    /\ request[c].at = "begun" /\ request[c].op = "keys.create"
    /\ keys' = IF MayDelegate(c, scopes) /\ expires > keyHour
                 THEN [keys EXCEPT ![k] = [scopes |-> scopes, expires |-> expires,
                                           revoked |-> FALSE]]
                 ELSE keys
    /\ keys[k] = NoKey
    /\ Finish(c)
    /\ UNCHANGED <<recordStore, domainProvider, domains, identities, dns, keyHour, mailbox,
                   deletedDomains, revokedKeys, arrivals, adminFaults>>

\* Mutant: the update does not lock the row between its read and its write.
ReadsThenPuts_All == TRUE

\* updateEntity of DynamoDB gets the record and puts it back changed, with no
\* condition; updateAppEntity locks the row, and memory has no await between.
ReadsThenPuts == recordStore = "dynamo"

\* revoke: an update of revoked_at, answered once it is stored.
RevokeReads(c) ==
    /\ request[c].at = "begun" /\ request[c].op = "keys.revoke"
    /\ ReadsThenPuts /\ keys[request[c].id] # NoKey
    /\ request' = [request EXCEPT ![c].at = "put"]
    /\ UNCHANGED <<recordStore, domainProvider, domains, identities, dns, keys, keyHour, mailbox,
                   deletedDomains, revokedKeys, arrivals, adminFaults>>

Revoke(c) ==
    /\ request[c].op = "keys.revoke"
    /\ request[c].at = (IF ReadsThenPuts THEN "put" ELSE "begun")
    /\ keys[request[c].id] # NoKey
    /\ keys' = [keys EXCEPT ![request[c].id].revoked = TRUE]
    /\ revokedKeys' = revokedKeys \cup {request[c].id}
    /\ Finish(c)
    /\ UNCHANGED <<recordStore, domainProvider, domains, identities, dns, keyHour, mailbox,
                   deletedDomains, arrivals, adminFaults>>

RevokeUnknown(c) ==
    /\ request[c].at = "begun" /\ request[c].op = "keys.revoke"
    /\ keys[request[c].id] = NoKey
    /\ Finish(c)
    /\ UNCHANGED <<recordStore, domainProvider, domains, identities, dns, keys, keyHour, mailbox,
                   deletedDomains, revokedKeys, arrivals, adminFaults>>

-----------------------------------------------------------------------------
(* Domain providers.  The number of identities tells the one case apart in  *)
(* which SendGrid holds two.                                                *)

\* SES: verified only when the identity and its DKIM tokens are.
sesStatus == IF dns = "verified" THEN "verified" ELSE "pending"

\* Azure: provisioned and every required state verified, or one failed.
acsStatus == dns

\* SendGrid: "valid", and nothing else.
sendGridStatus == IF dns = "verified" THEN "verified" ELSE "pending"

\* The provider's view of the domain.
providerResult ==
    IF domainProvider = "ses" THEN sesStatus
    ELSE IF domainProvider = "acs" THEN acsStatus
    ELSE IF domainProvider = "sendgrid" THEN sendGridStatus
    ELSE "verified"

\* SendGrid's find refuses an account with two domains of one name.
Found == domainProvider # "sendgrid" \/ identities < 2

\* create may go on: SES and the local provider answer RegisteredDomainError
\* for a name they know, SendGrid looks for it first, and Azure only inspects
\* the domain that the operator linked.
MayRegister == domainProvider = "acs" \/ identities = 0

\* get needs the identity: SES and Azure throw without it, SendGrid answers
\* 412; the local provider always has a result.
Inspectable == domainProvider \in {"acs", "local"} \/ identities = 1

Registered == IF domainProvider = "acs" THEN identities ELSE identities + 1

\* delete: Azure's resources are left to the operator, SendGrid's absent
\* domain is none to delete, SES throws for an identity it does not know.
MayUnregister == Found /\ (domainProvider = "ses" => identities > 0)

Unregistered ==
    IF domainProvider = "acs" \/ identities = 0 THEN identities ELSE identities - 1

-----------------------------------------------------------------------------
(* Sending domains.                                                         *)

Go(c, point, copy) == request' = [request EXCEPT ![c].at = point, ![c].copy = copy]

\* SendGridDomainProvider.create looks for the name before it posts it.
FindDomain(c) ==
    /\ request[c].at = "begun" /\ request[c].op = "domains.create"
    /\ domainProvider = "sendgrid"
    /\ IF identities = 0 THEN Go(c, "post", "none") ELSE Finish(c)
    /\ UNCHANGED <<recordStore, domainProvider, domains, identities, dns, keys, keyHour, mailbox,
                   deletedDomains, revokedKeys, arrivals, adminFaults>>

\* DomainService.create: the provider first, then the record.
RegisterDomain(c) ==
    /\ request[c].op = "domains.create"
    /\ request[c].at = (IF domainProvider = "sendgrid" THEN "post" ELSE "begun")
    /\ identities < 2
    /\ IF MayRegister \/ domainProvider = "sendgrid"
         THEN identities' = Registered /\ Go(c, "record", providerResult)
         ELSE UNCHANGED identities /\ Finish(c)
    /\ UNCHANGED <<recordStore, domainProvider, domains, dns, keys, keyHour, mailbox,
                   deletedDomains, revokedKeys, arrivals, adminFaults>>

CreateDomain(c, d) ==
    /\ request[c].at = "record" /\ request[c].op = "domains.create"
    /\ domains[d] = "unused"
    /\ domains' = [domains EXCEPT ![d] = request[c].copy]
    /\ Finish(c)
    /\ UNCHANGED <<recordStore, domainProvider, identities, dns, keys, keyHour, mailbox,
                   deletedDomains, revokedKeys, arrivals, adminFaults>>

Exists(d) == domains[d] \notin {"unused", "deleted"}

\* get, the first call of verify and delete: 404 without a record.
GetDomain(c) ==
    /\ request[c].at = "begun" /\ request[c].op \in {"domains.verify", "domains.delete"}
    /\ IF Exists(request[c].id) THEN Go(c, "provider", "none") ELSE Finish(c)
    /\ UNCHANGED <<recordStore, domainProvider, domains, identities, dns, keys, keyHour, mailbox,
                   deletedDomains, revokedKeys, arrivals, adminFaults>>

InspectDomain(c) ==
    /\ request[c].at = "provider" /\ request[c].op = "domains.verify"
    /\ IF Inspectable /\ Found THEN Go(c, "update", providerResult) ELSE Finish(c)
    /\ UNCHANGED <<recordStore, domainProvider, domains, identities, dns, keys, keyHour, mailbox,
                   deletedDomains, revokedKeys, arrivals, adminFaults>>

\* The read of DynamoDB's updateDomain.
UpdateReads(c) ==
    /\ request[c].at = "update" /\ ReadsThenPuts
    /\ IF Exists(request[c].id) THEN Go(c, "put", request[c].copy) ELSE Finish(c)
    /\ UNCHANGED <<recordStore, domainProvider, domains, identities, dns, keys, keyHour, mailbox,
                   deletedDomains, revokedKeys, arrivals, adminFaults>>

\* updateDomain writes the status; without a record it answers 404, which the
\* put of DynamoDB no longer looks at.
UpdateDomain(c) ==
    /\ request[c].op = "domains.verify"
    /\ request[c].at = (IF ReadsThenPuts THEN "put" ELSE "update")
    /\ domains' = IF ReadsThenPuts \/ Exists(request[c].id)
                    THEN [domains EXCEPT ![request[c].id] = request[c].copy]
                    ELSE domains
    /\ Finish(c)
    /\ UNCHANGED <<recordStore, domainProvider, identities, dns, keys, keyHour, mailbox,
                   deletedDomains, revokedKeys, arrivals, adminFaults>>

\* delete: the provider's identity first, then the record.
UnregisterDomain(c) ==
    /\ request[c].at = "provider" /\ request[c].op = "domains.delete"
    /\ IF MayUnregister THEN identities' = Unregistered /\ Go(c, "remove", "none")
                        ELSE UNCHANGED identities /\ Finish(c)
    /\ UNCHANGED <<recordStore, domainProvider, domains, dns, keys, keyHour, mailbox,
                   deletedDomains, revokedKeys, arrivals, adminFaults>>

\* A verification has read the record and is going to put it back.
PutsBack(r, d) == r.op = "domains.verify" /\ r.at = "put" /\ r.id = d

\* The deletion stands: not with DynamoDB while such a put is outstanding.
Stands(d) == recordStore = "dynamo" => \A c \in AdminCallers : ~PutsBack(request[c], d)

\* deleteDomain: the answer is 200 for the request that removed the record
\* and 404 for the one that came second.
DeleteDomain(c) ==
    /\ request[c].at = "remove"
    /\ domains' = [domains EXCEPT ![request[c].id] = "deleted"]
    /\ deletedDomains' = IF Exists(request[c].id) /\ Stands(request[c].id)
                            THEN deletedDomains \cup {request[c].id}
                            ELSE deletedDomains
    /\ Finish(c)
    /\ UNCHANGED <<recordStore, domainProvider, identities, dns, keys, keyHour, mailbox,
                   revokedKeys, arrivals, adminFaults>>

-----------------------------------------------------------------------------
(* The suppression list.                                                    *)

\* put reads the record for its created_at and then writes it whole.
ReadSuppression(c) ==
    /\ request[c].at = "begun" /\ request[c].op = "suppressions.put"
    /\ Go(c, "write", "none")
    /\ UNCHANGED <<recordStore, domainProvider, domains, identities, dns, keys, keyHour, mailbox,
                   deletedDomains, revokedKeys, arrivals, adminFaults>>

PutSuppression(c) ==
    /\ request[c].at = "write"
    /\ mailbox' = TRUE
    /\ Finish(c)
    /\ UNCHANGED <<recordStore, domainProvider, domains, identities, dns, keys, keyHour,
                   deletedDomains, revokedKeys, arrivals, adminFaults>>

DeleteSuppression(c) ==
    /\ request[c].at = "begun" /\ request[c].op = "suppressions.delete"
    /\ mailbox' = FALSE
    /\ Finish(c)
    /\ UNCHANGED <<recordStore, domainProvider, domains, identities, dns, keys, keyHour,
                   deletedDomains, revokedKeys, arrivals, adminFaults>>

-----------------------------------------------------------------------------
\* A call throws, or the process is lost: the request ends where it stands.
CutShort(c) ==
    /\ request[c].at # "idle"
    /\ adminFaults < MaxAdminFaults
    /\ adminFaults' = adminFaults + 1
    /\ Finish(c)
    /\ UNCHANGED <<recordStore, domainProvider, domains, identities, dns, keys, keyHour, mailbox,
                   deletedDomains, revokedKeys, arrivals>>

\* The provider sees the DNS records, or gives the domain up.
DnsChanges(state) ==
    /\ identities > 0 \/ domainProvider = "acs"
    /\ dns # state
    /\ dns' = state
    /\ UNCHANGED <<recordStore, domainProvider, domains, identities, keys, keyHour, mailbox,
                   request, deletedDomains, revokedKeys, arrivals, adminFaults>>

HourPasses ==
    /\ keyHour < LastKeyHour
    /\ keyHour' = keyHour + 1
    /\ UNCHANGED <<recordStore, domainProvider, domains, identities, dns, keys, mailbox, request,
                   deletedDomains, revokedKeys, arrivals, adminFaults>>

AdNext ==
    \/ \E c \in AdminCallers, op \in AdminOps, token \in Tokens, yes \in BOOLEAN :
         \E id \in TargetsOf(op) : Begin(c, op, id, token, yes)
    \/ \E c \in AdminCallers, allowed, sameOrigin \in BOOLEAN :
         Authenticate(c, allowed, sameOrigin)
    \/ \E c \in AdminCallers, k \in KeyIds, scopes \in SUBSET GrantableScopes \ {{}},
          expires \in 0..LastKeyHour + 1 : CreateKey(c, k, scopes, expires)
    \/ \E c \in AdminCallers : RevokeReads(c) \/ Revoke(c) \/ RevokeUnknown(c)
    \/ \E c \in AdminCallers : FindDomain(c) \/ RegisterDomain(c) \/ GetDomain(c)
    \/ \E c \in AdminCallers, d \in DomainIds : CreateDomain(c, d)
    \/ \E c \in AdminCallers : InspectDomain(c) \/ UpdateReads(c) \/ UpdateDomain(c)
    \/ \E c \in AdminCallers : UnregisterDomain(c) \/ DeleteDomain(c)
    \/ \E c \in AdminCallers : ReadSuppression(c) \/ PutSuppression(c) \/ DeleteSuppression(c)
    \/ \E c \in AdminCallers : CutShort(c)
    \/ \E state \in {"pending", "verified", "failed"} : DnsChanges(state)
    \/ HourPasses

AdSpec == AdInit /\ [][AdNext]_adVars

-----------------------------------------------------------------------------
\* What an operator was told stays true.  A revoked key opens no request
\* that arrives after the answer, whatever was created, revoked or
\* authenticated at the same time; and a domain whose deletion was answered
\* does not come back when a verification of it was under way.  Only on
\* DynamoDB, and only if the verification stood between its read of the record
\* and its put when the deletion was answered, the domain does come back.
AcknowledgementsHold ==
    /\ \A c \in AdminCallers : request[c].late => request[c].at = "arrived"
    /\ \A d \in deletedDomains : ~Exists(d)
=============================================================================
