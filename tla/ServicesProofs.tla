--------------------------- MODULE ServicesProofs ---------------------------
(*************************************************************************)
(* What the provers establish of the services behind the HTTP API and of *)
(* received e-mail: intake, attachments, templates, administration and   *)
(* receiving, each for its own specification, for every number of requests *)
(* and every bound.                                                      *)
(*************************************************************************)
EXTENDS EmailIntake, Attachments, Templates, Administration, ReceivedEmail, TLAPS

-----------------------------------------------------------------------------
(* Administration: what an operator was told stays true.                    *)

\* What the requests hold at every point of their way.
AdminRequests ==
    [op : AdminOps \cup {"none"}, token : Tokens \cup {"none"}, late : BOOLEAN,
     scopes : SUBSET (GrantableScopes \cup {"*"}),
     id : DomainIds \cup KeyIds \cup {"none"},
     at : {"idle", "arrived", "begun", "put", "post", "record", "provider", "update", "remove",
           "write"},
     copy : {"none", "pending", "verified", "failed"}]

KeyRecords ==
    [scopes : SUBSET GrantableScopes, expires : 0..LastKeyHour + 1, revoked : BOOLEAN]

AdminTypes ==
    /\ domains \in [DomainIds -> {"unused", "none", "pending", "verified", "failed", "deleted"}]
    /\ dns \in {"pending", "verified", "failed"}
    /\ keys \in [KeyIds -> KeyRecords]
    /\ request \in [AdminCallers -> AdminRequests]

\* A late request still carries its revoked token, a deletion is the only
\* request that removes, and a target is of the kind its operation names.
RequestHolds(r, revoked) ==
    /\ r.late => r.at = "arrived" /\ r.token \in revoked
    /\ r.at = "remove" => r.op = "domains.delete"
    /\ r.op \in {"domains.verify", "domains.delete"} => r.id \in DomainIds
    /\ r.op = "keys.revoke" => r.id \in KeyIds

RequestsHold == \A c \in AdminCallers : RequestHolds(request[c], revokedKeys)

\* A revocation that was answered is stored.
RevokedStayRevoked == revokedKeys \subseteq KeyIds /\ \A k \in revokedKeys : keys[k].revoked

\* A deletion that was answered is stored, and DynamoDB has no put outstanding
\* that would undo it.
DeletedStayDeleted ==
    /\ deletedDomains \subseteq DomainIds
    /\ \A d \in deletedDomains : domains[d] = "deleted" /\ Stands(d)

AdminInv == AdminTypes /\ RequestsHold /\ RevokedStayRevoked /\ DeletedStayDeleted

\* The step moves the request of one caller, and no other, to a request that
\* holds.
MovesTo(c, r) ==
    /\ r \in AdminRequests
    /\ RequestHolds(r, revokedKeys')
    /\ request' = [request EXCEPT ![c] = r]

\* A step that moves one request to one that holds, and takes back no
\* revocation, keeps what is said of the requests: all of the admin actions
\* do.
LEMMA MovedRequestsHold ==
    ASSUME AdminTypes, RequestsHold, NEW c \in AdminCallers, NEW r, MovesTo(c, r),
           revokedKeys \subseteq revokedKeys'
    PROVE  request' \in [AdminCallers -> AdminRequests] /\ RequestsHold'
<1>1. request' \in [AdminCallers -> AdminRequests]
  BY DEF AdminTypes, MovesTo
<1>2. ASSUME NEW d \in AdminCallers PROVE RequestHolds(request'[d], revokedKeys')
  <2>1. CASE d = c
    BY <2>1 DEF MovesTo, AdminTypes
  <2>2. CASE d # c
    <3>1. request'[d] = request[d]
      BY <2>2 DEF MovesTo, AdminTypes
    <3>2. RequestHolds(request[d], revokedKeys)
      BY DEF RequestsHold
    <3> QED BY <3>1, <3>2 DEF RequestHolds
  <2> QED BY <2>1, <2>2
<1> QED BY <1>1, <1>2 DEF RequestsHold

\* A request that is over holds: Finish, the end of every route.
LEMMA FinishedHolds ==
    ASSUME NEW c, Finish(c) PROVE MovesTo(c, Waiting)
<1>1. Waiting \in AdminRequests
  BY DEF Waiting, AdminRequests
<1>2. RequestHolds(Waiting, revokedKeys')
  BY DEF Waiting, RequestHolds
<1> QED BY <1>1, <1>2 DEF MovesTo, Finish

\* The record of a request that goes on to another call of its route.
Onward(r, point, copy) == [r EXCEPT !.at = point, !.copy = copy]

\* Such a record differs from the one before in its point and its copy.
LEMMA OnwardIs ==
    ASSUME NEW r \in AdminRequests, NEW copy \in {"none", "pending", "verified", "failed"},
           NEW point \in {"put", "post", "record", "provider", "update", "remove", "write"}
    PROVE  /\ Onward(r, point, copy) \in AdminRequests
           /\ Onward(r, point, copy).op = r.op
           /\ Onward(r, point, copy).id = r.id
           /\ Onward(r, point, copy).late = r.late
           /\ Onward(r, point, copy).at = point
<1> DEFINE first == [r EXCEPT !.at = point]
<1>1. first \in AdminRequests /\ first.op = r.op /\ first.id = r.id /\ first.late = r.late
      /\ first.at = point
  BY DEF AdminRequests
<1>2. Onward(r, point, copy) = [first EXCEPT !.copy = copy]
  BY DEF Onward
<1> HIDE DEF first
<1> QED BY <1>1, <1>2 DEF AdminRequests

\* Go, the next call of a route, changes the point and the copy only.
LEMMA GoIsOnward ==
    ASSUME AdminTypes, NEW c \in AdminCallers, NEW point, NEW copy, Go(c, point, copy)
    PROVE  request' = [request EXCEPT ![c] = Onward(request[c], point, copy)]
BY DEF Go, AdminTypes, Onward

\* A request past its authentication may go on to any call but a removal that
\* is not its own.
LEMMA OnwardHolds ==
    ASSUME AdminTypes, RequestsHold, NEW c \in AdminCallers, NEW point, NEW copy,
           Go(c, point, copy), request[c].at # "arrived",
           point \in {"put", "post", "record", "provider", "update", "remove", "write"},
           copy \in {"none", "pending", "verified", "failed"},
           point = "remove" => request[c].op = "domains.delete",
           revokedKeys' = revokedKeys
    PROVE  MovesTo(c, Onward(request[c], point, copy))
<1>1. request[c] \in AdminRequests
  BY DEF AdminTypes
<1>2. RequestHolds(request[c], revokedKeys)
  BY DEF RequestsHold
<1>3. RequestHolds(Onward(request[c], point, copy), revokedKeys')
  BY SMTT(60), <1>1, <1>2, OnwardIs DEF RequestHolds
<1> QED BY <1>1, <1>3, GoIsOnward, OnwardIs DEF MovesTo

\* A deletion stands as long as no request comes to put the domain back.
LEMMA StillStands ==
    ASSUME AdminTypes, NEW c \in AdminCallers, NEW r, NEW d \in DomainIds,
           request' = [request EXCEPT ![c] = r], UNCHANGED recordStore,
           Stands(d), ~PutsBack(r, d)
    PROVE  Stands(d)'
<1> SUFFICES ASSUME recordStore = "dynamo", NEW b \in AdminCallers
             PROVE  ~PutsBack(request'[b], d)
  BY DEF Stands, PutsBack
<1>1. request'[b] = IF b = c THEN r ELSE request[b]
  BY DEF AdminTypes
<1>2. ~PutsBack(request[b], d)
  BY DEF Stands
<1> QED BY <1>1, <1>2

\* A request that has ended puts nothing back.
LEMMA WaitingPutsNothing == \A d : ~PutsBack(Waiting, d)
BY DEF PutsBack, Waiting

\* A step that only moves a request keeps the invariant: most of the calls a
\* route makes are of this kind.
LEMMA QuietStep ==
    ASSUME AdminInv, NEW c \in AdminCallers, NEW r, MovesTo(c, r),
           \A d \in deletedDomains : ~PutsBack(r, d),
           UNCHANGED <<recordStore, domains, dns, keys, deletedDomains, revokedKeys>>
    PROVE  AdminInv'
<1>1. request' \in [AdminCallers -> AdminRequests] /\ RequestsHold'
  BY MovedRequestsHold DEF AdminInv
<1>2. AdminTypes'
  BY <1>1 DEF AdminInv, AdminTypes
<1>3. \A d \in deletedDomains : Stands(d)'
  BY StillStands DEF AdminInv, DeletedStayDeleted, MovesTo
<1> QED BY <1>1, <1>2, <1>3 DEF AdminInv, RevokedStayRevoked, DeletedStayDeleted

\* What the provider answers is a status a domain record can have.
LEMMA ProviderResultTyped ==
    ASSUME AdminTypes PROVE providerResult \in {"none", "pending", "verified", "failed"}
BY DEF AdminTypes, providerResult, sesStatus, acsStatus, sendGridStatus

\* A request that goes on, and does nothing else, keeps the invariant.
LEMMA GoesOn ==
    ASSUME AdminInv, NEW c \in AdminCallers, NEW point, NEW copy,
           Go(c, point, copy), request[c].at # "arrived",
           point \in {"put", "post", "record", "provider", "update", "remove", "write"},
           copy \in {"none", "pending", "verified", "failed"},
           point = "remove" => request[c].op = "domains.delete",
           point = "put" => request[c].id \notin deletedDomains,
           UNCHANGED <<recordStore, domains, dns, keys, deletedDomains, revokedKeys>>
    PROVE  AdminInv'
<1>1. MovesTo(c, Onward(request[c], point, copy))
  BY OnwardHolds DEF AdminInv
<1>2. request[c] \in AdminRequests
  BY DEF AdminInv, AdminTypes
<1>3. \A d \in deletedDomains : ~PutsBack(Onward(request[c], point, copy), d)
  BY <1>2, OnwardIs DEF PutsBack
<1> QED BY <1>1, <1>3, QuietStep

\* A request that ends, and does nothing else, keeps the invariant.
LEMMA RequestEnds ==
    ASSUME AdminInv, NEW c \in AdminCallers, Finish(c),
           UNCHANGED <<recordStore, domains, dns, keys, deletedDomains, revokedKeys>>
    PROVE  AdminInv'
BY WaitingPutsNothing, FinishedHolds, QuietStep

\* A request that arrives is late only with a token that was revoked.
LEMMA BeginKeeps ==
    ASSUME AdminInv, NEW c \in AdminCallers, NEW op \in AdminOps, NEW token \in Tokens,
           NEW yes \in BOOLEAN, NEW id \in TargetsOf(op), Begin(c, op, id, token, yes)
    PROVE  AdminInv'
<1> DEFINE late == token \in revokedKeys
<1>1. PICK r1 : r1 = [Waiting EXCEPT !.op = op]
  OBVIOUS
<1>2. PICK r2 : r2 = [r1 EXCEPT !.id = id]
  OBVIOUS
<1>3. PICK r3 : r3 = [r2 EXCEPT !.token = token]
  OBVIOUS
<1>4. PICK r4 : r4 = [r3 EXCEPT !.at = "arrived"]
  OBVIOUS
<1>5. late \in BOOLEAN /\ (late => token \in revokedKeys)
  OBVIOUS
<1>6. PICK r5 : r5 = [r4 EXCEPT !.late = late]
  OBVIOUS
<1>7. request' = [request EXCEPT ![c] = r5]
  BY <1>1, <1>2, <1>3, <1>4, <1>6 DEF Begin
<1>8. UNCHANGED <<recordStore, domains, dns, keys, deletedDomains, revokedKeys>>
  BY DEF Begin
<1> HIDE DEF late
<1>9. id \in DomainIds \cup KeyIds \cup {"none"}
  BY DEF TargetsOf
<1>10. r1 \in AdminRequests /\ r1.op = op
  BY <1>1 DEF Waiting, AdminRequests
<1>11. r2 \in AdminRequests /\ r2.op = op /\ r2.id = id
  BY <1>2, <1>9, <1>10 DEF AdminRequests
<1>12. r3 \in AdminRequests /\ r3.op = op /\ r3.id = id /\ r3.token = token
  BY <1>3, <1>11 DEF AdminRequests
<1>13. r4 \in AdminRequests /\ r4.op = op /\ r4.id = id /\ r4.token = token /\ r4.at = "arrived"
  BY <1>4, <1>12 DEF AdminRequests
<1>14. /\ r5 \in AdminRequests /\ r5.op = op /\ r5.id = id /\ r5.token = token
       /\ r5.at = "arrived" /\ r5.late = late
  BY <1>5, <1>6, <1>13 DEF AdminRequests
<1>15. RequestHolds(r5, revokedKeys')
  BY <1>5, <1>8, <1>14 DEF RequestHolds, TargetsOf
<1>16. \A d \in deletedDomains : ~PutsBack(r5, d)
  BY <1>14 DEF PutsBack
<1> QED BY <1>7, <1>8, <1>14, <1>15, <1>16, QuietStep DEF MovesTo

\* A late request is not authenticated: its key is revoked, and a revoked key
\* has no scope.
LEMMA LateIsRefused ==
    ASSUME AdminInv, NEW c \in AdminCallers, NEW allowed, NEW sameOrigin, request[c].late
    PROVE  ~hasScope(Principal(request[c].token, allowed, sameOrigin), request[c].op)
<1>1. request[c].token \in revokedKeys
  BY DEF AdminInv, RequestsHold, RequestHolds
<1>2. request[c].token \in KeyIds /\ keys[request[c].token].revoked
  BY <1>1 DEF AdminInv, RevokedStayRevoked
<1>3. Principal(request[c].token, allowed, sameOrigin) = {}
  BY <1>2 DEF Principal, KeyAccepted
<1> QED BY <1>3 DEF hasScope

\* A request that authenticates begins, and is not late.
LEMMA AuthenticateKeeps ==
    ASSUME AdminInv, NEW c \in AdminCallers, NEW allowed \in BOOLEAN,
           NEW sameOrigin \in BOOLEAN, Authenticate(c, allowed, sameOrigin)
    PROVE  AdminInv'
<1> DEFINE scopes == Principal(request[c].token, allowed, sameOrigin)
           old == request[c]
<1>1. UNCHANGED <<recordStore, domains, dns, keys, deletedDomains, revokedKeys>>
  BY DEF Authenticate
<1>2. CASE ~hasScope(scopes, request[c].op)
  <2>1. Finish(c)
    BY <1>2 DEF Authenticate
  <2> QED BY <1>1, <2>1, RequestEnds
<1>3. CASE hasScope(scopes, request[c].op)
  <2>1. old \in AdminRequests
    BY DEF AdminInv, AdminTypes
  <2>2. ~old.late
    BY <1>3, LateIsRefused, <2>1 DEF AdminRequests
  <2>3. scopes \in SUBSET (GrantableScopes \cup {"*"})
    BY DEF AdminInv, AdminTypes, Principal, KeyRecords
  <2>4. RequestHolds(old, revokedKeys)
    BY DEF AdminInv, RequestsHold
  <2>5. PICK x : x = [[[old EXCEPT !.scopes = scopes] EXCEPT !.at = "begun"]
                      EXCEPT !.token = "none"]
    OBVIOUS
  <2>6. request' = [request EXCEPT ![c] = x]
    <3>1. request' = [request EXCEPT ![c].scopes = scopes, ![c].at = "begun",
                                     ![c].token = "none"]
      BY <1>3 DEF Authenticate
    <3> QED BY <3>1, <2>5, <2>1 DEF AdminInv, AdminTypes
  <2> HIDE DEF old, scopes
  <2>7. /\ x \in AdminRequests /\ x.op = old.op /\ x.id = old.id /\ x.late = old.late
        /\ x.at = "begun"
    <3>1. PICK y : y = [old EXCEPT !.scopes = scopes]
      OBVIOUS
    <3>2. y \in AdminRequests /\ y.op = old.op /\ y.id = old.id /\ y.late = old.late
      BY <3>1, <2>1, <2>3 DEF AdminRequests
    <3>3. PICK z : z = [y EXCEPT !.at = "begun"]
      OBVIOUS
    <3>4. /\ z \in AdminRequests /\ z.op = old.op /\ z.id = old.id /\ z.late = old.late
          /\ z.at = "begun"
      BY <3>2, <3>3 DEF AdminRequests
    <3>5. x = [z EXCEPT !.token = "none"]
      BY <2>5, <3>1, <3>3
    <3> QED BY <3>4, <3>5 DEF AdminRequests
  <2>8. RequestHolds(x, revokedKeys')
    BY <2>2, <2>4, <2>7, <1>1 DEF RequestHolds
  <2>9. \A d \in deletedDomains : ~PutsBack(x, d)
    BY <2>7 DEF PutsBack
  <2> QED BY <1>1, <2>6, <2>7, <2>8, <2>9, QuietStep DEF MovesTo
<1> QED BY <1>2, <1>3


\* A key that is created is a new one: no record that was revoked is written
\* over.
LEMMA CreateKeyKeeps ==
    ASSUME AdminInv, NEW c \in AdminCallers, NEW k \in KeyIds,
           NEW scopes \in SUBSET GrantableScopes, NEW expires \in 0..LastKeyHour + 1,
           CreateKey(c, k, scopes, expires)
    PROVE  AdminInv'
<1> DEFINE key == [scopes |-> scopes, expires |-> expires, revoked |-> FALSE]
<1>1. key \in KeyRecords
  BY DEF KeyRecords
<1>2. keys' = keys \/ keys' = [keys EXCEPT ![k] = key]
  BY DEF CreateKey
<1>3. MovesTo(c, Waiting)
  BY FinishedHolds DEF CreateKey
<1>4. UNCHANGED <<recordStore, domains, dns, deletedDomains, revokedKeys>>
  BY DEF CreateKey
<1>5. k \notin revokedKeys
  BY DEF CreateKey, NoKey, AdminInv, RevokedStayRevoked
<1> HIDE DEF key
<1>6. request' \in [AdminCallers -> AdminRequests] /\ RequestsHold'
  BY <1>3, <1>4, MovedRequestsHold DEF AdminInv
<1>7. AdminTypes'
  BY <1>1, <1>2, <1>4, <1>6 DEF AdminInv, AdminTypes
<1>8. RevokedStayRevoked'
  BY <1>2, <1>4, <1>5 DEF AdminInv, AdminTypes, RevokedStayRevoked
<1>9. DeletedStayDeleted'
  <2>1. \A d \in deletedDomains : Stands(d)'
    BY <1>4, WaitingPutsNothing, StillStands
    DEF CreateKey, Finish, AdminInv, DeletedStayDeleted
  <2> QED BY <1>4, <2>1 DEF AdminInv, DeletedStayDeleted
<1> QED BY <1>6, <1>7, <1>8, <1>9 DEF AdminInv

\* A revocation is answered in the step that stores it.
LEMMA RevokeKeeps ==
    ASSUME AdminInv, NEW c \in AdminCallers, Revoke(c) PROVE AdminInv'
<1> DEFINE k == request[c].id
<1>1. k \in KeyIds
  BY DEF Revoke, AdminInv, RequestsHold, RequestHolds
<1>2. keys' = [keys EXCEPT ![k].revoked = TRUE] /\ revokedKeys' = revokedKeys \cup {k}
  BY DEF Revoke
<1>3. MovesTo(c, Waiting)
  BY FinishedHolds DEF Revoke
<1>4. UNCHANGED <<recordStore, domains, dns, deletedDomains>>
  BY DEF Revoke
<1> HIDE DEF k
<1>5. request' \in [AdminCallers -> AdminRequests] /\ RequestsHold'
  BY <1>2, <1>3, MovedRequestsHold DEF AdminInv
<1>6. [keys[k] EXCEPT !.revoked = TRUE] \in KeyRecords
  BY <1>1 DEF AdminInv, AdminTypes, KeyRecords
<1>7. keys' = [keys EXCEPT ![k] = [keys[k] EXCEPT !.revoked = TRUE]]
  BY <1>1, <1>2 DEF AdminInv, AdminTypes
<1>8. keys' \in [KeyIds -> KeyRecords]
  BY <1>6, <1>7 DEF AdminInv, AdminTypes
<1>9. AdminTypes'
  BY <1>4, <1>5, <1>8 DEF AdminInv, AdminTypes
<1>10. RevokedStayRevoked'
  <2>1. keys[k] \in KeyRecords
    BY <1>1 DEF AdminInv, AdminTypes
  <2>2. [keys[k] EXCEPT !.revoked = TRUE].revoked
    BY <2>1 DEF KeyRecords
  <2> QED BY <1>1, <1>2, <1>7, <2>2 DEF AdminInv, AdminTypes, RevokedStayRevoked
<1>11. DeletedStayDeleted'
  <2>1. \A d \in deletedDomains : Stands(d)'
    BY <1>4, WaitingPutsNothing, StillStands
    DEF Revoke, Finish, AdminInv, DeletedStayDeleted
  <2> QED BY <1>4, <2>1 DEF AdminInv, DeletedStayDeleted
<1> QED BY <1>5, <1>9, <1>10, <1>11 DEF AdminInv

\* The records of the sending domains change one at a time.  A step that
\* writes a domain, and neither brings back a deleted one nor leaves a put
\* outstanding that does, keeps the invariant.
LEMMA DomainStep ==
    ASSUME AdminInv, NEW c \in AdminCallers, NEW d \in DomainIds, NEW status, Finish(c),
           status \in {"none", "pending", "verified", "failed", "deleted"},
           domains' = [domains EXCEPT ![d] = status],
           d \in deletedDomains' => status = "deleted" /\ Stands(d),
           deletedDomains' \subseteq deletedDomains \cup {d},
           UNCHANGED <<recordStore, dns, keys, revokedKeys>>
    PROVE  AdminInv'
<1>1. request' \in [AdminCallers -> AdminRequests] /\ RequestsHold'
  BY FinishedHolds, MovedRequestsHold DEF AdminInv
<1>2. AdminTypes'
  BY <1>1 DEF AdminInv, AdminTypes
<1>3. \A e \in deletedDomains' : e \in DomainIds /\ Stands(e)
  BY DEF AdminInv, DeletedStayDeleted
<1>4. \A e \in deletedDomains' : Stands(e)'
  BY <1>3, WaitingPutsNothing, StillStands DEF Finish, AdminInv
<1>5. \A e \in deletedDomains' : domains'[e] = "deleted"
  BY DEF AdminInv, AdminTypes, DeletedStayDeleted
<1>6. DeletedStayDeleted'
  BY <1>3, <1>4, <1>5 DEF DeletedStayDeleted
<1> QED BY <1>1, <1>2, <1>6 DEF AdminInv, RevokedStayRevoked

\* The record of a created domain is a new one.
LEMMA CreateDomainKeeps ==
    ASSUME AdminInv, NEW c \in AdminCallers, NEW d \in DomainIds, CreateDomain(c, d)
    PROVE  AdminInv'
<1>1. request[c].copy \in {"none", "pending", "verified", "failed"}
  BY DEF AdminInv, AdminTypes, AdminRequests
<1>2. d \notin deletedDomains'
  BY DEF CreateDomain, AdminInv, DeletedStayDeleted
<1> QED BY <1>1, <1>2, DomainStep DEF CreateDomain

\* The update of a verification finds no record where the domain is deleted,
\* and the put of DynamoDB is of a domain whose deletion does not stand.
LEMMA UpdateDomainKeeps ==
    ASSUME AdminInv, NEW c \in AdminCallers, UpdateDomain(c) PROVE AdminInv'
<1> DEFINE d == request[c].id
<1>1. d \in DomainIds
  BY DEF UpdateDomain, AdminInv, RequestsHold, RequestHolds
<1>2. request[c].copy \in {"none", "pending", "verified", "failed"}
  BY DEF AdminInv, AdminTypes, AdminRequests
<1>3. CASE ReadsThenPuts \/ Exists(d)
  <2>1. ASSUME Exists(d) PROVE d \notin deletedDomains'
    BY <2>1 DEF UpdateDomain, AdminInv, DeletedStayDeleted, Exists
  <2>2. ASSUME ReadsThenPuts PROVE d \notin deletedDomains'
    <3>1. recordStore = "dynamo" /\ PutsBack(request[c], d)
      BY <2>2 DEF UpdateDomain, ReadsThenPuts, PutsBack
    <3>2. ~Stands(d)
      BY <3>1 DEF Stands
    <3> QED BY <3>2 DEF UpdateDomain, AdminInv, DeletedStayDeleted
  <2>3. d \notin deletedDomains'
    BY <1>3, <2>1, <2>2
  <2> QED BY <1>1, <1>2, <1>3, <2>3, DomainStep DEF UpdateDomain
<1>4. CASE ~(ReadsThenPuts \/ Exists(d))
  BY <1>4, RequestEnds DEF UpdateDomain
<1> QED BY <1>3, <1>4

\* An update that goes on to its put has found the record.
LEMMA UpdateReadsExisting ==
    ASSUME AdminTypes, DeletedStayDeleted, NEW c \in AdminCallers, UpdateReads(c),
           Go(c, "put", request[c].copy)
    PROVE  request[c].id \notin deletedDomains
<1>1. request[c] \in AdminRequests
  BY DEF AdminTypes
<1>2. request'[c].at = "put"
  BY <1>1 DEF AdminTypes, Go, AdminRequests
<1>3. request' # [request EXCEPT ![c] = Waiting]
  BY <1>2 DEF AdminTypes, Waiting
<1>4. Exists(request[c].id)
  BY <1>3 DEF UpdateReads, Finish
<1> QED BY <1>4 DEF Exists, DeletedStayDeleted

\* A deletion is answered in the step that stores it.
LEMMA DeleteDomainKeeps ==
    ASSUME AdminInv, NEW c \in AdminCallers, DeleteDomain(c) PROVE AdminInv'
<1>1. request[c].id \in DomainIds
  BY DEF DeleteDomain, AdminInv, RequestsHold, RequestHolds
<1>2. deletedDomains' \subseteq deletedDomains \cup {request[c].id}
  BY DEF DeleteDomain
<1>3. request[c].id \in deletedDomains' => Stands(request[c].id)
  BY DEF DeleteDomain, AdminInv, DeletedStayDeleted
<1> QED BY <1>1, <1>2, <1>3, DomainStep DEF DeleteDomain

\* The invariant of the administration is inductive: one step per operation.
LEMMA AdminStep == AdminInv /\ [AdNext]_adVars => AdminInv'
<1> SUFFICES ASSUME AdminInv, [AdNext]_adVars PROVE AdminInv'
  OBVIOUS
<1>1. ASSUME NEW c \in AdminCallers, NEW op \in AdminOps, NEW token \in Tokens,
             NEW yes \in BOOLEAN, NEW id \in TargetsOf(op), Begin(c, op, id, token, yes)
      PROVE  AdminInv'
  BY <1>1, BeginKeeps
<1>2. ASSUME NEW c \in AdminCallers, NEW allowed \in BOOLEAN, NEW sameOrigin \in BOOLEAN,
             Authenticate(c, allowed, sameOrigin)
      PROVE  AdminInv'
  BY <1>2, AuthenticateKeeps
<1>3. ASSUME NEW c \in AdminCallers, NEW k \in KeyIds,
             NEW scopes \in SUBSET GrantableScopes \ {{}},
             NEW expires \in 0..LastKeyHour + 1, CreateKey(c, k, scopes, expires)
      PROVE  AdminInv'
  BY <1>3, CreateKeyKeeps
<1>4. ASSUME NEW c \in AdminCallers, RevokeReads(c) PROVE AdminInv'
  <2>1. PICK r : r = [request[c] EXCEPT !.at = "put"]
    OBVIOUS
  <2>2. request[c] \in AdminRequests /\ RequestHolds(request[c], revokedKeys)
    BY DEF AdminInv, AdminTypes, RequestsHold
  <2>3. request[c].at = "begun" /\ request[c].op = "keys.revoke"
    BY <1>4 DEF RevokeReads
  <2>4. r \in AdminRequests /\ r.at = "put" /\ r.op = request[c].op /\ r.id = request[c].id
        /\ r.late = request[c].late
    BY <2>1, <2>2 DEF AdminRequests
  <2>5. UNCHANGED <<recordStore, domains, dns, keys, deletedDomains, revokedKeys>>
    BY <1>4 DEF RevokeReads
  <2>6. RequestHolds(r, revokedKeys')
    BY <2>2, <2>3, <2>4, <2>5 DEF RequestHolds
  <2>7. request' = [request EXCEPT ![c] = r]
    BY <1>4, <2>1 DEF RevokeReads, AdminInv, AdminTypes
  <2>8. \A d \in deletedDomains : ~PutsBack(r, d)
    BY <2>3, <2>4 DEF PutsBack
  <2> QED BY <2>4, <2>5, <2>6, <2>7, <2>8, QuietStep DEF MovesTo
<1>5. ASSUME NEW c \in AdminCallers, Revoke(c) PROVE AdminInv'
  BY <1>5, RevokeKeeps
<1>6. ASSUME NEW c \in AdminCallers, RevokeUnknown(c) PROVE AdminInv'
  BY <1>6, RequestEnds DEF RevokeUnknown
<1>7. ASSUME NEW c \in AdminCallers, FindDomain(c) PROVE AdminInv'
  <2>1. CASE Go(c, "post", "none")
    BY <1>7, <2>1, GoesOn DEF FindDomain
  <2>2. CASE Finish(c)
    BY <1>7, <2>2, RequestEnds DEF FindDomain
  <2> QED BY <1>7, <2>1, <2>2 DEF FindDomain
<1>8. ASSUME NEW c \in AdminCallers, RegisterDomain(c) PROVE AdminInv'
  <2>1. CASE Go(c, "record", providerResult)
    BY <1>8, <2>1, GoesOn, ProviderResultTyped DEF RegisterDomain, AdminInv
  <2>2. CASE Finish(c)
    BY <1>8, <2>2, RequestEnds DEF RegisterDomain
  <2> QED BY <1>8, <2>1, <2>2 DEF RegisterDomain
<1>9. ASSUME NEW c \in AdminCallers, GetDomain(c) PROVE AdminInv'
  <2>1. CASE Go(c, "provider", "none")
    BY <1>9, <2>1, GoesOn DEF GetDomain
  <2>2. CASE Finish(c)
    BY <1>9, <2>2, RequestEnds DEF GetDomain
  <2> QED BY <1>9, <2>1, <2>2 DEF GetDomain
<1>10. ASSUME NEW c \in AdminCallers, NEW d \in DomainIds, CreateDomain(c, d)
       PROVE  AdminInv'
  BY <1>10, CreateDomainKeeps
<1>11. ASSUME NEW c \in AdminCallers, InspectDomain(c) PROVE AdminInv'
  <2>1. CASE Go(c, "update", providerResult)
    BY <1>11, <2>1, GoesOn, ProviderResultTyped DEF InspectDomain, AdminInv
  <2>2. CASE Finish(c)
    BY <1>11, <2>2, RequestEnds DEF InspectDomain
  <2> QED BY <1>11, <2>1, <2>2 DEF InspectDomain
<1>12. ASSUME NEW c \in AdminCallers, UpdateReads(c) PROVE AdminInv'
  <2>1. CASE Go(c, "put", request[c].copy)
    <3>1. request[c].copy \in {"none", "pending", "verified", "failed"}
      BY DEF AdminInv, AdminTypes, AdminRequests
    <3>2. request[c].id \notin deletedDomains
      BY <1>12, <2>1, UpdateReadsExisting DEF AdminInv
    <3> QED BY <1>12, <2>1, <3>1, <3>2, GoesOn DEF UpdateReads
  <2>2. CASE Finish(c)
    BY <1>12, <2>2, RequestEnds DEF UpdateReads
  <2> QED BY <1>12, <2>1, <2>2 DEF UpdateReads
<1>13. ASSUME NEW c \in AdminCallers, UpdateDomain(c) PROVE AdminInv'
  BY <1>13, UpdateDomainKeeps
<1>14. ASSUME NEW c \in AdminCallers, UnregisterDomain(c) PROVE AdminInv'
  <2>1. CASE Go(c, "remove", "none")
    BY <1>14, <2>1, GoesOn DEF UnregisterDomain
  <2>2. CASE Finish(c)
    BY <1>14, <2>2, RequestEnds DEF UnregisterDomain
  <2> QED BY <1>14, <2>1, <2>2 DEF UnregisterDomain
<1>15. ASSUME NEW c \in AdminCallers, DeleteDomain(c) PROVE AdminInv'
  BY <1>15, DeleteDomainKeeps
<1>16. ASSUME NEW c \in AdminCallers, ReadSuppression(c) PROVE AdminInv'
  BY <1>16, GoesOn DEF ReadSuppression
<1>17. ASSUME NEW c \in AdminCallers, PutSuppression(c) PROVE AdminInv'
  BY <1>17, RequestEnds DEF PutSuppression
<1>18. ASSUME NEW c \in AdminCallers, DeleteSuppression(c) PROVE AdminInv'
  BY <1>18, RequestEnds DEF DeleteSuppression
<1>19. ASSUME NEW c \in AdminCallers, CutShort(c) PROVE AdminInv'
  BY <1>19, RequestEnds DEF CutShort
<1>20. ASSUME NEW state \in {"pending", "verified", "failed"}, DnsChanges(state)
       PROVE  AdminInv'
  BY <1>20 DEF DnsChanges, AdminInv, AdminTypes, RequestsHold, RevokedStayRevoked,
               DeletedStayDeleted, Stands, PutsBack
<1>21. CASE HourPasses
  BY <1>21 DEF HourPasses, AdminInv, AdminTypes, RequestsHold, RevokedStayRevoked,
               DeletedStayDeleted, Stands, PutsBack
<1>22. CASE UNCHANGED adVars
  BY <1>22 DEF adVars, AdminInv, AdminTypes, RequestsHold, RevokedStayRevoked,
               DeletedStayDeleted, Stands, PutsBack
<1> QED
  BY <1>1, <1>2, <1>3, <1>4, <1>5, <1>6, <1>7, <1>8, <1>9, <1>10, <1>11, <1>12, <1>13, <1>14,
     <1>15, <1>16, <1>17, <1>18, <1>19, <1>20, <1>21, <1>22 DEF AdNext

\* What the requests, the keys and the domains hold together, in every state
\* of the administration: no late request past its authentication, no
\* answered revocation or deletion undone.
THEOREM AdminInvariant == AdSpec => []AdminInv
<1>1. AdInit => AdminInv
  <2> SUFFICES ASSUME AdInit PROVE AdminInv
    OBVIOUS
  <2>1. NoKey \in KeyRecords
    BY AdminAssumption DEF NoKey, KeyRecords
  <2>2. Waiting \in AdminRequests
    BY DEF Waiting, AdminRequests
  <2>3. AdminTypes
    BY <2>1, <2>2 DEF AdInit, AdminTypes
  <2>4. RequestsHold
    BY DEF AdInit, RequestsHold, RequestHolds, Waiting
  <2> QED BY <2>3, <2>4 DEF AdInit, AdminInv, RevokedStayRevoked, DeletedStayDeleted
<1> QED BY <1>1, AdminStep, PTL DEF AdSpec

\* A revoked key opens no request that arrives after the answer, and a domain
\* whose deletion was answered does not come back, unless DynamoDB had a put
\* of it outstanding; for any number of requests, keys and domains.
THEOREM AcknowledgementsHoldHolds == AdSpec => []AcknowledgementsHold
<1>1. AdminInv => AcknowledgementsHold
  BY DEF AdminInv, RequestsHold, RequestHolds, DeletedStayDeleted, AcknowledgementsHold, Exists
<1> QED BY <1>1, AdminInvariant, PTL


-----------------------------------------------------------------------------
(* Attachments: what was declared is what is sent.                          *)

AllStores == {"native", "s3", "gcs", "azure", "blob", "memory", "disabled", "inline"}

\* Stores whose check at acceptance tells the declared content from any other.
Checked == {"native", "blob", "memory"}

Objects == [content : Contents \cup {"none"}, checksum : {"none", "declared"}]
UploadRecords == [state : {"none", "open", "closed"}, since : Nat]
Mails == [state : {"none", "accepted", "sent", "failed"}, uses : SUBSET Uploads, due : Nat,
          moved : BOOLEAN, carried : SUBSET (Contents \cup {"none"})]

AttTypes ==
    /\ storage \in AllStores
    /\ day \in Nat
    /\ upload \in [Uploads -> UploadRecords]
    /\ stored \in [Uploads -> Objects]
    /\ mail \in Mails

\* S3 checks the content itself, so that no other is ever stored; a store in
\* memory is only written by the service.
OnlyDeclaredIsStored ==
    storage \in {"native", "memory"} =>
        \A u \in Uploads : stored[u].content \in {"none", "declared"}

\* What an accepted e-mail still needs: every object it refers to outlasts the
\* day it is due, and is the declared one where the check can tell.
Kept(u) ==
    /\ upload[u].state # "none"
    /\ mail.due <= upload[u].since + RetentionDays
    /\ storage \in Checked => stored[u].content = "declared"

AcceptedIsKept ==
    mail.state = "accepted" /\ ~mail.moved => day <= mail.due /\ \A u \in mail.uses : Kept(u)

AttInv ==
    /\ AttTypes
    /\ OnlyDeclaredIsStored
    /\ storage \in {"disabled", "inline"} => mail.uses = {}
    /\ mail.state = "none" => mail.carried = {}
    /\ AcceptedIsKept
    /\ AttachmentsArrive

\* Reading an object back finds the declared content, on every store.
LEMMA ReadBackIsDeclared ==
    ASSUME storage \in AllStores, NEW o \in Objects
    PROVE  /\ ReadBack(o) => o.content = "declared"
           /\ storage \in Checked /\ o.content = "declared" => ReadBack(o)
<1>1. CASE storage = "native"
  BY <1>1 DEF ReadBack, readS3, ValidContent
<1>2. CASE storage = "s3"
  BY <1>2 DEF ReadBack, readS3, ValidContent, Checked
<1>3. CASE storage = "gcs"
  BY <1>3 DEF ReadBack, readGcs, ValidContent, Checked
<1>4. CASE storage = "azure"
  BY <1>4 DEF ReadBack, readAzure, ValidContent, Checked
<1>5. CASE storage = "blob"
  BY <1>5 DEF ReadBack, readBlob, ValidContent, SameSize
<1>6. CASE storage = "memory"
  BY <1>6 DEF ReadBack, readMemory, ValidContent
<1>7. CASE storage = "disabled"
  BY <1>7 DEF ReadBack, Checked
<1>8. CASE storage = "inline"
  BY <1>8 DEF ReadBack, Checked
<1> QED BY <1>1, <1>2, <1>3, <1>4, <1>5, <1>6, <1>7, <1>8 DEF AllStores

\* An object that passes the check at acceptance is the declared one where the
\* store tells, given what S3 and the memory store let in.
LEMMA VerifiedIsDeclared ==
    ASSUME storage \in AllStores, NEW o \in Objects, Verified(o),
           storage \in {"native", "memory"} => o.content \in {"none", "declared"}
    PROVE  /\ storage \in Checked => o.content = "declared"
           /\ storage \notin {"disabled", "inline"}
<1>1. CASE storage = "native"
  BY <1>1 DEF Verified, verifyS3, SameSize
<1>2. CASE storage = "blob"
  BY <1>2 DEF Verified, verifyBlob, readBlob, ValidContent
<1>3. CASE storage = "memory"
  BY <1>3 DEF Verified, verifyMemory, ValidContent
<1>4. CASE storage = "disabled"
  BY <1>4 DEF Verified
<1>5. CASE storage = "inline"
  BY <1>5 DEF Verified
<1> QED BY <1>1, <1>2, <1>3, <1>4, <1>5 DEF AllStores, Checked

\* A step that declares or closes an upload, or puts an object, keeps the
\* invariant when what an accepted e-mail refers to is still there.
LEMMA ObjectStep ==
    ASSUME AttInv, AttTypes', OnlyDeclaredIsStored', UNCHANGED <<storage, day, mail>>,
           mail.state = "accepted" /\ ~mail.moved =>
               \A u \in mail.uses : Kept(u) => Kept(u)'
    PROVE  AttInv'
<1>1. AcceptedIsKept'
  BY DEF AttInv, AcceptedIsKept
<1> QED BY <1>1 DEF AttInv, AttachmentsArrive

\* Declaring an upload, while nothing is accepted.
LEMMA DeclareStep ==
    ASSUME AttInv, NEW u \in Uploads, NEW o \in Objects,
           o.content \in {"none", "declared"},
           mail.state = "none", UNCHANGED <<storage, day, mail>>,
           upload' = [upload EXCEPT ![u] = [state |-> "open", since |-> day]],
           stored' = stored \/ stored' = [stored EXCEPT ![u] = o]
    PROVE  AttInv'
<1>1. [state |-> "open", since |-> day] \in UploadRecords
  BY DEF AttInv, AttTypes, UploadRecords
<1>2. AttTypes'
  BY <1>1 DEF AttInv, AttTypes
<1>3. OnlyDeclaredIsStored'
  BY DEF AttInv, AttTypes, OnlyDeclaredIsStored
<1> QED BY <1>2, <1>3, ObjectStep

\* Putting content under the key of an open upload never takes the declared
\* content of a checked store away.
LEMMA PutStep ==
    ASSUME AttInv, NEW u \in Uploads, NEW o \in Objects, UNCHANGED <<storage, day, upload, mail>>,
           stored' = [stored EXCEPT ![u] = o],
           storage \in {"native", "memory"} => o.content \in {"none", "declared"},
           storage \in Checked /\ stored[u].content = "declared" => o.content = "declared"
    PROVE  AttInv'
<1>1. AttTypes'
  BY DEF AttInv, AttTypes
<1>2. OnlyDeclaredIsStored'
  BY DEF AttInv, AttTypes, OnlyDeclaredIsStored
<1>3. ASSUME NEW v \in mail.uses, Kept(v) PROVE Kept(v)'
  <2>1. v \in Uploads
    BY DEF AttInv, AttTypes, Mails
  <2> QED BY <1>3, <2>1 DEF Kept, AttInv, AttTypes
<1> QED BY <1>1, <1>2, <1>3, ObjectStep

\* A client that holds the target writes a key once, on the stores that check
\* what they were given.
LEMMA DirectUploadKeeps ==
    ASSUME AttInv, NEW u \in Uploads, NEW c \in Contents, NEW obeys \in BOOLEAN,
           DirectUpload(u, c, obeys)
    PROVE  AttInv'
<1> DEFINE sum == IF storage = "azure" /\ ~obeys THEN "none" ELSE "declared"
           o == [content |-> c, checksum |-> sum]
<1>1. o \in Objects
  BY DEF Objects
<1>2. stored' = [stored EXCEPT ![u] = o] /\ UNCHANGED <<storage, day, upload, mail>>
  BY DEF DirectUpload
<1>3. o.content = c
  OBVIOUS
<1>4. stored[u].content = "declared" => stored[u] # NoObject
  BY DEF NoObject
<1>5. storage = "native" => c = "declared"
  BY DEF DirectUpload, NativeAccepts
<1>6. storage # "memory"
  BY DEF DirectUpload
<1>7. storage = "blob" => stored[u] = NoObject
  BY DEF DirectUpload, BlobAccepts
<1> HIDE DEF o
<1> QED BY <1>1, <1>2, <1>3, <1>4, <1>5, <1>6, <1>7, PutStep DEF Checked


\* The uploads of the command line and through the API carry the declared
\* content; a target closes; the bucket removes what no accepted e-mail still
\* needs.
LEMMA OtherUploadsKeep ==
    ASSUME AttInv, NEW u \in Uploads,
           \/ DeclareUpload(u) \/ CloseUpload(u) \/ ObjectExpires(u)
           \/ \E allowed \in BOOLEAN : CliUpload(u, allowed)
           \/ \E c \in Contents : ProxyUpload(u, c)
    PROVE  AttInv'
<1>1. NoObject \in Objects /\ NoObject.content = "none"
  BY DEF NoObject, Objects
<1>2. uploadHeaders(u) \in Objects /\ uploadHeaders(u).content = "declared"
  BY DEF uploadHeaders, Objects, Contents
<1>3. CASE DeclareUpload(u)
  BY <1>1, <1>3, DeclareStep DEF DeclareUpload
<1>4. CASE CloseUpload(u)
  <2>1. UNCHANGED <<storage, day, stored, mail>>
    BY <1>4 DEF CloseUpload
  <2>2. upload' = [upload EXCEPT ![u].state = "closed"]
    BY <1>4 DEF CloseUpload
  <2>3. upload' \in [Uploads -> UploadRecords]
    BY <2>2 DEF AttInv, AttTypes, UploadRecords
  <2>4. \A v \in Uploads : upload'[v].since = upload[v].since
                           /\ (upload[v].state # "none" => upload'[v].state # "none")
    BY <2>2 DEF AttInv, AttTypes, UploadRecords
  <2>5. AttTypes' /\ OnlyDeclaredIsStored'
    BY <2>1, <2>3 DEF AttInv, AttTypes, OnlyDeclaredIsStored
  <2>6. ASSUME NEW v \in mail.uses, Kept(v) PROVE Kept(v)'
    <3>1. v \in Uploads
      BY DEF AttInv, AttTypes, Mails
    <3>2. upload'[v].since = upload[v].since /\ upload'[v].state # "none"
      BY <2>4, <2>6, <3>1 DEF Kept
    <3> QED BY <2>1, <2>6, <3>1, <3>2 DEF Kept
  <2> QED BY <2>1, <2>5, <2>6, ObjectStep
<1>5. CASE ObjectExpires(u)
  <2>1. UNCHANGED <<storage, day, upload, mail>> /\ stored' = [stored EXCEPT ![u] = NoObject]
    BY <1>5 DEF ObjectExpires
  <2>2. AttTypes' /\ OnlyDeclaredIsStored'
    BY <1>1, <2>1 DEF AttInv, AttTypes, OnlyDeclaredIsStored
  <2>3. ASSUME mail.state = "accepted", ~mail.moved, NEW v \in mail.uses, Kept(v)
        PROVE  Kept(v)'
    <3>1. v \in Uploads
      BY DEF AttInv, AttTypes, Mails
    <3>2. v # u
      <4>1. day <= mail.due
        BY <2>3 DEF AttInv, AcceptedIsKept
      <4>2. mail.due <= upload[v].since + RetentionDays
        BY <2>3 DEF Kept
      <4>3. day \in Nat /\ mail.due \in Nat /\ upload[v].since \in Nat
        BY <3>1 DEF AttInv, AttTypes, Mails, UploadRecords
      <4>4. ~Expired(v)
        BY <4>1, <4>2, <4>3, DaysAssumption DEF Expired
      <4> QED BY <1>5, <4>4 DEF ObjectExpires
    <3> QED BY <2>1, <2>3, <3>1, <3>2 DEF Kept, AttInv, AttTypes
  <2> QED BY <2>1, <2>2, <2>3, ObjectStep
<1>6. CASE \E allowed \in BOOLEAN : CliUpload(u, allowed)
  BY <1>2, <1>6, DeclareStep DEF CliUpload
<1>7. CASE \E c \in Contents : ProxyUpload(u, c)
  <2> DEFINE o == [content |-> "declared", checksum |-> "declared"]
  <2>1. o \in Objects /\ o.content = "declared"
    BY DEF Objects, Contents
  <2>2. stored' = [stored EXCEPT ![u] = o] /\ UNCHANGED <<storage, day, upload, mail>>
    BY <1>7 DEF ProxyUpload
  <2> HIDE DEF o
  <2> QED BY <2>1, <2>2, PutStep
<1> QED BY <1>3, <1>4, <1>5, <1>6, <1>7

\* The record of an e-mail that is accepted.
AcceptedFor(uses, due) == [NoMail EXCEPT !.state = "accepted", !.uses = uses, !.due = due]

\* It has the fields it was given, and carries nothing yet.
LEMMA AcceptedMailIs ==
    ASSUME NEW uses \in SUBSET Uploads, NEW due \in Nat
    PROVE  /\ AcceptedFor(uses, due) \in Mails
           /\ AcceptedFor(uses, due).state = "accepted"
           /\ AcceptedFor(uses, due).uses = uses
           /\ AcceptedFor(uses, due).due = due
           /\ AcceptedFor(uses, due).carried = {}
<1>1. PICK m1 : m1 = [NoMail EXCEPT !.state = "accepted"]
  OBVIOUS
<1>2. PICK m2 : m2 = [m1 EXCEPT !.uses = uses]
  OBVIOUS
<1>3. m1 \in Mails /\ m1.state = "accepted" /\ m1.carried = {}
  BY <1>1 DEF NoMail, Mails
<1>4. m2 \in Mails /\ m2.state = "accepted" /\ m2.carried = {} /\ m2.uses = uses
  BY <1>2, <1>3 DEF Mails
<1>5. AcceptedFor(uses, due) = [m2 EXCEPT !.due = due]
  BY <1>1, <1>2 DEF AcceptedFor
<1> QED BY <1>4, <1>5 DEF Mails

\* At acceptance, what is referred to is there, is the declared content where
\* the check can tell, and outlasts the day the e-mail is due.
LEMMA ResolveKeeps ==
    ASSUME AttInv, NEW uses \in SUBSET Uploads, NEW due \in 0..LastDay, Resolve(uses, due)
    PROVE  AttInv'
<1>1. mail' = AcceptedFor(uses, due) /\ UNCHANGED <<storage, day, upload, stored>>
  BY DEF Resolve, AcceptedFor
<1>2. due \in Nat /\ day \in Nat /\ storage \in AllStores
  BY DEF AttInv, AttTypes
<1>3. PICK m : m = AcceptedFor(uses, due)
  OBVIOUS
<1>4. /\ m \in Mails /\ m.state = "accepted" /\ m.uses = uses /\ m.due = due
      /\ m.carried = {}
  BY <1>2, <1>3, AcceptedMailIs
<1>5. mail' = m
  BY <1>1, <1>3
<1>6. day <= due /\ due <= day + ScheduleDays
  BY <1>2, DaysAssumption DEF Resolve
<1>7. ASSUME NEW u \in uses PROVE Kept(u)'
  <2>1. /\ u \in Uploads /\ upload[u].state # "none"
        /\ day < upload[u].since + ReferenceDays /\ Verified(stored[u])
    BY DEF Resolve
  <2>2. upload[u].since \in Nat /\ stored[u] \in Objects
    BY <2>1 DEF AttInv, AttTypes, UploadRecords
  <2>3. storage \in Checked => stored[u].content = "declared"
    <3>1. storage \in {"native", "memory"} => stored[u].content \in {"none", "declared"}
      BY <2>1 DEF AttInv, OnlyDeclaredIsStored
    <3> QED BY <1>2, <2>1, <2>2, <3>1, VerifiedIsDeclared
  <2>4. due <= upload[u].since + RetentionDays
    BY <1>2, <1>6, <2>1, <2>2, DaysAssumption
  <2> QED BY <1>1, <1>4, <1>5, <2>1, <2>3, <2>4 DEF Kept
<1>8. storage \notin {"disabled", "inline"}
  <2>1. PICK u \in uses : Verified(stored[u])
    BY DEF Resolve
  <2>2. stored[u] \in Objects
    BY <2>1 DEF AttInv, AttTypes
  <2>3. storage \in {"native", "memory"} => stored[u].content \in {"none", "declared"}
    BY <2>1 DEF AttInv, OnlyDeclaredIsStored
  <2> QED BY <1>2, <2>1, <2>2, <2>3, VerifiedIsDeclared
<1>9. AttTypes' /\ OnlyDeclaredIsStored'
  BY <1>1, <1>4, <1>5 DEF AttInv, AttTypes, OnlyDeclaredIsStored
<1>10. AcceptedIsKept'
  BY <1>1, <1>4, <1>5, <1>6, <1>7 DEF AcceptedIsKept
<1>11. AttachmentsArrive'
  BY <1>4, <1>5 DEF AttachmentsArrive
<1> QED BY <1>1, <1>4, <1>5, <1>8, <1>9, <1>10, <1>11 DEF AttInv

\* Content that comes with the request refers to nothing.
LEMMA ResolveInlineKeeps ==
    ASSUME AttInv, NEW size, NEW due \in 0..LastDay, ResolveInline(size, due)
    PROVE  AttInv'
<1>1. due \in Nat /\ day \in Nat
  BY DEF AttInv, AttTypes
<1>2. PICK m : m = [NoMail EXCEPT !.state = "accepted", !.due = due]
  OBVIOUS
<1>3. /\ m \in Mails /\ m.state = "accepted" /\ m.uses = {} /\ m.due = due
      /\ m.carried = {}
  <2>1. PICK m1 : m1 = [NoMail EXCEPT !.state = "accepted"]
    OBVIOUS
  <2>2. m1 \in Mails /\ m1.state = "accepted" /\ m1.carried = {} /\ m1.uses = {}
    BY <2>1 DEF NoMail, Mails
  <2>3. m = [m1 EXCEPT !.due = due]
    BY <1>2, <2>1
  <2> QED BY <1>1, <2>2, <2>3 DEF Mails
<1>4. mail' = m /\ UNCHANGED <<storage, day, upload, stored>>
  BY <1>2 DEF ResolveInline
<1>5. day <= due
  BY <1>1, DaysAssumption DEF ResolveInline
<1>6. AttTypes' /\ OnlyDeclaredIsStored'
  BY <1>3, <1>4 DEF AttInv, AttTypes, OnlyDeclaredIsStored
<1>7. AcceptedIsKept' /\ AttachmentsArrive'
  BY <1>3, <1>4, <1>5 DEF AcceptedIsKept, AttachmentsArrive
<1> QED BY <1>3, <1>4, <1>6, <1>7 DEF AttInv

\* An e-mail that is moved keeps what it refers to.
LEMMA MoveMailKeeps ==
    ASSUME AttInv, NEW due \in 0..LastDay, MoveMail(due) PROVE AttInv'
<1>1. due \in Nat /\ mail \in Mails
  BY DEF AttInv, AttTypes
<1>2. PICK m1 : m1 = [mail EXCEPT !.due = due]
  OBVIOUS
<1>3. m1 \in Mails /\ m1.uses = mail.uses /\ m1.state = "accepted" /\ m1.carried = mail.carried
  BY <1>1, <1>2 DEF MoveMail, Mails
<1>4. PICK m : m = [m1 EXCEPT !.moved = TRUE]
  OBVIOUS
<1>5. /\ m \in Mails /\ m.uses = mail.uses /\ m.state = "accepted" /\ m.carried = mail.carried
      /\ m.moved
  BY <1>3, <1>4 DEF Mails
<1>6. mail' = m /\ UNCHANGED <<storage, day, upload, stored>>
  BY <1>2, <1>4 DEF MoveMail
<1>7. AttTypes' /\ OnlyDeclaredIsStored'
  BY <1>5, <1>6 DEF AttInv, AttTypes, OnlyDeclaredIsStored
<1>8. AcceptedIsKept' /\ AttachmentsArrive'
  BY <1>5, <1>6 DEF AttInv, AcceptedIsKept, AttachmentsArrive
<1> QED BY <1>5, <1>6, <1>7, <1>8 DEF AttInv

\* A submission carries only what it read back as declared, and fails for its
\* attachments only where the check at acceptance could not tell.
LEMMA SendMailKeeps ==
    ASSUME AttInv, SendMail PROVE AttInv'
<1>1. mail \in Mails /\ mail.uses \subseteq Uploads /\ storage \in AllStores
  BY DEF AttInv, AttTypes, Mails
<1>2. UNCHANGED <<storage, day, upload, stored>>
  BY DEF SendMail
<1>3. ASSUME NEW u \in mail.uses PROVE stored[u] \in Objects
  BY <1>1 DEF AttInv, AttTypes
<1>4. OnlyDeclaredIsStored'
  BY <1>2 DEF AttInv, OnlyDeclaredIsStored
<1>5. CASE \A u \in mail.uses : ReadBack(stored[u])
  <2> DEFINE content == {stored[u].content : u \in mail.uses}
  <2>1. content \subseteq {"declared"}
    BY <1>1, <1>3, <1>5, ReadBackIsDeclared
  <2>2. PICK m1 : m1 = [mail EXCEPT !.state = "sent"]
    OBVIOUS
  <2>3. m1 \in Mails /\ m1.uses = mail.uses /\ m1.state = "sent"
    BY <1>1, <2>2 DEF Mails
  <2>4. mail' = [m1 EXCEPT !.carried = content]
    BY <1>5, <2>2 DEF SendMail
  <2>5. content \subseteq Contents \cup {"none"}
    BY <2>1 DEF Contents
  <2> HIDE DEF content
  <2>6. mail' \in Mails /\ mail'.uses = mail.uses /\ mail'.state = "sent"
        /\ mail'.carried = content
    BY <2>3, <2>4, <2>5 DEF Mails
  <2> QED BY <1>2, <1>4, <2>1, <2>6 DEF AttInv, AttTypes, AcceptedIsKept, AttachmentsArrive
<1>6. CASE ~(\A u \in mail.uses : ReadBack(stored[u]))
  <2>1. mail' = [mail EXCEPT !.state = "failed"]
    BY <1>6 DEF SendMail
  <2>2. /\ mail' \in Mails /\ mail'.uses = mail.uses /\ mail'.state = "failed"
        /\ mail'.carried = mail.carried /\ mail'.moved = mail.moved
    BY <1>1, <2>1 DEF Mails
  <2>3. ~mail.moved => storage \in {"s3", "gcs", "azure"}
    <3> SUFFICES ASSUME ~mail.moved PROVE storage \in {"s3", "gcs", "azure"}
      OBVIOUS
    <3>1. PICK u \in mail.uses : ~ReadBack(stored[u])
      BY <1>6
    <3>2. Kept(u)
      BY DEF SendMail, AttInv, AcceptedIsKept
    <3>3. storage \notin Checked
      BY <1>1, <1>3, <3>1, <3>2, ReadBackIsDeclared DEF Kept
    <3>4. storage \notin {"disabled", "inline"}
      BY <3>1 DEF AttInv
    <3> QED BY <1>1, <3>3, <3>4 DEF AllStores, Checked
  <2> QED BY <1>2, <1>4, <2>2, <2>3 DEF AttInv, AttTypes, AcceptedIsKept, AttachmentsArrive
<1> QED BY <1>5, <1>6

\* A day passes, and the targets of the day before close; the day an accepted
\* e-mail is due does not pass before it is sent.
LEMMA NextDayKeeps ==
    ASSUME AttInv, NextDay PROVE AttInv'
<1>1. day \in Nat /\ mail.due \in Nat
  BY DEF AttInv, AttTypes, Mails
<1>2. UNCHANGED <<storage, stored, mail>> /\ day' = day + 1
  BY DEF NextDay
<1>3. upload' \in [Uploads -> UploadRecords]
      /\ \A u \in Uploads : /\ upload'[u].since = upload[u].since
                            /\ upload[u].state # "none" => upload'[u].state # "none"
  <2>1. upload' = [u \in Uploads |-> [upload[u] EXCEPT
                      !.state = IF @ = "open" THEN "closed" ELSE @]]
    BY DEF NextDay
  <2>2. ASSUME NEW u \in Uploads
        PROVE  /\ upload'[u] \in UploadRecords
               /\ upload'[u].since = upload[u].since
               /\ upload[u].state # "none" => upload'[u].state # "none"
    <3> DEFINE to == IF upload[u].state = "open" THEN "closed" ELSE upload[u].state
    <3>1. upload'[u] = [upload[u] EXCEPT !.state = to]
      BY <2>1
    <3>2. upload[u] \in UploadRecords
      BY DEF AttInv, AttTypes
    <3>3. to \in {"none", "open", "closed"} /\ (upload[u].state # "none" => to # "none")
      BY <3>2 DEF UploadRecords
    <3> HIDE DEF to
    <3> QED BY <3>1, <3>2, <3>3 DEF UploadRecords
  <2> QED BY <2>1, <2>2
<1>4. AttTypes' /\ OnlyDeclaredIsStored'
  BY <1>1, <1>2, <1>3 DEF AttInv, AttTypes, OnlyDeclaredIsStored
<1>5. AcceptedIsKept'
  <2> SUFFICES ASSUME mail.state = "accepted", ~mail.moved
               PROVE  day + 1 <= mail.due /\ \A u \in mail.uses : Kept(u)'
    BY <1>2 DEF AcceptedIsKept
  <2>1. day <= mail.due /\ \A u \in mail.uses : Kept(u)
    BY DEF AttInv, AcceptedIsKept
  <2>2. day # mail.due
    BY DEF NextDay
  <2>3. ASSUME NEW u \in mail.uses PROVE Kept(u)'
    <3>1. Kept(u) /\ u \in Uploads
      BY <2>1 DEF AttInv, AttTypes, Mails
    <3>2. upload'[u].since = upload[u].since /\ upload'[u].state # "none"
      BY <1>3, <3>1 DEF Kept
    <3> QED BY <1>2, <3>1, <3>2 DEF Kept
  <2> QED BY <1>1, <2>1, <2>2, <2>3
<1>6. AttachmentsArrive'
  BY <1>2 DEF AttInv, AttachmentsArrive
<1> QED BY <1>2, <1>4, <1>5, <1>6 DEF AttInv

\* Attachments are what was declared, and what an accepted e-mail needs is
\* kept, in every state, for every set of uploads and every storage.
THEOREM AttachmentInvariant == AttSpec => []AttInv
<1>1. AttInit => AttInv
  <2> SUFFICES ASSUME AttInit PROVE AttInv
    OBVIOUS
  <2>1. NoObject \in Objects /\ NoObject.content = "none"
    BY DEF NoObject, Objects
  <2>2. NoMail \in Mails /\ NoMail.state = "none" /\ NoMail.carried = {} /\ NoMail.uses = {}
    BY DEF NoMail, Mails
  <2>3. [state |-> "none", since |-> 0] \in UploadRecords
    BY DEF UploadRecords
  <2>4. storage \in AllStores
    BY StoreKindsAssumption DEF AttInit, AllStores, createPortableAttachmentStorage
  <2>5. AttTypes /\ OnlyDeclaredIsStored
    BY <2>1, <2>2, <2>3, <2>4 DEF AttInit, AttTypes, OnlyDeclaredIsStored
  <2> QED BY <2>2, <2>5 DEF AttInit, AttInv, AcceptedIsKept, AttachmentsArrive
<1>2. AttInv /\ [AttNext]_attVars => AttInv'
  <2> SUFFICES ASSUME AttInv, [AttNext]_attVars PROVE AttInv'
    OBVIOUS
  <2>1. ASSUME NEW u \in Uploads, NEW c \in Contents, NEW obeys \in BOOLEAN,
               DirectUpload(u, c, obeys)
        PROVE  AttInv'
    BY <2>1, DirectUploadKeeps
  <2>2. ASSUME NEW u \in Uploads,
               \/ DeclareUpload(u) \/ CloseUpload(u) \/ ObjectExpires(u)
               \/ \E allowed \in BOOLEAN : CliUpload(u, allowed)
               \/ \E c \in Contents : ProxyUpload(u, c)
        PROVE  AttInv'
    BY <2>2, OtherUploadsKeep
  <2>3. ASSUME NEW uses \in SUBSET Uploads, NEW due \in 0 .. LastDay, Resolve(uses, due)
        PROVE  AttInv'
    BY <2>3, ResolveKeeps
  <2>4. ASSUME NEW size \in {1, 20, 26}, NEW due \in 0 .. LastDay, ResolveInline(size, due)
        PROVE  AttInv'
    BY <2>4, ResolveInlineKeeps
  <2>5. ASSUME NEW due \in 0 .. LastDay, MoveMail(due) PROVE AttInv'
    BY <2>5, MoveMailKeeps
  <2>6. CASE SendMail
    BY <2>6, SendMailKeeps
  <2>7. CASE NextDay
    BY <2>7, NextDayKeeps
  <2>8. CASE UNCHANGED attVars
    BY <2>8 DEF attVars, AttInv, AttTypes, OnlyDeclaredIsStored, AcceptedIsKept, Kept,
                AttachmentsArrive
  <2> QED BY <2>1, <2>2, <2>3, <2>4, <2>5, <2>6, <2>7, <2>8 DEF AttNext
<1> QED BY <1>1, <1>2, PTL DEF AttSpec

\* What an e-mail carries is what was declared, and an e-mail that was accepted
\* and not moved fails for its attachments only on a store that does not check
\* what it is given.
THEOREM AttachmentsArriveHolds == AttSpec => []AttachmentsArrive
<1>1. AttInv => AttachmentsArrive
  BY DEF AttInv
<1> QED BY <1>1, AttachmentInvariant, PTL


-----------------------------------------------------------------------------
(* E-mail intake: one e-mail per key and window, and answers of the own     *)
(* request.                                                                 *)

Claims == [email : Calls, hash : Hashes, expires : Nat]
Points == {"look", "clear", "write", "relook", "announce", "done"}
Requests == [pc : Points, key : Keys, hash : Hashes, at : Nat, cleared : Claims \cup {NoClaim}]
Emails == [key : Keys, hash : Hashes, at : Nat, committed : Nat]
Answers == [kind : {"replayed", "conflict", "created", "error"}, email : Calls, ended : Nat]

IntakeTypes ==
    /\ now \in Nat
    /\ claim \in [Keys -> Claims \cup {NoClaim}]
    /\ Accepted \subseteq Calls
    /\ email \in [Accepted -> Emails]
    /\ call \in [Calls -> [pc : {"idle"}] \cup Requests]
    /\ answer \in [Calls -> [kind : {"none"}] \cup Answers]
    /\ owed \in [Calls -> Claims \cup {NoClaim}]

\* A request that is under way is younger than its limit.
InTime(c) == Active(c) => call[c].at <= now /\ now <= call[c].at + CallLimit

\* The claim that a transaction deletes had expired when the request began.
ClearedIsOver(c) ==
    call[c].pc # "idle" /\ call[c].cleared # NoClaim => call[c].cleared.expires <= call[c].at

\* The claim that a request met stands as long as it lives, and such a request
\* does not commit an e-mail of its own.
OwedStands(c) ==
    Active(c) /\ owed[c] # NoClaim /\ now < owed[c].expires =>
        claim[call[c].key] = owed[c] /\ call[c].pc # "announce"

CallHolds(c) ==
    /\ InTime(c)
    /\ ClearedIsOver(c)
    /\ OwedStands(c)
    /\ call[c].pc = "announce" => c \in Accepted
    /\ answer[c].kind # "none" => call[c].pc = "done"

\* An accepted e-mail is its call's, and was committed within its limit.
EmailHolds(e) ==
    /\ call[e].pc \in {"announce", "done"}
    /\ email[e].key = call[e].key /\ email[e].hash = call[e].hash
    /\ email[e].committed <= email[e].at + CallLimit
    /\ email[e].committed <= now

\* A claim is of an accepted e-mail under its key, and lives a window from the
\* day that the e-mail's request began.
ClaimHolds(k) ==
    claim[k] # NoClaim =>
        /\ claim[k].email \in Accepted
        /\ email[claim[k].email].key = k
        /\ email[claim[k].email].hash = claim[k].hash
        /\ claim[k].expires = email[claim[k].email].at + Window

\* An e-mail that the claim of its key no longer names has outlived its window.
Superseded(e) ==
    claim[email[e].key] = NoClaim \/ claim[email[e].key].email # e =>
        email[e].at + Window <= now

\* What one answer owes its caller: AnswerMatchesRequest and ClaimIsHonoured
\* of one call.
Matches(c) ==
    answer[c].kind \in {"created", "replayed"} =>
        /\ answer[c].email \in Accepted
        /\ email[answer[c].email].key = call[c].key
        /\ email[answer[c].email].hash = call[c].hash

Honours(c) ==
    /\ answer[c].kind \notin {"none", "error"}
    /\ owed[c] # NoClaim
    /\ answer[c].ended < owed[c].expires
    => IF call[c].hash = owed[c].hash
         THEN answer[c].kind = "replayed" /\ answer[c].email = owed[c].email
         ELSE answer[c].kind = "conflict"

IntakeInv ==
    /\ IntakeTypes
    /\ \A c \in Calls : CallHolds(c) /\ Matches(c) /\ Honours(c)
    /\ \A e \in Accepted : EmailHolds(e) /\ Superseded(e)
    /\ \A k \in Keys : ClaimHolds(k)
    /\ OneEmailPerWindow

\* A request that has begun has all its fields.
LEMMA BegunIsRequest ==
    ASSUME IntakeTypes, NEW c \in Calls, call[c].pc # "idle" PROVE call[c] \in Requests
BY DEF IntakeTypes

\* The request of one call goes on as x, to another point, with the claim it
\* deletes, and is otherwise the same.
Becomes(c, x, pc, cleared) ==
    /\ x \in Requests
    /\ x.pc = pc /\ x.cleared = cleared
    /\ x.key = call[c].key /\ x.hash = call[c].hash /\ x.at = call[c].at
    /\ call' = [call EXCEPT ![c] = x]

\* Going on to another point changes nothing else of a request.
LEMMA GoingOn ==
    ASSUME IntakeTypes, NEW c \in Calls, call[c].pc # "idle", NEW pc \in Points,
           call' = [call EXCEPT ![c].pc = pc]
    PROVE  \E x : Becomes(c, x, pc, call[c].cleared)
<1>1. call[c] \in Requests
  BY BegunIsRequest
<1>2. PICK x : x = [call[c] EXCEPT !.pc = pc]
  OBVIOUS
<1>3. /\ x \in Requests /\ x.pc = pc /\ x.cleared = call[c].cleared
      /\ x.key = call[c].key /\ x.hash = call[c].hash /\ x.at = call[c].at
  BY <1>1, <1>2 DEF Requests
<1>4. call' = [call EXCEPT ![c] = x]
  BY <1>2 DEF IntakeTypes
<1> QED BY <1>3, <1>4 DEF Becomes

\* What makes an answer right for the call that gets it now.
Right(c, a) ==
    /\ a \in Answers
    /\ a.ended = now
    /\ a.kind \in {"created", "replayed"} =>
         /\ a.email \in Accepted
         /\ email[a.email].key = call[c].key
         /\ email[a.email].hash = call[c].hash
    /\ a.kind # "error" /\ owed[c] # NoClaim /\ now < owed[c].expires =>
         IF call[c].hash = owed[c].hash
           THEN a.kind = "replayed" /\ a.email = owed[c].email
           ELSE a.kind = "conflict"

\* A step of one call that writes no e-mail and no claim keeps the invariant:
\* it either goes on before its commit, or ends with a right answer.
LEMMA CallStep ==
    ASSUME IntakeInv, NEW c \in Calls, Active(c), NEW pc, NEW cleared, NEW x,
           Becomes(c, x, pc, cleared),
           cleared # NoClaim => cleared.expires <= call[c].at,
           \/ /\ pc \in {"look", "clear", "write", "relook"} /\ call[c].pc # "announce"
              /\ answer' = answer
           \/ /\ pc = "done"
              /\ \E a : Right(c, a) /\ answer' = [answer EXCEPT ![c] = a],
           UNCHANGED <<backend, now, claim, email, owed>>
    PROVE  IntakeInv'
<1>1. /\ call' = [call EXCEPT ![c] = x] /\ x \in Requests
      /\ x.pc = pc /\ x.cleared = cleared
      /\ x.key = call[c].key /\ x.hash = call[c].hash /\ x.at = call[c].at
  BY DEF Becomes
<1>2. call'[c] = x /\ \A d \in Calls : d # c => call'[d] = call[d]
  BY <1>1 DEF IntakeInv, IntakeTypes
<1>3. \A d \in Calls : d # c => answer'[d] = answer[d]
  BY DEF IntakeInv, IntakeTypes
<1>4. answer' \in [Calls -> [kind : {"none"}] \cup Answers]
  BY DEF IntakeInv, IntakeTypes, Right
<1>5. Accepted' = Accepted
  BY DEF Accepted
<1>6. IntakeTypes'
  BY <1>1, <1>4, <1>5 DEF IntakeInv, IntakeTypes
<1>7. ASSUME NEW d \in Calls PROVE CallHolds(d)' /\ Matches(d)' /\ Honours(d)'
  <2>1. CallHolds(d) /\ Matches(d) /\ Honours(d)
    BY DEF IntakeInv
  <2>2. CASE d # c
    <3>1. call'[d] = call[d] /\ answer'[d] = answer[d]
      BY <1>2, <1>3, <2>2
    <3> QED
      BY <2>1, <3>1, <1>5 DEF CallHolds, InTime, ClearedIsOver, OwedStands, Active, Matches,
                              Honours
  <2>3. CASE d = c
    <3>1. CallHolds(c)
      BY <2>1, <2>3
    <3>2. CASE /\ pc \in {"look", "clear", "write", "relook"} /\ call[c].pc # "announce"
               /\ answer' = answer
      <4>1. answer[c].kind = "none"
        BY <3>1 DEF CallHolds, Active
      <4>2. CallHolds(c)'
        BY <1>1, <1>2, <3>1, <3>2, <4>1 DEF CallHolds, InTime, ClearedIsOver, OwedStands, Active
      <4> QED BY <2>3, <3>2, <4>1, <4>2 DEF Matches, Honours
    <3>3. CASE /\ pc = "done"
               /\ \E a : Right(c, a) /\ answer' = [answer EXCEPT ![c] = a]
      <4>1. PICK a : Right(c, a) /\ answer' = [answer EXCEPT ![c] = a]
        BY <3>3
      <4>2. answer'[c] = a
        BY <4>1 DEF IntakeInv, IntakeTypes
      <4>3. CallHolds(c)'
        BY <1>1, <1>2, <3>1, <3>3 DEF CallHolds, InTime, ClearedIsOver, OwedStands, Active
      <4>4. Matches(c)'
        BY <1>1, <1>2, <1>5, <4>1, <4>2 DEF Matches, Right
      <4>5. Honours(c)'
        BY <1>1, <1>2, <4>1, <4>2 DEF Honours, Right
      <4> QED BY <2>3, <4>3, <4>4, <4>5
    <3> QED BY <3>2, <3>3
  <2> QED BY <2>2, <2>3
<1>8. ASSUME NEW e \in Accepted PROVE EmailHolds(e)' /\ Superseded(e)'
  <2>1. EmailHolds(e) /\ Superseded(e) /\ e \in Calls
    BY DEF IntakeInv, IntakeTypes
  <2>2. e = c => pc = "done"
    BY <2>1 DEF EmailHolds, Active
  <2>3. EmailHolds(e)'
    BY <1>1, <1>2, <2>1, <2>2 DEF EmailHolds
  <2> QED BY <2>1, <2>3 DEF Superseded
<1>9. \A k \in Keys : ClaimHolds(k)'
  BY <1>5 DEF IntakeInv, ClaimHolds
<1>10. OneEmailPerWindow'
  BY <1>5 DEF IntakeInv, OneEmailPerWindow
<1> QED BY <1>5, <1>6, <1>7, <1>8, <1>9, <1>10 DEF IntakeInv


\* End, the last step of a request, with a right answer.
LEMMA EndKeeps ==
    ASSUME IntakeInv, NEW c \in Calls, Active(c), NEW kind, NEW e, End(c, kind, e),
           Right(c, [kind |-> kind, email |-> e, ended |-> now]),
           UNCHANGED <<backend, now, claim, email, owed>>
    PROVE  IntakeInv'
<1>1. PICK x : Becomes(c, x, "done", call[c].cleared)
  BY GoingOn DEF End, Active, IntakeInv, Points
<1>2. PICK a : a = [kind |-> kind, email |-> e, ended |-> now]
  OBVIOUS
<1>3. Right(c, a) /\ answer' = [answer EXCEPT ![c] = a]
  BY <1>2 DEF End
<1>4. call[c].cleared # NoClaim => call[c].cleared.expires <= call[c].at
  BY DEF IntakeInv, CallHolds, ClearedIsOver, Active
<1> QED BY <1>1, <1>3, <1>4, CallStep

\* Goto, a step to another point before the commit.
LEMMA GotoKeeps ==
    ASSUME IntakeInv, NEW c \in Calls, Active(c), NEW pc \in {"clear", "write", "relook"},
           Goto(c, pc), call[c].pc # "announce",
           UNCHANGED <<backend, now, claim, email, owed>>
    PROVE  IntakeInv'
<1>1. PICK x : Becomes(c, x, pc, call[c].cleared)
  BY GoingOn DEF Goto, Active, IntakeInv, Points
<1>2. call[c].cleared # NoClaim => call[c].cleared.expires <= call[c].at
  BY DEF IntakeInv, CallHolds, ClearedIsOver, Active
<1> QED BY <1>1, <1>2, CallStep DEF Goto

\* ReplayOf answers with the e-mail of the claim that stands, to the request
\* that made it, and refuses any other: both are what is owed.
LEMMA ReplayKeeps ==
    ASSUME IntakeInv, NEW c \in Calls, Active(c), claim[call[c].key] # NoClaim, ReplayOf(c),
           UNCHANGED <<backend, now, claim, email, owed>>
    PROVE  IntakeInv'
<1> DEFINE found == claim[call[c].key]
<1>1. call[c] \in Requests
  BY BegunIsRequest DEF IntakeInv, Active
<1>2. call[c].key \in Keys /\ found \in Claims
  BY <1>1 DEF IntakeInv, IntakeTypes, Requests
<1>3. /\ found.email \in Accepted /\ email[found.email].key = call[c].key
      /\ email[found.email].hash = found.hash
  BY <1>2 DEF IntakeInv, ClaimHolds
<1>4. now \in Nat /\ Accepted \subseteq Calls
  BY DEF IntakeInv, IntakeTypes
<1>5. owed[c] # NoClaim /\ now < owed[c].expires => found = owed[c]
  BY DEF IntakeInv, CallHolds, OwedStands
<1>6. CASE found.hash = call[c].hash
  <2>1. End(c, "replayed", found.email)
    BY <1>6 DEF ReplayOf
  <2>2. PICK a : a = [kind |-> "replayed", email |-> found.email, ended |-> now]
    OBVIOUS
  <2>3. a \in Answers /\ a.kind = "replayed" /\ a.email = found.email /\ a.ended = now
    BY <1>3, <1>4, <2>2 DEF Answers
  <2>4. Right(c, a)
    BY <1>3, <1>5, <1>6, <2>3 DEF Right
  <2> QED BY <2>1, <2>2, <2>4, EndKeeps
<1>7. CASE found.hash # call[c].hash
  <2>1. End(c, "conflict", c)
    BY <1>7 DEF ReplayOf
  <2>2. PICK a : a = [kind |-> "conflict", email |-> c, ended |-> now]
    OBVIOUS
  <2>3. a \in Answers /\ a.kind = "conflict" /\ a.ended = now
    BY <1>4, <2>2 DEF Answers
  <2>4. Right(c, a)
    BY <1>5, <1>7, <2>3 DEF Right
  <2> QED BY <2>1, <2>2, <2>4, EndKeeps
<1> QED BY <1>6, <1>7

\* An error owes nothing.
LEMMA ErrorKeeps ==
    ASSUME IntakeInv, NEW c \in Calls, Active(c), End(c, "error", c),
           UNCHANGED <<backend, now, claim, email, owed>>
    PROVE  IntakeInv'
<1>1. PICK a : a = [kind |-> "error", email |-> c, ended |-> now]
  OBVIOUS
<1>2. a \in Answers /\ a.kind = "error" /\ a.ended = now
  BY <1>1 DEF Answers, IntakeInv, IntakeTypes
<1>3. Right(c, a)
  BY <1>2 DEF Right
<1> QED BY <1>1, <1>3, EndKeeps

\* The first look at the claims.
LEMMA LookKeeps ==
    ASSUME IntakeInv, NEW c \in Calls, LookForReplay(c) PROVE IntakeInv'
<1>1. Active(c) /\ call[c].pc # "announce" /\ UNCHANGED <<backend, now, claim, email, owed>>
  BY DEF LookForReplay, Active
<1>2. CASE LiveAt(call[c].key, call[c].at)
  BY <1>1, <1>2, ReplayKeeps DEF LookForReplay, LiveAt
<1>3. CASE ~LiveAt(call[c].key, call[c].at)
  <2>1. PICK pc \in {"clear", "write"} : Goto(c, pc)
    BY <1>3 DEF LookForReplay
  <2> QED BY <1>1, <2>1, GotoKeeps
<1> QED BY <1>2, <1>3

\* The transaction deletes only a claim that had expired by the request's
\* clock.
LEMMA ClearKeeps ==
    ASSUME IntakeInv, NEW c \in Calls, ClearExpired(c) PROVE IntakeInv'
<1>1. Active(c) /\ call[c].pc = "clear" /\ UNCHANGED <<backend, now, claim, email, owed, answer>>
  BY DEF ClearExpired, Active
<1>2. call[c] \in Requests
  BY <1>1, BegunIsRequest DEF IntakeInv, Active
<1>3. call[c].key \in Keys /\ call[c].at \in Nat /\ claim[call[c].key] \in Claims \cup {NoClaim}
  BY <1>2 DEF IntakeInv, IntakeTypes, Requests
<1>4. PICK cleared : cleared = Cleared(c)
  OBVIOUS
<1>5. cleared \in Claims \cup {NoClaim}
      /\ (cleared # NoClaim => cleared.expires <= call[c].at)
  BY <1>3, <1>4 DEF Cleared, LiveAt, Claims
<1>6. PICK y : y = [call[c] EXCEPT !.pc = "write"]
  OBVIOUS
<1>7. y \in Requests /\ y.pc = "write" /\ y.key = call[c].key /\ y.hash = call[c].hash
      /\ y.at = call[c].at
  BY <1>2, <1>6 DEF Requests, Points
<1>8. PICK x : x = [y EXCEPT !.cleared = cleared]
  OBVIOUS
<1>9. /\ x \in Requests /\ x.pc = "write" /\ x.cleared = cleared
      /\ x.key = call[c].key /\ x.hash = call[c].hash /\ x.at = call[c].at
  BY <1>5, <1>7, <1>8 DEF Requests
<1>10. call' = [call EXCEPT ![c] = x]
  BY <1>4, <1>6, <1>8 DEF ClearExpired, IntakeInv, IntakeTypes
<1>11. Becomes(c, x, "write", cleared)
  BY <1>9, <1>10 DEF Becomes
<1> QED BY <1>1, <1>5, <1>11, CallStep

\* A claim in the way of the commit.
LEMMA RefusedKeeps ==
    ASSUME IntakeInv, NEW c \in Calls, CommitRefused(c) PROVE IntakeInv'
<1>1. Active(c) /\ call[c].pc # "announce" /\ UNCHANGED <<backend, now, claim, email, owed>>
  BY DEF CommitRefused, Active
<1>2. claim[call[c].key] # NoClaim
  BY DEF CommitRefused, Free
<1>3. CASE backend = "memory"
  BY <1>1, <1>2, <1>3, ReplayKeeps DEF CommitRefused
<1>4. CASE backend # "memory"
  BY <1>1, <1>4, GotoKeeps DEF CommitRefused
<1> QED BY <1>3, <1>4

\* The look after a failed write: the claim is replayed, or it had expired by
\* the request's clock and nothing is owed any more.
LEMMA LookAgainKeeps ==
    ASSUME IntakeInv, NEW c \in Calls, LookAgain(c) PROVE IntakeInv'
<1>1. Active(c) /\ UNCHANGED <<backend, now, claim, email, owed>>
  BY DEF LookAgain, Active
<1>2. CASE ReplayOf(c) /\ claim[call[c].key] # NoClaim
  BY <1>1, <1>2, ReplayKeeps
<1>3. CASE ~LiveAt(call[c].key, call[c].at) /\ End(c, "conflict", c)
  <2>1. PICK a : a = [kind |-> "conflict", email |-> c, ended |-> now]
    OBVIOUS
  <2>2. a \in Answers /\ a.kind = "conflict" /\ a.ended = now
    BY <2>1 DEF Answers, IntakeInv, IntakeTypes
  <2>3. ~(owed[c] # NoClaim /\ now < owed[c].expires)
    <3> SUFFICES ASSUME owed[c] # NoClaim, now < owed[c].expires PROVE FALSE
      OBVIOUS
    <3>1. claim[call[c].key] = owed[c] /\ call[c].at <= now
      BY <1>1 DEF IntakeInv, CallHolds, OwedStands, InTime
    <3>2. call[c] \in Requests
      BY <1>1, BegunIsRequest DEF IntakeInv, Active
    <3>3. call[c].at \in Nat /\ now \in Nat /\ owed[c].expires \in Nat
      BY <3>2 DEF IntakeInv, IntakeTypes, Requests, Claims
    <3> QED BY <1>3, <3>1, <3>3 DEF LiveAt
  <2>4. Right(c, a)
    BY <2>2, <2>3 DEF Right
  <2> QED BY <1>1, <1>3, <2>1, <2>4, EndKeeps
<1>4. CASE End(c, "error", c)
  BY <1>1, <1>4, ErrorKeeps
<1> QED BY <1>2, <1>3, <1>4 DEF LookAgain, LiveAt

\* The call that committed an e-mail answers with it, and owed nothing else.
LEMMA AnnounceKeeps ==
    ASSUME IntakeInv, NEW c \in Calls, Announce(c) PROVE IntakeInv'
<1>1. Active(c) /\ call[c].pc = "announce" /\ UNCHANGED <<backend, now, claim, email, owed>>
  BY DEF Announce, Active
<1>2. CASE End(c, "error", c)
  BY <1>1, <1>2, ErrorKeeps
<1>3. CASE End(c, "created", c)
  <2>1. PICK a : a = [kind |-> "created", email |-> c, ended |-> now]
    OBVIOUS
  <2>2. a \in Answers /\ a.kind = "created" /\ a.email = c /\ a.ended = now
    BY <2>1 DEF Answers, IntakeInv, IntakeTypes
  <2>3. CallHolds(c)
    BY DEF IntakeInv
  <2>4. c \in Accepted /\ ~(owed[c] # NoClaim /\ now < owed[c].expires)
    BY <1>1, <2>3 DEF CallHolds, OwedStands
  <2>5. EmailHolds(c)
    BY <2>4 DEF IntakeInv
  <2>6. Right(c, a)
    BY <2>2, <2>4, <2>5 DEF Right, EmailHolds
  <2> QED BY <1>1, <1>3, <2>1, <2>6, EndKeeps
<1> QED BY <1>2, <1>3 DEF Announce

\* A lost request is answered with an error.
LEMMA LoseKeeps ==
    ASSUME IntakeInv, NEW c \in Calls, Lose(c) PROVE IntakeInv'
BY ErrorKeeps DEF Lose

\* A request that begins is in time, and what it is owed stands.
LEMMA StartKeeps ==
    ASSUME IntakeInv, NEW c \in Calls, NEW k \in Keys, NEW h \in Hashes, Start(c, k, h)
    PROVE  IntakeInv'
<1>1. UNCHANGED <<backend, now, claim, email, answer>> /\ call[c].pc = "idle" /\ now \in Nat
  BY DEF Start, IntakeInv, IntakeTypes
<1>2. PICK pc \in {"look", "write"} :
          call' = [call EXCEPT ![c] = [pc |-> pc, key |-> k, hash |-> h, at |-> now,
                                       cleared |-> NoClaim]]
  BY DEF Start
<1>3. PICK x : x = [pc |-> pc, key |-> k, hash |-> h, at |-> now, cleared |-> NoClaim]
  OBVIOUS
<1>4. /\ x \in Requests /\ x.pc = pc /\ x.key = k /\ x.at = now /\ x.cleared = NoClaim
  BY <1>1, <1>3 DEF Requests, Points
<1>5. PICK o : o = IF LiveAt(k, now) THEN claim[k] ELSE NoClaim
  OBVIOUS
<1>6. owed' = [owed EXCEPT ![c] = o]
  BY <1>5 DEF Start
<1>7. o \in Claims \cup {NoClaim} /\ (o # NoClaim => o = claim[k])
  BY <1>5 DEF IntakeInv, IntakeTypes
<1>8. call' = [call EXCEPT ![c] = x]
  BY <1>2, <1>3
<1>9. call'[c] = x /\ owed'[c] = o
      /\ \A d \in Calls : d # c => call'[d] = call[d] /\ owed'[d] = owed[d]
  BY <1>6, <1>8 DEF IntakeInv, IntakeTypes
<1>10. Accepted' = Accepted
  BY <1>1 DEF Accepted
<1>11. IntakeTypes'
  BY <1>1, <1>4, <1>6, <1>7, <1>8, <1>10 DEF IntakeInv, IntakeTypes
<1>12. ASSUME NEW d \in Calls PROVE CallHolds(d)' /\ Matches(d)' /\ Honours(d)'
  <2>1. CallHolds(d) /\ Matches(d) /\ Honours(d)
    BY DEF IntakeInv
  <2>2. CASE d # c
    <3>1. call'[d] = call[d] /\ answer'[d] = answer[d] /\ owed'[d] = owed[d]
      BY <1>1, <1>9, <2>2
    <3> QED
      BY <1>1, <1>10, <2>1, <3>1 DEF CallHolds, InTime, ClearedIsOver, OwedStands, Active,
                                     Matches, Honours
  <2>3. CASE d = c
    <3>1. answer[c].kind = "none"
      BY <1>1, <2>1, <2>3 DEF CallHolds
    <3>2. answer'[c].kind = "none"
      BY <1>1, <3>1
    <3>3. CallHolds(c)'
      <4>1. InTime(c)'
        BY <1>1, <1>4, <1>9, WindowAssumption DEF InTime
      <4>2. ClearedIsOver(c)'
        BY <1>4, <1>9 DEF ClearedIsOver
      <4>3. OwedStands(c)'
        BY <1>1, <1>4, <1>7, <1>9 DEF OwedStands
      <4> QED BY <1>4, <1>9, <3>2, <4>1, <4>2, <4>3 DEF CallHolds
    <3> QED BY <2>3, <3>2, <3>3 DEF Matches, Honours
  <2> QED BY <2>2, <2>3
<1>13. ASSUME NEW e \in Accepted PROVE EmailHolds(e)' /\ Superseded(e)'
  <2>1. EmailHolds(e) /\ Superseded(e) /\ e \in Calls
    BY DEF IntakeInv, IntakeTypes
  <2>2. call'[e] = call[e]
    BY <1>1, <1>9, <2>1 DEF EmailHolds
  <2> QED BY <1>1, <2>1, <2>2 DEF EmailHolds, Superseded
<1>14. \A k2 \in Keys : ClaimHolds(k2)'
  BY <1>1, <1>10 DEF IntakeInv, ClaimHolds
<1>15. OneEmailPerWindow'
  BY <1>1, <1>10 DEF IntakeInv, OneEmailPerWindow
<1> QED BY <1>10, <1>11, <1>12, <1>13, <1>14, <1>15 DEF IntakeInv


\* Where nothing stands in the way of a commit, every e-mail of the key has
\* outlived its window, and no request is owed the claim that is replaced.
LEMMA FreeMeansOver ==
    ASSUME IntakeInv, NEW c \in Calls, call[c].pc = "write", Free(c)
    PROVE  /\ \A e \in Accepted : email[e].key = call[c].key => email[e].at + Window <= now
           /\ claim[call[c].key] # NoClaim => claim[call[c].key].expires <= now
<1> DEFINE k == call[c].key
           found == claim[k]
<1>1. call[c] \in Requests /\ CallHolds(c) /\ Active(c)
  BY BegunIsRequest DEF IntakeInv, Active
<1>2. k \in Keys /\ call[c].at \in Nat /\ now \in Nat /\ found \in Claims \cup {NoClaim}
  BY <1>1 DEF IntakeInv, IntakeTypes, Requests
<1>3. call[c].at <= now
  BY <1>1 DEF CallHolds, InTime
<1>4. call[c].cleared # NoClaim => call[c].cleared.expires <= call[c].at
  BY <1>1 DEF CallHolds, ClearedIsOver, Active
<1>5. found # NoClaim => found.expires <= now
  <2> SUFFICES ASSUME found # NoClaim PROVE found.expires <= now
    OBVIOUS
  <2>1. found.expires \in Nat
    BY <1>2 DEF Claims
  <2>2. CASE ~LiveAt(k, call[c].at)
    BY <1>2, <1>3, <2>1, <2>2 DEF LiveAt
  <2>3. CASE found = call[c].cleared
    BY <1>2, <1>3, <1>4, <2>1, <2>3
  <2> QED BY <2>2, <2>3 DEF Free
<1>6. ASSUME NEW e \in Accepted, email[e].key = k PROVE email[e].at + Window <= now
  <2>1. Superseded(e)
    BY DEF IntakeInv
  <2>2. CASE found # NoClaim /\ found.email = e
    <3>1. found.expires = email[e].at + Window
      BY <1>2, <2>2 DEF IntakeInv, ClaimHolds
    <3> QED BY <1>5, <2>2, <3>1
  <2>3. CASE ~(found # NoClaim /\ found.email = e)
    BY <1>6, <2>1, <2>3 DEF Superseded
  <2> QED BY <2>2, <2>3
<1> QED BY <1>5, <1>6

\* The transaction writes the e-mail and its claim together, after the window
\* of every e-mail before it.
LEMMA CommitKeeps ==
    ASSUME IntakeInv, NEW c \in Calls, CommitDelivery(c) PROVE IntakeInv'
<1> DEFINE k == call[c].key
           granted == [email |-> c, hash |-> call[c].hash, expires |-> call[c].at + Window]
           new == [key |-> k, hash |-> call[c].hash, at |-> call[c].at, committed |-> now]
<1>1. /\ Active(c) /\ call[c].pc = "write" /\ Free(c)
      /\ UNCHANGED <<backend, now, owed, answer>>
      /\ claim' = [claim EXCEPT ![k] = granted]
  BY DEF CommitDelivery, Active, Goto, Granted
<1>2. /\ call[c] \in Requests /\ CallHolds(c) /\ Matches(c) /\ Honours(c) /\ answer[c].kind = "none"
  BY <1>1, BegunIsRequest DEF IntakeInv, Active, CallHolds
<1>3. k \in Keys /\ call[c].at \in Nat /\ now \in Nat /\ call[c].hash \in Hashes
  BY <1>2 DEF IntakeInv, IntakeTypes, Requests
<1>4. call[c].at <= now /\ now <= call[c].at + CallLimit
  BY <1>1, <1>2 DEF CallHolds, InTime
<1>5. \A e \in Accepted : email[e].key = k => email[e].at + Window <= now
  BY <1>1, FreeMeansOver
<1>6. claim[k] # NoClaim => claim[k].expires <= now
  BY <1>1, FreeMeansOver
<1>7. PICK x : Becomes(c, x, "announce", call[c].cleared)
  BY <1>1, GoingOn DEF CommitDelivery, Goto, IntakeInv, Points
<1>8. /\ call' = [call EXCEPT ![c] = x] /\ x \in Requests /\ x.pc = "announce"
      /\ x.cleared = call[c].cleared /\ x.key = k /\ x.hash = call[c].hash
      /\ x.at = call[c].at
  BY <1>7 DEF Becomes
<1>9. call'[c] = x /\ \A d \in Calls : d # c => call'[d] = call[d]
  BY <1>8 DEF IntakeInv, IntakeTypes
<1>10. c \notin Accepted /\ Accepted \subseteq Calls
  BY <1>1 DEF IntakeInv, IntakeTypes, EmailHolds
<1>11. /\ granted \in Claims /\ granted.email = c /\ granted.hash = call[c].hash
       /\ granted.expires = call[c].at + Window
  BY <1>3, WindowAssumption DEF Claims
<1>12. new \in Emails /\ new.key = k /\ new.hash = call[c].hash /\ new.at = call[c].at
       /\ new.committed = now
  BY <1>3 DEF Emails
<1>13. email' = [e \in Accepted \cup {c} |-> IF e = c THEN new ELSE email[e]]
  BY DEF CommitDelivery
<1> HIDE DEF granted, new
<1>14. /\ Accepted' = Accepted \cup {c} /\ email'[c] = new
       /\ \A e \in Accepted : email'[e] = email[e]
  BY <1>10, <1>13 DEF Accepted
<1>15. IntakeTypes'
  <2>1. email' \in [Accepted' -> Emails]
    BY <1>10, <1>12, <1>13, <1>14 DEF IntakeInv, IntakeTypes
  <2>2. claim' \in [Keys -> Claims \cup {NoClaim}]
    BY <1>1, <1>3, <1>11 DEF IntakeInv, IntakeTypes
  <2> QED BY <1>1, <1>8, <1>10, <1>14, <2>1, <2>2 DEF IntakeInv, IntakeTypes
<1>16. claim'[k] = granted /\ \A j \in Keys : j # k => claim'[j] = claim[j]
  BY <1>1, <1>3 DEF IntakeInv, IntakeTypes
<1>17. granted # NoClaim
  BY <1>11, WindowAssumption DEF Claims
<1>18. ASSUME NEW d \in Calls, call[d].pc # "idle", call[d].key = k
       PROVE  ~(owed[d] # NoClaim /\ now < owed[d].expires /\ Active(d))
  <2> SUFFICES ASSUME owed[d] # NoClaim, now < owed[d].expires, Active(d) PROVE FALSE
    OBVIOUS
  <2>1. claim[k] = owed[d]
    BY <1>18 DEF IntakeInv, CallHolds, OwedStands
  <2>2. owed[d].expires \in Nat
    BY DEF IntakeInv, IntakeTypes, Claims
  <2> QED BY <1>3, <1>6, <2>1, <2>2
<1>19. ASSUME NEW d \in Calls PROVE CallHolds(d)' /\ Matches(d)' /\ Honours(d)'
  <2>1. CallHolds(d) /\ Matches(d) /\ Honours(d)
    BY DEF IntakeInv
  <2>2. CASE d # c
    <3>1. call'[d] = call[d] /\ answer'[d] = answer[d] /\ owed'[d] = owed[d]
      BY <1>1, <1>9, <2>2
    <3>2. OwedStands(d)'
      <4> SUFFICES ASSUME Active(d)', owed'[d] # NoClaim, now' < owed'[d].expires
                   PROVE  claim'[call'[d].key] = owed'[d] /\ call'[d].pc # "announce"
        BY DEF OwedStands
      <4>1. Active(d) /\ owed[d] # NoClaim /\ now < owed[d].expires
        BY <1>1, <3>1 DEF Active
      <4>2. claim[call[d].key] = owed[d] /\ call[d].pc # "announce"
        BY <2>1, <4>1 DEF CallHolds, OwedStands
      <4>3. call[d] \in Requests
        BY <4>1, BegunIsRequest DEF IntakeInv, Active
      <4>4. call[d].key # k
        BY <1>18, <4>1 DEF Active
      <4>5. claim'[call[d].key] = claim[call[d].key]
        BY <1>16, <4>3, <4>4 DEF Requests
      <4> QED BY <3>1, <4>2, <4>5
    <3>3. CallHolds(d)'
      BY <1>1, <1>14, <2>1, <3>1, <3>2 DEF CallHolds, InTime, ClearedIsOver, Active
    <3>4. Matches(d)'
      BY <1>1, <1>14, <2>1, <3>1 DEF Matches
    <3>5. Honours(d)'
      BY <1>1, <2>1, <3>1 DEF Honours
    <3> QED BY <3>3, <3>4, <3>5
  <2>3. CASE d = c
    <3>1. answer'[c].kind = "none"
      BY <1>1, <1>2
    <3>2. ~(owed'[c] # NoClaim /\ now' < owed'[c].expires)
      BY <1>1, <1>18
    <3>3. InTime(c)'
      BY <1>1, <1>4, <1>8, <1>9 DEF InTime
    <3>4. ClearedIsOver(c)'
      BY <1>1, <1>2, <1>8, <1>9 DEF ClearedIsOver, CallHolds
    <3>5. CallHolds(c)'
      BY <1>14, <3>1, <3>2, <3>3, <3>4 DEF CallHolds, OwedStands
    <3> QED BY <2>3, <3>1, <3>5 DEF Matches, Honours
  <2> QED BY <2>2, <2>3
<1>20. ASSUME NEW e \in Accepted' PROVE EmailHolds(e)' /\ Superseded(e)'
  <2>1. CASE e = c
    <3>1. EmailHolds(c)'
      BY <1>1, <1>3, <1>4, <1>8, <1>9, <1>12, <1>14 DEF EmailHolds
    <3>2. Superseded(c)'
      BY <1>11, <1>12, <1>14, <1>16, <1>17 DEF Superseded
    <3> QED BY <2>1, <3>1, <3>2
  <2>2. CASE e # c
    <3>1. e \in Accepted /\ e \in Calls /\ EmailHolds(e) /\ Superseded(e)
      BY <1>10, <1>14, <2>2 DEF IntakeInv
    <3>2. email'[e] = email[e] /\ call'[e] = call[e] /\ email[e].key \in Keys
      BY <1>9, <1>14, <2>2, <3>1 DEF IntakeInv, IntakeTypes, Emails
    <3>3. EmailHolds(e)'
      BY <1>1, <3>1, <3>2 DEF EmailHolds
    <3>4. Superseded(e)'
      <4>1. CASE email[e].key = k
        BY <1>1, <1>5, <3>1, <3>2, <4>1 DEF Superseded
      <4>2. CASE email[e].key # k
        <5>1. claim'[email[e].key] = claim[email[e].key]
          BY <1>16, <3>2, <4>2
        <5> QED BY <1>1, <3>1, <3>2, <5>1 DEF Superseded
      <4> QED BY <4>1, <4>2
    <3> QED BY <3>3, <3>4
  <2> QED BY <2>1, <2>2
<1>21. ASSUME NEW j \in Keys PROVE ClaimHolds(j)'
  <2>1. CASE j = k
    BY <1>11, <1>12, <1>14, <1>16, <2>1 DEF ClaimHolds
  <2>2. CASE j # k
    BY <1>14, <1>16, <2>2 DEF IntakeInv, ClaimHolds
  <2> QED BY <2>1, <2>2
<1>22. ASSUME NEW e \in Accepted', NEW f \in Accepted', e # f,
              email'[e].key = email'[f].key, email'[e].committed <= email'[f].committed
       PROVE  email'[f].committed >= email'[e].at + Window
  <2>1. CASE e # c /\ f # c
    <3>1. e \in Accepted /\ f \in Accepted
      BY <1>14, <2>1
    <3> QED BY <1>14, <1>22, <3>1 DEF IntakeInv, OneEmailPerWindow
  <2>2. CASE f = c
    <3>1. e \in Accepted /\ email'[e] = email[e] /\ email[e].key = k
      BY <1>12, <1>14, <1>22, <2>2
    <3> QED BY <1>5, <1>12, <1>14, <2>2, <3>1
  <2>3. CASE e = c
    <3>1. f \in Accepted /\ email'[f] = email[f] /\ email[f].key = k
      BY <1>12, <1>14, <1>22, <2>3
    <3>2. email[f].at + Window <= now
      BY <1>5, <3>1
    <3>3. email[f].committed <= email[f].at + CallLimit /\ now <= email[f].committed
      BY <1>12, <1>14, <1>22, <2>3, <3>1 DEF IntakeInv, EmailHolds
    <3>4. email[f].at \in Nat /\ email[f].committed \in Nat
      BY <3>1 DEF IntakeInv, IntakeTypes, Emails
    <3> QED BY <1>3, <3>2, <3>3, <3>4, WindowAssumption
  <2> QED BY <2>1, <2>2, <2>3
<1>23. OneEmailPerWindow'
  BY <1>22 DEF OneEmailPerWindow
<1> QED BY <1>15, <1>19, <1>20, <1>21, <1>23 DEF IntakeInv

\* DynamoDB removes a claim that has expired: nobody is owed it, and its
\* e-mail has outlived its window.
LEMMA TimeToLiveKeeps ==
    ASSUME IntakeInv, NEW k \in Keys, TimeToLive(k) PROVE IntakeInv'
<1>1. /\ claim' = [claim EXCEPT ![k] = NoClaim] /\ claim[k] # NoClaim
      /\ claim[k].expires <= now
      /\ UNCHANGED <<backend, now, email, call, answer, owed>>
  BY DEF TimeToLive, Outlived
<1>2. claim'[k] = NoClaim /\ \A j \in Keys : j # k => claim'[j] = claim[j]
  BY <1>1 DEF IntakeInv, IntakeTypes
<1>3. Accepted' = Accepted
  BY <1>1 DEF Accepted
<1>4. IntakeTypes'
  BY <1>1, <1>3 DEF IntakeInv, IntakeTypes
<1>5. ASSUME NEW d \in Calls PROVE CallHolds(d)' /\ Matches(d)' /\ Honours(d)'
  <2>1. CallHolds(d) /\ Matches(d) /\ Honours(d)
    BY DEF IntakeInv
  <2>2. OwedStands(d)'
    <3> SUFFICES ASSUME Active(d), owed[d] # NoClaim, now < owed[d].expires
                 PROVE  claim'[call[d].key] = owed[d] /\ call[d].pc # "announce"
      BY <1>1 DEF OwedStands, Active
    <3>1. claim[call[d].key] = owed[d] /\ call[d].pc # "announce"
      BY <2>1 DEF CallHolds, OwedStands
    <3>2. call[d] \in Requests
      BY BegunIsRequest DEF IntakeInv, Active
    <3>3. owed[d].expires \in Nat /\ now \in Nat
      BY DEF IntakeInv, IntakeTypes, Claims
    <3>4. call[d].key # k
      BY <1>1, <3>1, <3>3
    <3> QED BY <1>2, <3>1, <3>2, <3>4 DEF Requests
  <2> QED
    BY <1>1, <1>3, <2>1, <2>2 DEF CallHolds, InTime, ClearedIsOver, Active, Matches, Honours
<1>6. ASSUME NEW e \in Accepted PROVE EmailHolds(e)' /\ Superseded(e)'
  <2>1. EmailHolds(e) /\ Superseded(e) /\ email[e].key \in Keys
    BY DEF IntakeInv, IntakeTypes, Emails
  <2>2. Superseded(e)'
    <3>1. CASE email[e].key = k /\ claim[k].email = e
      <4>1. claim[k].expires = email[e].at + Window
        BY <1>1, <3>1 DEF IntakeInv, ClaimHolds
      <4> QED BY <1>1, <4>1 DEF Superseded
    <3>2. CASE email[e].key = k /\ claim[k].email # e
      BY <1>1, <2>1, <3>2 DEF Superseded
    <3>3. CASE email[e].key # k
      BY <1>1, <1>2, <2>1, <3>3 DEF Superseded
    <3> QED BY <3>1, <3>2, <3>3
  <2> QED BY <1>1, <2>1, <2>2 DEF EmailHolds
<1>7. \A j \in Keys : ClaimHolds(j)'
  BY <1>1, <1>2, <1>3 DEF IntakeInv, ClaimHolds
<1>8. OneEmailPerWindow'
  BY <1>1, <1>3 DEF IntakeInv, OneEmailPerWindow
<1> QED BY <1>3, <1>4, <1>5, <1>6, <1>7, <1>8 DEF IntakeInv

\* Time passes, but not past the limit of a request that is under way.
LEMMA TickKeeps == ASSUME IntakeInv, Tick PROVE IntakeInv'
<1>1. now' = now + 1 /\ now \in Nat /\ UNCHANGED <<backend, claim, email, call, answer, owed>>
  BY DEF Tick, IntakeInv, IntakeTypes
<1>2. Accepted' = Accepted
  BY <1>1 DEF Accepted
<1>3. IntakeTypes'
  BY <1>1, <1>2 DEF IntakeInv, IntakeTypes
<1>4. ASSUME NEW d \in Calls PROVE CallHolds(d)' /\ Matches(d)' /\ Honours(d)'
  <2>1. CallHolds(d) /\ Matches(d) /\ Honours(d)
    BY DEF IntakeInv
  <2>2. Active(d) => call[d].at \in Nat
    BY BegunIsRequest DEF IntakeInv, Active, Requests
  <2>3. InTime(d)'
    <3>1. Active(d) => now - call[d].at < CallLimit
      BY DEF Tick
    <3> QED BY <1>1, <2>1, <2>2, <3>1, WindowAssumption DEF CallHolds, InTime, Active
  <2>4. OwedStands(d)'
    <3>1. owed[d] # NoClaim => owed[d].expires \in Nat
      BY DEF IntakeInv, IntakeTypes, Claims
    <3> QED BY <1>1, <2>1, <3>1 DEF CallHolds, OwedStands, Active
  <2>5. CallHolds(d)'
    BY <1>1, <1>2, <2>1, <2>3, <2>4 DEF CallHolds, ClearedIsOver
  <2> QED BY <1>1, <1>2, <2>1, <2>5 DEF Matches, Honours
<1>5. ASSUME NEW e \in Accepted PROVE EmailHolds(e)' /\ Superseded(e)'
  <2>1. EmailHolds(e) /\ Superseded(e) /\ email[e].at \in Nat /\ email[e].committed \in Nat
    BY DEF IntakeInv, IntakeTypes, Emails
  <2> QED BY <1>1, <2>1, WindowAssumption DEF EmailHolds, Superseded
<1>6. \A j \in Keys : ClaimHolds(j)'
  BY <1>1, <1>2 DEF IntakeInv, ClaimHolds
<1>7. OneEmailPerWindow'
  BY <1>1, <1>2 DEF IntakeInv, OneEmailPerWindow
<1> QED BY <1>2, <1>3, <1>4, <1>5, <1>6, <1>7 DEF IntakeInv

\* What requests, claims and e-mails hold together in every state of the
\* intake, on each of the four stores.
THEOREM IntakeInvariant == Spec => []IntakeInv
<1>1. Init => IntakeInv
  <2> SUFFICES ASSUME Init PROVE IntakeInv
    OBVIOUS
  <2>1. Accepted = {}
    BY DEF Init, Accepted
  <2>2. email \in [Accepted -> Emails]
    BY <2>1 DEF Init
  <2>3. IntakeTypes
    BY <2>1, <2>2 DEF Init, IntakeTypes
  <2>4. \A c \in Calls : CallHolds(c) /\ Matches(c) /\ Honours(c)
    BY DEF Init, CallHolds, InTime, ClearedIsOver, OwedStands, Active, Matches, Honours
  <2>5. \A k \in Keys : ClaimHolds(k)
    BY DEF Init, ClaimHolds
  <2> QED BY <2>1, <2>3, <2>4, <2>5 DEF IntakeInv, OneEmailPerWindow
<1>2. IntakeInv /\ [Next]_vars => IntakeInv'
  <2> SUFFICES ASSUME IntakeInv, [Next]_vars PROVE IntakeInv'
    OBVIOUS
  <2>1. ASSUME NEW c \in Calls, NEW k \in Keys, NEW h \in Hashes, Start(c, k, h)
        PROVE  IntakeInv'
    BY <2>1, StartKeeps
  <2>2. ASSUME NEW c \in Calls, LookForReplay(c) PROVE IntakeInv'
    BY <2>2, LookKeeps
  <2>3. ASSUME NEW c \in Calls, ClearExpired(c) PROVE IntakeInv'
    BY <2>3, ClearKeeps
  <2>4. ASSUME NEW c \in Calls, CommitDelivery(c) PROVE IntakeInv'
    BY <2>4, CommitKeeps
  <2>5. ASSUME NEW c \in Calls, CommitRefused(c) PROVE IntakeInv'
    BY <2>5, RefusedKeeps
  <2>6. ASSUME NEW c \in Calls, LookAgain(c) PROVE IntakeInv'
    BY <2>6, LookAgainKeeps
  <2>7. ASSUME NEW c \in Calls, Announce(c) PROVE IntakeInv'
    BY <2>7, AnnounceKeeps
  <2>8. ASSUME NEW c \in Calls, Lose(c) PROVE IntakeInv'
    BY <2>8, LoseKeeps
  <2>9. ASSUME NEW k \in Keys, TimeToLive(k) PROVE IntakeInv'
    BY <2>9, TimeToLiveKeeps
  <2>10. CASE Tick
    BY <2>10, TickKeeps
  <2>11. CASE UNCHANGED vars
    <3>1. UNCHANGED <<backend, now, claim, email, call, answer, owed>>
      BY <2>11 DEF vars
    <3>2. Accepted' = Accepted
      BY <3>1 DEF Accepted
    <3> QED
      BY <3>1, <3>2 DEF IntakeInv, IntakeTypes, CallHolds, InTime, ClearedIsOver, OwedStands,
         Active, Matches, Honours, EmailHolds, Superseded, ClaimHolds, OneEmailPerWindow
  <2> QED
    BY <2>1, <2>2, <2>3, <2>4, <2>5, <2>6, <2>7, <2>8, <2>9, <2>10, <2>11 DEF Next
<1> QED BY <1>1, <1>2, PTL DEF Spec

\* Two e-mails under one key are a window apart, however requests interleave,
\* on every store.
THEOREM OneEmailPerWindowHolds == Spec => []OneEmailPerWindow
<1>1. IntakeInv => OneEmailPerWindow
  BY DEF IntakeInv
<1> QED BY <1>1, IntakeInvariant, PTL

\* A caller gets an answer of its own key and request, and under a live claim
\* the claimed e-mail or a refusal.
THEOREM AnswersAreOwedHolds == Spec => []AnswersAreOwed
<1>1. IntakeInv => AnswersAreOwed
  BY DEF IntakeInv, Matches, Honours, AnswersAreOwed, AnswerMatchesRequest, ClaimIsHonoured
<1> QED BY <1>1, IntakeInvariant, PTL


-----------------------------------------------------------------------------
(* Templates: the alias tables agree with the records, and the command line *)
(* publishes its manifest.                                                  *)

Versions == [id : Nat, alias : Aliases \cup {NoAlias}, body : Bodies]
Records == [revision : Nat, draft : Versions, published : Versions]
ClientRecords ==
    [op : {"idle", "plan", "patch", "review", "release", "update", "publish", "restore",
           "duplicate", "delete", "send"},
     step : {"idle", "resolve", "legacy", "load", "absent", "act"},
     target : TemplateIds \cup {NoTemplate}, alias : Aliases \cup {NoAlias},
     seen : Records, expect : Nat]

StoreTypes ==
    /\ tmpl \in [TemplateIds -> Records]
    /\ draftAlias \in [Aliases -> TemplateIds \cup {NoTemplate}]
    /\ sentAlias \in [Aliases -> TemplateIds \cup {NoTemplate}]
    /\ history \in [TemplateIds -> SUBSET Versions]
    /\ versionId \in Nat

\* What is known of a template since a request read it: it was not made anew,
\* and under the revision that was read it is the record that was read.
SightHolds(c) ==
    LET r == clientCall[c]
    IN  r.step = "act" =>
          /\ r.seen.revision > 0 /\ r.seen.draft.id > 0
          /\ tmpl[r.target].draft.id > 0
          /\ Live(r.target) =>
               /\ tmpl[r.target].revision >= r.seen.revision
               /\ tmpl[r.target].revision = r.seen.revision => tmpl[r.target] = r.seen

ClientHolds(c) ==
    /\ clientCall[c].step \in {"resolve", "legacy"} => clientCall[c].alias \in Aliases
    /\ clientCall[c].step \in {"load", "act"} => clientCall[c].target \in TemplateIds
    /\ c = "push" => /\ clientCall[c].op \in {"idle", "plan", "patch", "review", "release"}
                     /\ clientCall[c].op # "idle" => clientCall[c].alias \in Aliases
    /\ SightHolds(c)

\* Every draft that is stored or that a request has read.
KnownDrafts ==
    {NoVersion} \cup {tmpl[t].draft : t \in TemplateIds}
        \cup {clientCall[c].seen.draft : c \in TemplateClients}

\* A version id names one draft.
DraftsAgree ==
    /\ \A v, w \in KnownDrafts : v.id = w.id => v = w
    /\ \A v \in KnownDrafts : v.id <= versionId

\* The command line asks for a version that it has compared with its manifest.
ReleaseIsReviewed(r) ==
    r.op = "release" =>
        /\ r.expect # 0 /\ r.expect <= versionId
        /\ \A v \in KnownDrafts : v.id = r.expect => v.alias = r.alias /\ v.body = "plain"

TmInv ==
    /\ StoreTypes
    /\ clientCall \in [TemplateClients -> ClientRecords]
    /\ \A t \in TemplateIds : Live(t) => tmpl[t].draft.id > 0
    /\ \A c \in TemplateClients : ClientHolds(c)
    /\ DraftsAgree
    /\ ReleaseIsReviewed(clientCall["push"])
    /\ AliasesAgree
    /\ PushPublishesManifest

\* A step leaves a template alone, makes it, gives it a later revision, or
\* ends it.
Grows(t) ==
    \/ tmpl'[t] = tmpl[t]
    \/ /\ tmpl'[t].draft.id > 0
       /\ tmpl'[t].revision > 0 /\ tmpl[t].draft.id > 0 =>
            Live(t) /\ tmpl'[t].revision > tmpl[t].revision

\* The drafts after a step: those that were known, and the one that it made,
\* which has a new id.
DraftIsFresh(f) ==
    /\ \A t \in TemplateIds : tmpl'[t].draft \in KnownDrafts \cup {f}
    /\ \/ f \in KnownDrafts /\ versionId' = versionId
       \/ f.id = versionId + 1 /\ versionId' = versionId + 1

StoreEffect(f) ==
    /\ StoreTypes'
    /\ AliasesAgree'
    /\ \A t \in TemplateIds : Grows(t)
    /\ DraftIsFresh(f)

\* The step changes the request of one client, and no other, to r.
Asks(c, r) ==
    /\ r \in ClientRecords
    /\ clientCall' = [clientCall EXCEPT ![c] = r]
    /\ r.seen.draft \in KnownDrafts
    /\ c = "push" => ReleaseIsReviewed(r)

\* The drafts that are known after a step.
LEMMA DraftsAfter ==
    ASSUME TmInv, NEW c \in TemplateClients, NEW r, NEW f, Asks(c, r), DraftIsFresh(f)
    PROVE  KnownDrafts' \subseteq KnownDrafts \cup {f}
<1>1. NoVersion \in KnownDrafts
  BY DEF KnownDrafts
<1>2. \A t \in TemplateIds : tmpl'[t].draft \in KnownDrafts \cup {f}
  BY DEF DraftIsFresh
<1>3. ASSUME NEW d \in TemplateClients PROVE clientCall'[d].seen.draft \in KnownDrafts
  <2>1. CASE d = c
    BY <2>1 DEF Asks, TmInv
  <2>2. CASE d # c
    <3>1. clientCall'[d] = clientCall[d]
      BY <2>2 DEF Asks, TmInv
    <3> QED BY <3>1 DEF KnownDrafts
  <2> QED BY <2>1, <2>2
<1>4. ASSUME NEW v \in KnownDrafts' PROVE v \in KnownDrafts \cup {f}
  <2>1. \/ v = NoVersion
        \/ \E t \in TemplateIds : v = tmpl'[t].draft
        \/ \E d \in TemplateClients : v = clientCall'[d].seen.draft
    BY <1>4 DEF KnownDrafts, NoVersion
  <2> QED BY <1>1, <1>2, <1>3, <2>1
<1> QED BY <1>4

\* A version id still names one draft after the step.
LEMMA DraftsKeepAgreeing ==
    ASSUME TmInv, NEW f, KnownDrafts' \subseteq KnownDrafts \cup {f}, DraftIsFresh(f)
    PROVE  DraftsAgree'
<1>1. versionId \in Nat /\ DraftsAgree
  BY DEF TmInv, StoreTypes
<1>2. ASSUME NEW v \in KnownDrafts PROVE v.id \in Nat
  <2>1. \/ v = NoVersion
        \/ \E t \in TemplateIds : v = tmpl[t].draft
        \/ \E d \in TemplateClients : v = clientCall[d].seen.draft
    BY DEF KnownDrafts
  <2>2. NoVersion.id \in Nat
    BY DEF NoVersion
  <2>3. \A t \in TemplateIds : tmpl[t].draft.id \in Nat
    BY DEF TmInv, StoreTypes, Records, Versions
  <2>4. \A d \in TemplateClients : clientCall[d].seen.draft.id \in Nat
    BY DEF TmInv, ClientRecords, Records, Versions
  <2> QED BY <2>1, <2>2, <2>3, <2>4
<1>3. \/ f \in KnownDrafts /\ versionId' = versionId
      \/ f.id = versionId + 1 /\ versionId' = versionId + 1
  BY DEF DraftIsFresh
<1>4. \A v \in KnownDrafts' : v.id <= versionId'
  BY <1>1, <1>2, <1>3 DEF DraftsAgree
<1>5. \A v, w \in KnownDrafts' : v.id = w.id => v = w
  BY <1>1, <1>2, <1>3 DEF DraftsAgree
<1> QED BY <1>4, <1>5 DEF DraftsAgree

\* What a request has read stays true as the template grows.
LEMMA SightLasts ==
    ASSUME TmInv, NEW d \in TemplateClients, clientCall'[d] = clientCall[d],
           \A t \in TemplateIds : Grows(t), StoreTypes'
    PROVE  ClientHolds(d)'
<1>1. ClientHolds(d) /\ clientCall[d] \in ClientRecords
  BY DEF TmInv
<1>2. ASSUME clientCall[d].step = "act" PROVE SightHolds(d)'
  <2>1. PICK t \in TemplateIds : t = clientCall[d].target
    BY <1>1, <1>2 DEF ClientHolds
  <2>2. PICK s : s = clientCall[d].seen
    OBVIOUS
  <2>3. /\ s.revision > 0 /\ s.draft.id > 0 /\ tmpl[t].draft.id > 0
        /\ Live(t) => /\ tmpl[t].revision >= s.revision
                      /\ tmpl[t].revision = s.revision => tmpl[t] = s
    BY <1>1, <1>2, <2>1, <2>2 DEF ClientHolds, SightHolds
  <2>4. /\ s.revision \in Nat /\ tmpl[t].revision \in Nat /\ tmpl'[t].revision \in Nat
    BY <1>1, <2>2 DEF TmInv, StoreTypes, Records, ClientRecords
  <2>5. Grows(t)
    OBVIOUS
  <2>6. /\ tmpl'[t].draft.id > 0
        /\ tmpl'[t].revision > 0 =>
             /\ tmpl'[t].revision >= s.revision
             /\ tmpl'[t].revision = s.revision => tmpl'[t] = s
    BY <2>3, <2>4, <2>5 DEF Grows, Live
  <2> QED BY <2>1, <2>2, <2>3, <2>6 DEF SightHolds, Live
<1>3. SightHolds(d)'
  BY <1>2 DEF SightHolds
<1> QED BY <1>1, <1>3 DEF ClientHolds

\* Any step that changes the stores as they do, and one request to one that
\* holds, keeps the invariant.
LEMMA TemplateStep ==
    ASSUME TmInv, NEW c \in TemplateClients, NEW r, NEW f, Asks(c, r), StoreEffect(f),
           ClientHolds(c)', released' # "other"
    PROVE  TmInv'
<1>1. KnownDrafts' \subseteq KnownDrafts \cup {f}
  BY DraftsAfter DEF StoreEffect
<1>2. DraftsAgree'
  BY <1>1, DraftsKeepAgreeing DEF StoreEffect
<1>3. clientCall' \in [TemplateClients -> ClientRecords]
  BY DEF Asks, TmInv
<1>4. ASSUME NEW d \in TemplateClients PROVE ClientHolds(d)'
  <2>1. CASE d # c
    BY <2>1, SightLasts DEF Asks, TmInv, StoreEffect
  <2> QED BY <2>1
<1>5. ASSUME NEW t \in TemplateIds, Live(t)' PROVE tmpl'[t].draft.id > 0
  BY <1>5 DEF TmInv, StoreEffect, Grows, Live
<1>6. PICK p : p = clientCall'["push"] /\ ReleaseIsReviewed(p)
  <2>1. CASE c = "push"
    BY <2>1, TemplatesAssumption DEF Asks, TmInv
  <2>2. CASE c # "push"
    BY <2>2, TemplatesAssumption DEF Asks, TmInv
  <2> QED BY <2>1, <2>2
<1>7. p.expect \in Nat
  BY <1>3, <1>6, TemplatesAssumption DEF ClientRecords
<1>8. ReleaseIsReviewed(clientCall["push"])'
  <2> SUFFICES ASSUME p.op = "release"
               PROVE  /\ p.expect # 0 /\ p.expect <= versionId'
                      /\ \A v \in KnownDrafts' : v.id = p.expect =>
                             v.alias = p.alias /\ v.body = "plain"
    BY <1>6 DEF ReleaseIsReviewed
  <2>1. /\ p.expect # 0 /\ p.expect <= versionId
        /\ \A v \in KnownDrafts : v.id = p.expect => v.alias = p.alias /\ v.body = "plain"
    BY <1>6 DEF ReleaseIsReviewed
  <2>2. versionId \in Nat
    BY DEF TmInv, StoreTypes
  <2>3. \/ f \in KnownDrafts /\ versionId' = versionId
        \/ f.id = versionId + 1 /\ versionId' = versionId + 1
    BY DEF StoreEffect, DraftIsFresh
  <2> QED BY <1>1, <1>7, <2>1, <2>2, <2>3
<1> QED BY <1>2, <1>3, <1>4, <1>5, <1>8 DEF TmInv, StoreEffect, PushPublishesManifest


\* A request that leaves the stores alone leaves all that is known of them.
LEMMA StoredEffect ==
    ASSUME TmInv, UNCHANGED Stored PROVE StoreEffect(NoVersion)
<1>1. UNCHANGED <<tmpl, draftAlias, sentAlias, history, versionId>>
  BY DEF Stored
<1>2. StoreTypes'
  BY <1>1 DEF TmInv, StoreTypes
<1>3. AliasesAgree'
  BY <1>1 DEF TmInv, AliasesAgree, Live
<1>4. \A t \in TemplateIds : Grows(t)
  BY <1>1 DEF Grows
<1>5. DraftIsFresh(NoVersion)
  BY <1>1 DEF DraftIsFresh, KnownDrafts
<1> QED BY <1>2, <1>3, <1>4, <1>5 DEF StoreEffect

\* A client that is done asks for nothing.
LEMMA IdleAsks ==
    ASSUME TmInv, NEW c \in TemplateClients, clientCall' = [clientCall EXCEPT ![c] = Idle]
    PROVE  Asks(c, Idle) /\ ClientHolds(c)'
<1>1. NoVersion \in Versions
  BY DEF NoVersion, Versions, Bodies
<1>2. NoRecord \in Records /\ NoRecord.draft = NoVersion
  BY <1>1 DEF NoRecord, Records
<1>3. Idle \in ClientRecords /\ Idle.step = "idle" /\ Idle.op = "idle" /\ Idle.seen = NoRecord
  BY <1>2 DEF Idle, ClientRecords
<1>4. Asks(c, Idle)
  BY <1>2, <1>3 DEF Asks, KnownDrafts, ReleaseIsReviewed
<1>5. clientCall'[c] = Idle
  BY DEF TmInv
<1>6. ClientHolds(c)'
  BY <1>3, <1>5 DEF ClientHolds, SightHolds
<1> QED BY <1>4, <1>6

\* A request that is sent has its fields, and nothing read yet.
LEMMA RequestedAsks ==
    ASSUME TmInv, NEW c \in TemplateClients,
           NEW op \in {"plan", "patch", "review", "release", "update", "publish", "restore",
                       "duplicate", "delete", "send"},
           NEW t \in TemplateIds \cup {NoTemplate}, NEW a \in Aliases \cup {NoAlias},
           NEW expect \in Nat, Requested(c, op, t, a, expect),
           t = NoTemplate => a \in Aliases,
           c = "push" => /\ op \in {"plan", "patch", "review", "release"} /\ a \in Aliases
                         /\ op = "release" =>
                              /\ expect # 0 /\ expect <= versionId
                              /\ \A v \in KnownDrafts :
                                    v.id = expect => v.alias = a /\ v.body = "plain"
    PROVE  \E r : Asks(c, r) /\ ClientHolds(c)'
<1>1. NoVersion \in Versions
  BY DEF NoVersion, Versions, Bodies
<1>2. NoRecord \in Records /\ NoRecord.draft = NoVersion
  BY <1>1 DEF NoRecord, Records
<1>3. PICK step : step = (IF t = NoTemplate THEN "resolve" ELSE "load")
  OBVIOUS
<1>4. PICK r : r = [op |-> op, step |-> step, target |-> t, alias |-> a, seen |-> NoRecord,
                    expect |-> expect]
  OBVIOUS
<1>5. /\ r \in ClientRecords /\ r.op = op /\ r.step = step /\ r.target = t /\ r.alias = a
      /\ r.seen = NoRecord /\ r.expect = expect
  BY <1>2, <1>3, <1>4 DEF ClientRecords
<1>6. clientCall' = [clientCall EXCEPT ![c] = r]
  BY <1>3, <1>4 DEF Requested
<1>7. Asks(c, r)
  BY <1>2, <1>5, <1>6 DEF Asks, KnownDrafts, ReleaseIsReviewed
<1>8. clientCall'[c] = r
  BY <1>6 DEF TmInv
<1>9. ClientHolds(c)'
  BY <1>3, <1>5, <1>8 DEF ClientHolds, SightHolds
<1> QED BY <1>7, <1>9

\* A commit under the revision that was read is on the record that was read.
LEMMA SeenIsCurrent ==
    ASSUME TmInv, NEW c \in TemplateClients, clientCall[c].step = "act",
           RevisionHolds(clientCall[c].target, clientCall[c].seen)
    PROVE  /\ clientCall[c].target \in TemplateIds
           /\ tmpl[clientCall[c].target] = clientCall[c].seen
           /\ clientCall[c].seen \in Records
           /\ clientCall[c].seen.draft.id > 0
<1>1. ClientHolds(c) /\ clientCall[c] \in ClientRecords
  BY DEF TmInv
<1> QED BY <1>1 DEF ClientHolds, SightHolds, RevisionHolds, ClientRecords

\* Moving an alias leads the new one to the template, the old one nowhere, and
\* no other alias anywhere else.
LEMMA MovedIs ==
    ASSUME NEW table \in [Aliases -> TemplateIds \cup {NoTemplate}],
           NEW from, NEW to, NEW t \in TemplateIds
    PROVE  /\ Moved(table, from, to, t) \in [Aliases -> TemplateIds \cup {NoTemplate}]
           /\ \A a \in Aliases :
                /\ a = to => Moved(table, from, to, t)[a] = t
                /\ a # to /\ a = from => Moved(table, from, to, t)[a] = NoTemplate
                /\ a # to /\ a # from => Moved(table, from, to, t)[a] = table[a]
BY DEF Moved

\* An alias table agrees with the records: one of AliasesAgree's two parts,
\* for the version of each template that the table is about.
Leads(table, live, versions) ==
    \A a \in Aliases, t \in TemplateIds : table[a] = t <=> live[t] /\ versions[t] = a

\* The table still agrees when a template takes its new alias, one that was
\* free, or when it ends.
LEMMA MovedLeads ==
    ASSUME NEW table \in [Aliases -> TemplateIds \cup {NoTemplate}], NEW t \in TemplateIds,
           NEW live, NEW versions, NEW live2, NEW versions2, Leads(table, live, versions),
           \A u \in TemplateIds : u # t => (live2[u] <=> live[u]) /\ versions2[u] = versions[u],
           NEW from, NEW to,
           live[t] => from = versions[t],
           ~live[t] => from = NoAlias,
           live2[t] => to = versions2[t],
           ~live2[t] => to = NoAlias,
           to # NoAlias => table[to] \in {NoTemplate, t}
    PROVE  Leads(Moved(table, from, to, t), live2, versions2)
<1>1. NoAlias \notin Aliases /\ NoTemplate \notin TemplateIds
  BY TemplatesAssumption
<1>2. PICK moved : moved = Moved(table, from, to, t)
  OBVIOUS
<1>3. \A a \in Aliases :
         /\ a = to => moved[a] = t
         /\ a # to /\ a = from => moved[a] = NoTemplate
         /\ a # to /\ a # from => moved[a] = table[a]
  BY <1>2, MovedIs
<1>4. ASSUME NEW a \in Aliases, NEW u \in TemplateIds
      PROVE  moved[a] = u <=> live2[u] /\ versions2[u] = a
  <2>1. table[a] = u <=> live[u] /\ versions[u] = a
    BY DEF Leads
  <2>2. table[a] = t <=> live[t] /\ versions[t] = a
    BY DEF Leads
  <2>3. CASE u = t
    <3>1. CASE a = to
      BY <1>1, <1>3, <2>3, <3>1
    <3>2. CASE a # to
      BY <1>1, <1>3, <2>2, <2>3, <3>2
    <3> QED BY <3>1, <3>2
  <2>4. CASE u # t
    BY <1>1, <1>3, <2>1, <2>2, <2>4
  <2> QED BY <2>3, <2>4
<1> QED BY <1>2, <1>4 DEF Leads

LiveOf == [t \in TemplateIds |-> Live(t)]
DraftAliases == [t \in TemplateIds |-> tmpl[t].draft.alias]
SentAliases == [t \in TemplateIds |-> tmpl[t].published.alias]

\* AliasesAgree in the form of the lemma above.
LEMMA AliasesLead ==
    AliasesAgree <=> /\ Leads(draftAlias, LiveOf, DraftAliases)
                     /\ Leads(sentAlias, LiveOf, SentAliases)
BY DEF AliasesAgree, Leads, LiveOf, DraftAliases, SentAliases

\* The same after a step, which changed the record of one template.
LEMMA RecordWritten ==
    ASSUME TmInv, NEW t \in TemplateIds, NEW rec \in Records, tmpl' = [tmpl EXCEPT ![t] = rec]
    PROVE  /\ tmpl' \in [TemplateIds -> Records]
           /\ tmpl'[t] = rec
           /\ \A u \in TemplateIds : u # t => tmpl'[u] = tmpl[u]
           /\ (LiveOf'[t] <=> rec.revision > 0)
           /\ DraftAliases'[t] = rec.draft.alias
           /\ SentAliases'[t] = rec.published.alias
           /\ \A u \in TemplateIds : u # t =>
                /\ (LiveOf'[u] <=> LiveOf[u])
                /\ DraftAliases'[u] = DraftAliases[u]
                /\ SentAliases'[u] = SentAliases[u]
<1>1. /\ tmpl' \in [TemplateIds -> Records] /\ tmpl'[t] = rec
      /\ \A u \in TemplateIds : u # t => tmpl'[u] = tmpl[u]
  BY DEF TmInv, StoreTypes
<1>2. /\ DraftAliases'[t] = rec.draft.alias
      /\ SentAliases'[t] = rec.published.alias
      /\ \A u \in TemplateIds : u # t =>
           /\ DraftAliases'[u] = DraftAliases[u]
           /\ SentAliases'[u] = SentAliases[u]
  BY <1>1 DEF DraftAliases, SentAliases
<1>3. (LiveOf'[t] <=> rec.revision > 0)
      /\ \A u \in TemplateIds : u # t => (LiveOf'[u] <=> LiveOf[u])
  BY <1>1 DEF LiveOf, Live
<1> QED BY <1>1, <1>2, <1>3

\* Making a template: a new record, under an alias that was free.
LEMMA CreateEffect ==
    ASSUME TmInv, NEW t \in TemplateIds, NEW v \in Versions, v.id = versionId + 1,
           CreateTemplate(t, v)
    PROVE  StoreEffect(v)
<1> DEFINE rec == [revision |-> 1, draft |-> v, published |-> NoVersion]
<1>1. NoVersion \in Versions /\ NoVersion.id = 0 /\ NoVersion.alias = NoAlias
  BY DEF NoVersion, Versions, Bodies
<1>2. rec \in Records /\ rec.revision = 1 /\ rec.draft = v /\ rec.published = NoVersion
  BY <1>1 DEF Records
<1>3. /\ tmpl' = [tmpl EXCEPT ![t] = rec] /\ tmpl[t] = NoRecord
      /\ draftAlias' = Moved(draftAlias, NoAlias, v.alias, t)
      /\ AliasFree(draftAlias, v.alias, NoTemplate)
      /\ versionId' = v.id /\ UNCHANGED <<sentAlias, history>>
  BY DEF CreateTemplate, Unused
<1> HIDE DEF rec
<1>4. versionId \in Nat /\ StoreTypes
  BY DEF TmInv, StoreTypes
<1>5. /\ ~LiveOf[t] /\ tmpl[t].draft.id = 0
      /\ tmpl'[t] = rec /\ LiveOf'[t] /\ DraftAliases'[t] = v.alias
      /\ SentAliases'[t] = NoAlias
      /\ \A u \in TemplateIds : u # t =>
           /\ tmpl'[u] = tmpl[u] /\ (LiveOf'[u] <=> LiveOf[u])
           /\ DraftAliases'[u] = DraftAliases[u] /\ SentAliases'[u] = SentAliases[u]
  <2>1. tmpl[t].revision = 0 /\ tmpl[t].draft = NoVersion
    BY <1>3 DEF NoRecord
  <2>2. ~Live(t) /\ tmpl[t].draft.id = 0
    BY <1>1, <2>1 DEF Live
  <2>3. ~LiveOf[t]
    BY <2>2 DEF LiveOf
  <2>4. LiveOf'[t]
    <3>1. (LiveOf'[t] <=> rec.revision > 0)
      BY <1>2, <1>3, RecordWritten
    <3>2. rec.revision > 0
      BY <1>2
    <3> QED BY <3>1, <3>2
  <2>5. tmpl'[t] = rec /\ DraftAliases'[t] = v.alias /\ SentAliases'[t] = NoAlias
    BY ZenonT(60), <1>1, <1>2, <1>3, RecordWritten
  <2>6. \A u \in TemplateIds : u # t =>
           /\ tmpl'[u] = tmpl[u] /\ (LiveOf'[u] <=> LiveOf[u])
           /\ DraftAliases'[u] = DraftAliases[u] /\ SentAliases'[u] = SentAliases[u]
    BY ZenonT(60), <1>2, <1>3, RecordWritten
  <2> QED BY <2>2, <2>3, <2>4, <2>5, <2>6
<1>6. Leads(draftAlias, LiveOf, DraftAliases) /\ Leads(sentAlias, LiveOf, SentAliases)
  BY AliasesLead DEF TmInv
<1>7. draftAlias' \in [Aliases -> TemplateIds \cup {NoTemplate}]
  BY <1>3, <1>4, MovedIs DEF StoreTypes
<1>8. StoreTypes'
  BY <1>2, <1>3, <1>4, <1>7, RecordWritten DEF StoreTypes
<1>9. v.alias # NoAlias => draftAlias[v.alias] \in {NoTemplate, t}
  BY <1>3 DEF AliasFree
<1>10. Leads(draftAlias', LiveOf', DraftAliases')
  <2>1. draftAlias \in [Aliases -> TemplateIds \cup {NoTemplate}]
    BY <1>4 DEF StoreTypes
  <2>2. Leads(Moved(draftAlias, NoAlias, v.alias, t), LiveOf', DraftAliases')
    BY <1>5, <1>6, <1>9, <2>1, MovedLeads
  <2> QED BY <1>3, <2>2
<1>11. Leads(sentAlias', LiveOf', SentAliases')
  <2>1. NoAlias \notin Aliases
    BY TemplatesAssumption
  <2>2. ASSUME NEW a \in Aliases, NEW u \in TemplateIds
        PROVE  sentAlias[a] = u <=> LiveOf'[u] /\ SentAliases'[u] = a
    <3>1. sentAlias[a] = u <=> LiveOf[u] /\ SentAliases[u] = a
      BY <1>6 DEF Leads
    <3>2. CASE u = t
      BY <1>5, <2>1, <3>1, <3>2
    <3>3. CASE u # t
      BY <1>5, <3>1, <3>3
    <3> QED BY <3>2, <3>3
  <2> QED BY <1>3, <2>2 DEF Leads
<1>12. AliasesAgree'
  BY <1>10, <1>11, AliasesLead DEF AliasesAgree, Leads, LiveOf, DraftAliases, SentAliases
<1>13. ASSUME NEW u \in TemplateIds PROVE Grows(u) /\ tmpl'[u].draft \in KnownDrafts \cup {v}
  <2>1. CASE u = t
    <3>1. tmpl'[t].draft = v /\ tmpl'[t].draft.id > 0
      BY <1>2, <1>4, <1>5
    <3> QED BY <1>5, <2>1, <3>1 DEF Grows
  <2>2. CASE u # t
    BY <1>5, <2>2 DEF Grows, KnownDrafts
  <2> QED BY <2>1, <2>2
<1>14. DraftIsFresh(v)
  BY <1>3, <1>13 DEF DraftIsFresh
<1> QED BY <1>8, <1>12, <1>13, <1>14 DEF StoreEffect

\* The fields of a record that is put back with a new draft, or published.
LEMMA RecordPutBack ==
    ASSUME NEW seen \in Records, NEW draft \in Versions
    PROVE  /\ [seen EXCEPT !.draft = draft, !.revision = seen.revision + 1] =
              [revision |-> seen.revision + 1, draft |-> draft, published |-> seen.published]
           /\ [seen EXCEPT !.published = draft, !.revision = seen.revision + 1] =
              [revision |-> seen.revision + 1, draft |-> seen.draft, published |-> draft]
           /\ [NoRecord EXCEPT !.draft = draft] =
              [revision |-> 0, draft |-> draft, published |-> NoVersion]
<1>1. PICK n : n = seen.revision + 1
  OBVIOUS
<1>2. ASSUME NEW s \in Records
      PROVE  [s EXCEPT !.revision = n] = [revision |-> n, draft |-> s.draft, published |-> s.published]
  BY DEF Records
<1>3. [seen EXCEPT !.draft = draft] =
      [revision |-> seen.revision, draft |-> draft, published |-> seen.published]
  BY DEF Records
<1>4. [seen EXCEPT !.published = draft] =
      [revision |-> seen.revision, draft |-> seen.draft, published |-> draft]
  BY DEF Records
<1>5. [NoRecord EXCEPT !.draft = draft] =
      [revision |-> 0, draft |-> draft, published |-> NoVersion]
  BY DEF NoRecord
<1>6. PICK s1 : s1 = [seen EXCEPT !.draft = draft]
  OBVIOUS
<1>7. s1 \in Records /\ s1.draft = draft /\ s1.published = seen.published
  BY <1>3, <1>6 DEF Records
<1>8. PICK s2 : s2 = [seen EXCEPT !.published = draft]
  OBVIOUS
<1>9. s2 \in Records /\ s2.draft = seen.draft /\ s2.published = draft
  BY <1>4, <1>8 DEF Records
<1>10. [seen EXCEPT !.draft = draft, !.revision = n] = [s1 EXCEPT !.revision = n]
  BY <1>6
<1>11. [seen EXCEPT !.published = draft, !.revision = n] = [s2 EXCEPT !.revision = n]
  BY <1>8
<1>12. [s1 EXCEPT !.revision = n] = [revision |-> n, draft |-> draft, published |-> seen.published]
  BY <1>2, <1>7
<1>13. [s2 EXCEPT !.revision = n] = [revision |-> n, draft |-> seen.draft, published |-> draft]
  BY <1>2, <1>9
<1> QED BY <1>1, <1>5, <1>10, <1>11, <1>12, <1>13


\* A record that a request read and puts back, under the revision it read.
\* What follows from such a step for all but the alias tables.
LEMMA PutBackGrows ==
    ASSUME TmInv, NEW t \in TemplateIds, Live(t), NEW rec \in Records, rec.draft.id > 0,
           tmpl' = [tmpl EXCEPT ![t] = rec],
           rec.revision = tmpl[t].revision + 1 \/ rec.revision = 0,
           NEW f, rec.draft \in KnownDrafts \cup {f}
    PROVE  /\ \A u \in TemplateIds : Grows(u)
           /\ \A u \in TemplateIds : tmpl'[u].draft \in KnownDrafts \cup {f}
<1>1. tmpl'[t] = rec /\ \A u \in TemplateIds : u # t => tmpl'[u] = tmpl[u]
  BY RecordWritten
<1>2. tmpl[t].revision \in Nat
  BY DEF TmInv, StoreTypes, Records
<1>3. ASSUME NEW u \in TemplateIds PROVE Grows(u) /\ tmpl'[u].draft \in KnownDrafts \cup {f}
  <2>1. CASE u = t
    BY <1>1, <1>2, <2>1 DEF Grows
  <2>2. CASE u # t
    BY <1>1, <2>2 DEF Grows, KnownDrafts
  <2> QED BY <2>1, <2>2
<1> QED BY <1>3

\* Replacing a draft moves the draft's alias and nothing that was published.
LEMMA ReplaceEffect ==
    ASSUME TmInv, NEW t \in TemplateIds, NEW seen \in Records, tmpl[t] = seen,
           NEW draft \in Versions, draft.id = versionId + 1, ReplaceTemplate(t, seen, draft)
    PROVE  StoreEffect(draft)
<1> DEFINE rec == [revision |-> seen.revision + 1, draft |-> draft,
                   published |-> seen.published]
<1>1. /\ tmpl' = [tmpl EXCEPT ![t] = rec]
      /\ draftAlias' = Moved(draftAlias, seen.draft.alias, draft.alias, t)
      /\ AliasFree(draftAlias, draft.alias, t) /\ Live(t)
      /\ versionId' = draft.id /\ UNCHANGED <<sentAlias, history>>
  BY RecordPutBack DEF ReplaceTemplate, RevisionHolds
<1>2. /\ rec \in Records /\ rec.revision = seen.revision + 1 /\ rec.draft = draft
      /\ rec.published = seen.published /\ seen.revision \in Nat
  BY DEF Records
<1> HIDE DEF rec
<1>3. versionId \in Nat /\ StoreTypes
  BY DEF TmInv, StoreTypes
<1>4. Leads(draftAlias, LiveOf, DraftAliases) /\ Leads(sentAlias, LiveOf, SentAliases)
  BY AliasesLead DEF TmInv
<1>5. LiveOf[t] /\ DraftAliases[t] = seen.draft.alias /\ SentAliases[t] = seen.published.alias
  BY <1>1 DEF LiveOf, DraftAliases, SentAliases
<1>6. LiveOf'[t] /\ DraftAliases'[t] = draft.alias /\ SentAliases'[t] = seen.published.alias
  <2>1. LiveOf'[t] <=> rec.revision > 0
    BY <1>1, <1>2, RecordWritten
  <2>2. rec.revision > 0
    BY <1>2
  <2>3. DraftAliases'[t] = rec.draft.alias
    BY <1>1, <1>2, RecordWritten
  <2>4. SentAliases'[t] = rec.published.alias
    BY <1>1, <1>2, RecordWritten
  <2> QED BY <1>2, <2>1, <2>2, <2>3, <2>4
<1>7. \A u \in TemplateIds : u # t =>
         /\ (LiveOf'[u] <=> LiveOf[u])
         /\ DraftAliases'[u] = DraftAliases[u] /\ SentAliases'[u] = SentAliases[u]
  BY <1>1, <1>2, RecordWritten
<1>8. StoreTypes'
  BY <1>1, <1>2, <1>3, MovedIs, RecordWritten DEF StoreTypes
<1>9. draft.alias # NoAlias => draftAlias[draft.alias] \in {NoTemplate, t}
  BY <1>1 DEF AliasFree
<1>10. Leads(draftAlias', LiveOf', DraftAliases')
  <2>1. draftAlias \in [Aliases -> TemplateIds \cup {NoTemplate}]
    BY <1>3 DEF StoreTypes
  <2>2. Leads(Moved(draftAlias, seen.draft.alias, draft.alias, t), LiveOf', DraftAliases')
    BY SMTT(60), <1>4, <1>5, <1>6, <1>7, <1>9, <2>1, MovedLeads
  <2> QED BY <1>1, <2>2
<1>11. Leads(sentAlias', LiveOf', SentAliases')
  <2>1. \A u \in TemplateIds : (LiveOf'[u] <=> LiveOf[u]) /\ SentAliases'[u] = SentAliases[u]
    BY <1>5, <1>6, <1>7
  <2> QED BY <1>1, <1>4, <2>1 DEF Leads
<1>12. AliasesAgree'
  BY <1>10, <1>11, AliasesLead DEF AliasesAgree, Leads, LiveOf, DraftAliases, SentAliases
<1>13. rec.draft.id > 0
  BY <1>2, <1>3
<1>14. /\ \A u \in TemplateIds : Grows(u)
       /\ \A u \in TemplateIds : tmpl'[u].draft \in KnownDrafts \cup {draft}
  BY <1>1, <1>2, <1>13, PutBackGrows
<1> QED BY <1>1, <1>8, <1>12, <1>14 DEF StoreEffect, DraftIsFresh

\* Publishing makes the draft that was read the published version, under its
\* alias, and leaves the draft as it is.
LEMMA PublishEffect ==
    ASSUME TmInv, NEW t \in TemplateIds, NEW seen \in Records, tmpl[t] = seen,
           seen.draft.id > 0, NEW missed, PublishTemplate(t, seen, missed)
    PROVE  StoreEffect(NoVersion)
<1> DEFINE rec == [revision |-> seen.revision + 1, draft |-> seen.draft,
                   published |-> seen.draft]
<1>1. seen.draft \in Versions
  BY DEF Records
<1>2. /\ tmpl' = [tmpl EXCEPT ![t] = rec]
      /\ sentAlias' = Moved(sentAlias, seen.published.alias, seen.draft.alias, t)
      /\ AliasFree(sentAlias, seen.draft.alias, t) /\ Live(t)
      /\ UNCHANGED <<draftAlias, versionId>>
  BY <1>1, RecordPutBack DEF PublishTemplate, RevisionHolds
<1>3. /\ rec \in Records /\ rec.revision = seen.revision + 1 /\ rec.draft = seen.draft
      /\ rec.published = seen.draft /\ seen.revision \in Nat
  BY DEF Records
<1> HIDE DEF rec
<1>4. StoreTypes
  BY DEF TmInv
<1>5. Leads(draftAlias, LiveOf, DraftAliases) /\ Leads(sentAlias, LiveOf, SentAliases)
  BY AliasesLead DEF TmInv
<1>6. LiveOf[t] /\ DraftAliases[t] = seen.draft.alias /\ SentAliases[t] = seen.published.alias
  BY <1>2 DEF LiveOf, DraftAliases, SentAliases
<1>7. LiveOf'[t] /\ DraftAliases'[t] = seen.draft.alias /\ SentAliases'[t] = seen.draft.alias
  <2>1. LiveOf'[t] <=> rec.revision > 0
    BY <1>2, <1>3, RecordWritten
  <2>2. rec.revision > 0
    BY <1>3
  <2>3. DraftAliases'[t] = rec.draft.alias
    BY <1>2, <1>3, RecordWritten
  <2>4. SentAliases'[t] = rec.published.alias
    BY <1>2, <1>3, RecordWritten
  <2> QED BY <1>3, <2>1, <2>2, <2>3, <2>4
<1>8. \A u \in TemplateIds : u # t =>
         /\ (LiveOf'[u] <=> LiveOf[u])
         /\ DraftAliases'[u] = DraftAliases[u] /\ SentAliases'[u] = SentAliases[u]
  BY <1>2, <1>3, RecordWritten
<1>9. history' \in [TemplateIds -> SUBSET Versions]
  <2>1. PICK gone : history' = [history EXCEPT ![t] = (history[t] \ gone) \cup {seen.draft}]
    BY DEF PublishTemplate
  <2> QED BY <1>1, <1>4, <2>1 DEF StoreTypes
<1>10. StoreTypes'
  BY <1>2, <1>3, <1>4, <1>9, MovedIs, RecordWritten DEF StoreTypes
<1>11. seen.draft.alias # NoAlias => sentAlias[seen.draft.alias] \in {NoTemplate, t}
  BY <1>2 DEF AliasFree
<1>12. Leads(sentAlias', LiveOf', SentAliases')
  <2>1. sentAlias \in [Aliases -> TemplateIds \cup {NoTemplate}]
    BY <1>4 DEF StoreTypes
  <2>2. Leads(Moved(sentAlias, seen.published.alias, seen.draft.alias, t), LiveOf', SentAliases')
    BY SMTT(60), <1>5, <1>6, <1>7, <1>8, <1>11, <2>1, MovedLeads
  <2> QED BY <1>2, <2>2
<1>13. Leads(draftAlias', LiveOf', DraftAliases')
  <2>1. \A u \in TemplateIds : (LiveOf'[u] <=> LiveOf[u]) /\ DraftAliases'[u] = DraftAliases[u]
    BY <1>6, <1>7, <1>8
  <2> QED BY <1>2, <1>5, <2>1 DEF Leads
<1>14. AliasesAgree'
  BY <1>12, <1>13, AliasesLead DEF AliasesAgree, Leads, LiveOf, DraftAliases, SentAliases
<1>15. rec.draft \in KnownDrafts /\ NoVersion \in KnownDrafts
  BY <1>3 DEF KnownDrafts
<1>16. /\ \A u \in TemplateIds : Grows(u)
       /\ \A u \in TemplateIds : tmpl'[u].draft \in KnownDrafts \cup {NoVersion}
  BY <1>2, <1>3, <1>15, PutBackGrows
<1> QED BY <1>2, <1>10, <1>14, <1>15, <1>16 DEF StoreEffect, DraftIsFresh

\* Deleting takes the template's aliases with it, and nobody else's.
LEMMA DeleteEffect ==
    ASSUME TmInv, NEW t \in TemplateIds, NEW seen \in Records, tmpl[t] = seen,
           seen.draft.id > 0, NEW missed \in Missed(t), DeleteTemplate(t, seen, missed)
    PROVE  StoreEffect(NoVersion)
<1> DEFINE rec == [revision |-> 0, draft |-> seen.draft, published |-> NoVersion]
<1>1. /\ NoVersion \in Versions /\ NoVersion.alias = NoAlias /\ NoVersion \in KnownDrafts
      /\ seen.draft \in Versions
  BY DEF NoVersion, Versions, Bodies, KnownDrafts, Records
<1>2. /\ tmpl' = [tmpl EXCEPT ![t] = rec]
      /\ draftAlias' = Moved(draftAlias, seen.draft.alias, NoAlias, t)
      /\ sentAlias' = Moved(sentAlias, seen.published.alias, NoAlias, t)
      /\ history' = [history EXCEPT ![t] = missed]
      /\ Live(t) /\ UNCHANGED versionId
  BY <1>1, RecordPutBack DEF DeleteTemplate, RevisionHolds
<1>3. /\ rec \in Records /\ rec.revision = 0 /\ rec.draft = seen.draft
      /\ rec.published = NoVersion
  BY <1>1 DEF Records
<1> HIDE DEF rec
<1>4. StoreTypes
  BY DEF TmInv
<1>5. Leads(draftAlias, LiveOf, DraftAliases) /\ Leads(sentAlias, LiveOf, SentAliases)
  BY AliasesLead DEF TmInv
<1>6. LiveOf[t] /\ DraftAliases[t] = seen.draft.alias /\ SentAliases[t] = seen.published.alias
  BY <1>2 DEF LiveOf, DraftAliases, SentAliases
<1>7. ~LiveOf'[t]
  <2>1. LiveOf'[t] <=> rec.revision > 0
    BY <1>2, <1>3, RecordWritten
  <2>2. ~(rec.revision > 0)
    BY <1>3
  <2> QED BY <2>1, <2>2
<1>8. \A u \in TemplateIds : u # t =>
         /\ (LiveOf'[u] <=> LiveOf[u])
         /\ DraftAliases'[u] = DraftAliases[u] /\ SentAliases'[u] = SentAliases[u]
  BY <1>2, <1>3, RecordWritten
<1>9. missed \subseteq history[t]
  BY DEF Missed, Newest
<1>10. StoreTypes'
  BY <1>2, <1>3, <1>4, <1>9, MovedIs, RecordWritten DEF StoreTypes
<1>11. Leads(draftAlias', LiveOf', DraftAliases')
  <2>1. draftAlias \in [Aliases -> TemplateIds \cup {NoTemplate}]
    BY <1>4 DEF StoreTypes
  <2>2. Leads(Moved(draftAlias, seen.draft.alias, NoAlias, t), LiveOf', DraftAliases')
    BY <1>5, <1>6, <1>7, <1>8, <2>1, MovedLeads
  <2> QED BY <1>2, <2>2
<1>12. Leads(sentAlias', LiveOf', SentAliases')
  <2>1. sentAlias \in [Aliases -> TemplateIds \cup {NoTemplate}]
    BY <1>4 DEF StoreTypes
  <2>2. Leads(Moved(sentAlias, seen.published.alias, NoAlias, t), LiveOf', SentAliases')
    BY <1>5, <1>6, <1>7, <1>8, <2>1, MovedLeads
  <2> QED BY <1>2, <2>2
<1>13. AliasesAgree'
  BY <1>11, <1>12, AliasesLead DEF AliasesAgree, Leads, LiveOf, DraftAliases, SentAliases
<1>14. rec.draft \in KnownDrafts
  BY <1>3 DEF KnownDrafts
<1>15. /\ \A u \in TemplateIds : Grows(u)
       /\ \A u \in TemplateIds : tmpl'[u].draft \in KnownDrafts \cup {NoVersion}
  BY <1>2, <1>3, <1>14, PutBackGrows
<1> QED BY <1>1, <1>2, <1>10, <1>13, <1>15 DEF StoreEffect, DraftIsFresh


\* What a request that has read holds: its fields, and its draft is known.
LEMMA ActingIs ==
    ASSUME TmInv, NEW c \in TemplateClients
    PROVE  /\ clientCall[c] \in ClientRecords /\ clientCall[c].seen \in Records
           /\ clientCall[c].seen.draft \in Versions
           /\ clientCall[c].seen.draft \in KnownDrafts
           /\ versionId \in Nat
BY DEF TmInv, StoreTypes, ClientRecords, Records, KnownDrafts

\* A version that is made bears the next id.
LEMMA FreshIs ==
    ASSUME TmInv, NEW a \in Aliases \cup {NoAlias}, NEW b \in Bodies
    PROVE  /\ Fresh(a, b) \in Versions /\ Fresh(a, b).id = versionId + 1
BY DEF TmInv, StoreTypes, Fresh, Versions

\* POST /templates.
LEMMA CreateTemplateKeeps ==
    ASSUME TmInv, NEW c \in TemplateClients, NEW t \in TemplateIds,
           NEW a \in Aliases \cup {NoAlias}, NEW b \in Bodies, Create(c, t, a, b)
    PROVE  TmInv'
<1>1. StoreEffect(Fresh(a, b))
  BY FreshIs, CreateEffect DEF Create
<1>2. clientCall' = [clientCall EXCEPT ![c] = Idle]
  BY DEF Create, TmInv
<1>3. released' # "other"
  BY DEF Create, TmInv, PushPublishesManifest
<1> QED BY <1>1, <1>2, <1>3, IdleAsks, TemplateStep

\* A client sends another request.
LEMMA RequestKeeps ==
    ASSUME TmInv, NEW c \in TemplateClients,
           NEW op \in {"update", "publish", "restore", "duplicate", "delete", "send"},
           NEW t \in TemplateIds \cup {NoTemplate}, NEW a \in Aliases \cup {NoAlias},
           NEW expect \in 0..MaxVersion, Request(c, op, t, a, expect)
    PROVE  TmInv'
<1>1. StoreEffect(NoVersion)
  BY StoredEffect DEF Request
<1>2. c # "push" /\ Requested(c, op, t, a, expect) /\ (t = NoTemplate => a \in Aliases)
      /\ expect \in Nat
  BY TemplatesAssumption DEF Request
<1>3. PICK r : Asks(c, r) /\ ClientHolds(c)'
  BY <1>2, RequestedAsks
<1>4. released' # "other"
  BY DEF Request, TmInv, PushPublishesManifest
<1> QED BY <1>1, <1>3, <1>4, TemplateStep

\* A request changes its own record only, and not what it has read or asks
\* for: it goes on to a step, with a template that it found.
GoesTo(c, target, step) ==
    clientCall' = [clientCall EXCEPT ![c].target = target, ![c].step = step]

\* Going on to another step before the record is read.
LEMMA LookedUpKeeps ==
    ASSUME TmInv, NEW c \in TemplateClients, NEW target \in TemplateIds \cup {NoTemplate},
           NEW step \in {"load", "legacy", "absent"}, GoesTo(c, target, step),
           step = "load" => target \in TemplateIds,
           step = "legacy" => clientCall[c].alias \in Aliases,
           UNCHANGED <<Stored, released>>
    PROVE  TmInv'
<1>1. StoreEffect(NoVersion)
  BY StoredEffect
<1>2. PICK s : s = clientCall[c] /\ s \in ClientRecords
  BY ActingIs
<1>3. PICK r1 : r1 = [s EXCEPT !.target = target]
  OBVIOUS
<1>4. /\ r1 \in ClientRecords /\ r1.target = target /\ r1.op = s.op /\ r1.alias = s.alias
      /\ r1.seen = s.seen /\ r1.expect = s.expect
  BY <1>2, <1>3 DEF ClientRecords
<1>5. PICK r : r = [r1 EXCEPT !.step = step]
  OBVIOUS
<1>6. /\ r \in ClientRecords /\ r.target = target /\ r.op = s.op /\ r.alias = s.alias
      /\ r.seen = s.seen /\ r.expect = s.expect /\ r.step = step
  BY <1>4, <1>5 DEF ClientRecords
<1>7. clientCall' = [clientCall EXCEPT ![c] = r]
  BY <1>2, <1>3, <1>5 DEF GoesTo, TmInv
<1>8. ClientHolds(c)
  BY DEF TmInv
<1>9. c = "push" => ReleaseIsReviewed(s)
  BY <1>2 DEF TmInv
<1>10. Asks(c, r)
  BY <1>2, <1>6, <1>7, <1>9, ActingIs DEF Asks, ReleaseIsReviewed
<1>11. clientCall'[c] = r
  BY <1>7 DEF TmInv
<1>12. ClientHolds(c)'
  BY <1>2, <1>6, <1>8, <1>11 DEF ClientHolds, SightHolds
<1>13. released' # "other"
  BY DEF TmInv, PushPublishesManifest
<1> QED BY <1>1, <1>10, <1>12, <1>13, TemplateStep

\* A client that ends, where the stores change as they do.
LEMMA EndedKeeps ==
    ASSUME TmInv, NEW c \in TemplateClients, clientCall' = [clientCall EXCEPT ![c] = Idle],
           NEW f, StoreEffect(f), released' # "other"
    PROVE  TmInv'
BY IdleAsks, TemplateStep

\* The identifier is looked up: in the drafts, or in what was published and
\* then in the drafts.
LEMMA ResolveAliasKeeps ==
    ASSUME TmInv, NEW c \in TemplateClients, ResolveAlias(c) PROVE TmInv'
<1>1. clientCall[c].step = "resolve" /\ clientCall[c].alias \in Aliases
  BY DEF ResolveAlias, TmInv, ClientHolds
<1>2. PICK t \in TemplateIds \cup {NoTemplate} :
          t = (IF clientCall[c].op = "send" THEN sentAlias ELSE draftAlias)[clientCall[c].alias]
  BY <1>1 DEF TmInv, StoreTypes
<1>3. PICK step \in {"load", "legacy", "absent"} :
          step = (IF t # NoTemplate THEN "load"
                  ELSE IF clientCall[c].op = "send" THEN "legacy" ELSE "absent")
  OBVIOUS
<1>4. GoesTo(c, t, step)
  BY <1>2, <1>3 DEF ResolveAlias, GoesTo
<1>5. UNCHANGED <<Stored, released>>
  BY DEF ResolveAlias
<1> QED BY <1>1, <1>3, <1>4, <1>5, LookedUpKeeps

\* A send falls back to the alias of a draft.
LEMMA ResolveLegacyKeeps ==
    ASSUME TmInv, NEW c \in TemplateClients, ResolveLegacy(c) PROVE TmInv'
<1>1. clientCall[c].step = "legacy" /\ clientCall[c].alias \in Aliases
  BY DEF ResolveLegacy, TmInv, ClientHolds
<1>2. PICK t \in TemplateIds \cup {NoTemplate} : t = draftAlias[clientCall[c].alias]
  BY <1>1 DEF TmInv, StoreTypes
<1>3. UNCHANGED <<Stored, released>>
  BY DEF ResolveLegacy
<1>4. CASE t # NoTemplate /\ GoesTo(c, t, "load")
  BY <1>3, <1>4, LookedUpKeeps
<1>5. CASE clientCall' = [clientCall EXCEPT ![c] = Idle]
  <2>1. released' # "other"
    BY <1>3 DEF TmInv, PushPublishesManifest
  <2> QED BY <1>3, <1>5, <2>1, StoredEffect, EndedKeeps
<1> QED BY <1>2, <1>4, <1>5 DEF ResolveLegacy, GoesTo, Ends

\* The record is read; what is read is a known draft, and is the record.
LEMMA LoadRecordKeeps ==
    ASSUME TmInv, NEW c \in TemplateClients, LoadRecord(c) PROVE TmInv'
<1>1. PICK s : s = clientCall[c] /\ s \in ClientRecords
  BY ActingIs
<1>2. s.step = "load" /\ UNCHANGED <<Stored, released>>
  BY <1>1 DEF LoadRecord
<1>3. PICK t \in TemplateIds : t = s.target
  BY <1>1, <1>2 DEF TmInv, ClientHolds
<1>4. StoreEffect(NoVersion) /\ UNCHANGED tmpl
  BY <1>2, StoredEffect DEF Stored
<1>5. ClientHolds(c) /\ (c = "push" => ReleaseIsReviewed(s))
  BY <1>1 DEF TmInv
<1>6. released' # "other"
  BY <1>2 DEF TmInv, PushPublishesManifest
<1>7. CASE Live(t)
  <2>1. PICK r1 : r1 = [s EXCEPT !.seen = tmpl[t]]
    OBVIOUS
  <2>2. tmpl[t] \in Records
    BY DEF TmInv, StoreTypes
  <2>3. /\ r1 \in ClientRecords /\ r1.target = t /\ r1.op = s.op /\ r1.alias = s.alias
        /\ r1.seen = tmpl[t] /\ r1.expect = s.expect
    BY <1>1, <1>3, <2>1, <2>2 DEF ClientRecords
  <2>4. PICK r : r = [r1 EXCEPT !.step = "act"]
    OBVIOUS
  <2>5. /\ r \in ClientRecords /\ r.target = t /\ r.op = s.op /\ r.alias = s.alias
        /\ r.seen = tmpl[t] /\ r.expect = s.expect /\ r.step = "act"
    BY <2>3, <2>4 DEF ClientRecords
  <2>6. clientCall' = [clientCall EXCEPT ![c] = r]
    BY <1>1, <1>3, <1>7, <2>1, <2>4 DEF LoadRecord
  <2>7. Asks(c, r)
    BY <1>5, <2>5, <2>6 DEF Asks, ReleaseIsReviewed, KnownDrafts
  <2>8. clientCall'[c] = r
    BY <2>6 DEF TmInv
  <2>9. tmpl[t].revision > 0 /\ tmpl[t].draft.id > 0 /\ tmpl[t].revision \in Nat
    BY <1>7, <2>2 DEF Live, TmInv, Records
  <2>10. SightHolds(c)'
    BY <1>4, <2>5, <2>8, <2>9 DEF SightHolds
  <2>11. ClientHolds(c)'
    BY <1>1, <1>5, <2>5, <2>8, <2>10 DEF ClientHolds
  <2> QED BY <1>4, <1>6, <2>7, <2>11, TemplateStep
<1>8. CASE ~Live(t)
  <2>1. PICK r : r = [s EXCEPT !.step = "absent"]
    OBVIOUS
  <2>2. /\ r \in ClientRecords /\ r.op = s.op /\ r.alias = s.alias
        /\ r.seen = s.seen /\ r.expect = s.expect /\ r.step = "absent"
    BY <1>1, <2>1 DEF ClientRecords
  <2>3. clientCall' = [clientCall EXCEPT ![c] = r]
    BY <1>1, <1>3, <1>8, <2>1 DEF LoadRecord
  <2>4. Asks(c, r)
    BY <1>1, <1>5, <2>2, <2>3, ActingIs DEF Asks, ReleaseIsReviewed
  <2>5. clientCall'[c] = r
    BY <2>3 DEF TmInv
  <2>6. ClientHolds(c)'
    BY <1>1, <1>5, <2>2, <2>5 DEF ClientHolds, SightHolds
  <2> QED BY <1>4, <1>6, <2>4, <2>6, TemplateStep
<1> QED BY <1>7, <1>8

\* A request that changes nothing in the stores.
LEMMA AnsweredKeeps ==
    ASSUME TmInv, NEW c \in TemplateClients,
           NotFound(c) \/ Refused(c) \/ \E given \in BOOLEAN : Send(c, given)
    PROVE  TmInv'
<1>1. UNCHANGED <<Stored, released>> /\ clientCall' = [clientCall EXCEPT ![c] = Idle]
  BY DEF NotFound, Refused, Send, Ends
<1>2. released' # "other"
  BY <1>1 DEF TmInv, PushPublishesManifest
<1> QED BY <1>1, <1>2, StoredEffect, EndedKeeps

\* An update, a restoration, a copy and a deletion, each on the record that
\* was read.
LEMMA EditKeeps ==
    ASSUME TmInv, NEW c \in TemplateClients,
           \/ \E a \in Aliases \cup {NoAlias}, b \in Bodies : Update(c, a, b)
           \/ \E t \in TemplateIds : \E v \in history[t] : Restore(c, v)
           \/ \E t \in TemplateIds : Duplicate(c, t)
           \/ Delete(c)
    PROVE  TmInv'
<1>1. released' # "other" /\ clientCall' = [clientCall EXCEPT ![c] = Idle]
  BY DEF TmInv, PushPublishesManifest, Update, Restore, Duplicate, Delete, Ends
<1>2. CASE \E a \in Aliases \cup {NoAlias}, b \in Bodies : Update(c, a, b)
  <2>1. PICK a \in Aliases \cup {NoAlias}, b \in Bodies : Update(c, a, b)
    BY <1>2
  <2>2. PICK f : f = Fresh(a, b)
    OBVIOUS
  <2>3. clientCall[c].step = "act" /\ ReplaceTemplate(clientCall[c].target, clientCall[c].seen, f)
    BY <2>1, <2>2 DEF Update, Acts
  <2>4. StoreEffect(f)
    BY <2>2, <2>3, FreshIs, SeenIsCurrent, ReplaceEffect DEF ReplaceTemplate
  <2> QED BY <1>1, <2>4, EndedKeeps
<1>3. CASE \E t \in TemplateIds : \E v \in history[t] : Restore(c, v)
  <2>1. PICK t \in TemplateIds : \E v \in history[t] : Restore(c, v)
    BY <1>3
  <2>2. PICK v \in history[t] : Restore(c, v)
    BY <2>1
  <2>3. v.alias \in Aliases \cup {NoAlias} /\ v.body \in Bodies
    BY <2>2 DEF TmInv, StoreTypes, Versions
  <2>4. PICK f : f = Fresh(v.alias, v.body)
    OBVIOUS
  <2>5. clientCall[c].step = "act" /\ ReplaceTemplate(clientCall[c].target, clientCall[c].seen, f)
    BY <2>2, <2>4 DEF Restore, Acts
  <2>6. StoreEffect(f)
    BY <2>3, <2>4, <2>5, FreshIs, SeenIsCurrent, ReplaceEffect DEF ReplaceTemplate
  <2> QED BY <1>1, <2>6, EndedKeeps
<1>4. CASE \E t \in TemplateIds : Duplicate(c, t)
  <2>1. PICK t \in TemplateIds : Duplicate(c, t)
    BY <1>4
  <2>2. clientCall[c].seen.draft.body \in Bodies
    BY ActingIs DEF Versions
  <2>3. StoreEffect(Fresh(NoAlias, clientCall[c].seen.draft.body))
    BY <2>1, <2>2, FreshIs, CreateEffect DEF Duplicate
  <2> QED BY <1>1, <2>3, EndedKeeps
<1>5. CASE Delete(c)
  <2>1. PICK missed \in Missed(clientCall[c].target) :
            DeleteTemplate(clientCall[c].target, clientCall[c].seen, missed)
    BY <1>5 DEF Delete
  <2>2. clientCall[c].step = "act" /\ RevisionHolds(clientCall[c].target, clientCall[c].seen)
    BY <1>5, <2>1 DEF Delete, Acts, DeleteTemplate
  <2>3. StoreEffect(NoVersion)
    BY <2>1, <2>2, SeenIsCurrent, DeleteEffect
  <2> QED BY <1>1, <2>3, EndedKeeps
<1> QED BY <1>2, <1>3, <1>4, <1>5

\* A publication is of the draft that was read; for the command line, that is
\* the version it asked for, which it had compared with its manifest.
LEMMA PublishKeeps ==
    ASSUME TmInv, NEW c \in TemplateClients, Publish(c) PROVE TmInv'
<1> DEFINE s == clientCall[c]
<1>1. /\ s.op \in {"publish", "release"} /\ s.step = "act"
      /\ s.expect # 0 => s.seen.draft.id = s.expect
      /\ clientCall' = [clientCall EXCEPT ![c] = Idle]
  BY DEF Publish, Reviewed, Ends
<1>2. StoreEffect(NoVersion)
  <2>1. CASE UNCHANGED Stored
    BY <2>1, StoredEffect
  <2>2. CASE \E missed \in Missed(s.target) : PublishTemplate(s.target, s.seen, missed)
    <3>1. PICK missed \in Missed(s.target) : PublishTemplate(s.target, s.seen, missed)
      BY <2>2
    <3>2. RevisionHolds(s.target, s.seen)
      BY <3>1 DEF PublishTemplate
    <3> QED BY <1>1, <3>1, <3>2, SeenIsCurrent, PublishEffect
  <2> QED BY <2>1, <2>2 DEF Publish
<1>3. released' # "other"
  <2>1. CASE c # "push"
    BY <2>1 DEF Publish, TmInv, PushPublishesManifest
  <2>2. CASE c = "push"
    <3>1. s.op = "release"
      BY <1>1, <2>2 DEF TmInv, ClientHolds
    <3>2. ReleaseIsReviewed(s)
      BY <2>2 DEF TmInv
    <3>3. s.seen.draft \in KnownDrafts
      BY ActingIs
    <3>4. s.seen.draft.alias = s.alias /\ s.seen.draft.body = "plain"
      BY <1>1, <3>1, <3>2, <3>3 DEF ReleaseIsReviewed
    <3>5. MatchesManifest(s.seen.draft)
      BY <2>2, <3>4 DEF MatchesManifest
    <3> QED BY <2>2, <3>5 DEF Publish
  <2> QED BY <2>1, <2>2
<1> QED BY <1>1, <1>2, <1>3, EndedKeeps


\* A request of the command line to the next of its routes.
LEMMA PushAsks ==
    ASSUME TmInv, NEW op \in {"plan", "patch", "review", "release"},
           NEW t \in TemplateIds \cup {NoTemplate}, NEW a \in Aliases, NEW expect \in Nat,
           Requested("push", op, t, a, expect), NEW f, StoreEffect(f), released' = released,
           op = "release" => /\ expect # 0 /\ expect <= versionId
                             /\ \A v \in KnownDrafts :
                                   v.id = expect => v.alias = a /\ v.body = "plain"
    PROVE  TmInv'
<1>1. "push" \in TemplateClients
  BY TemplatesAssumption
<1>2. PICK r : Asks("push", r) /\ ClientHolds("push")'
  BY <1>1, RequestedAsks
<1>3. released' # "other"
  BY DEF TmInv, PushPublishesManifest
<1> QED BY <1>1, <1>2, <1>3, TemplateStep

\* The version of a draft that matches the manifest may be asked for: every
\* known draft of that version is the one that matched.
LEMMA ReviewedDraft ==
    ASSUME TmInv, clientCall["push"].step = "act",
           MatchesManifest(clientCall["push"].seen.draft)
    PROVE  /\ clientCall["push"].seen.draft.id \in Nat
           /\ clientCall["push"].seen.draft.id # 0
           /\ clientCall["push"].seen.draft.id <= versionId
           /\ \A v \in KnownDrafts : v.id = clientCall["push"].seen.draft.id =>
                 v.alias = clientCall["push"].alias /\ v.body = "plain"
<1>1. PICK w : w = clientCall["push"].seen.draft
  OBVIOUS
<1>2. w \in KnownDrafts /\ w.id \in Nat
  BY <1>1, ActingIs, TemplatesAssumption DEF Versions
<1>3. w.id > 0
  BY <1>1, TemplatesAssumption DEF TmInv, ClientHolds, SightHolds
<1>4. w.alias = clientCall["push"].alias /\ w.body = "plain"
  BY <1>1 DEF MatchesManifest
<1>5. w.id <= versionId /\ \A v \in KnownDrafts : v.id = w.id => v = w
  BY <1>2 DEF TmInv, DraftsAgree
<1> QED BY <1>1, <1>2, <1>3, <1>4, <1>5

\* The command line's own steps: plan, create or update, review, stop.
LEMMA PushKeeps ==
    ASSUME TmInv,
           \/ \E a \in Aliases : PushBegins(a)
           \/ \E t \in TemplateIds : PushCreates(t)
           \/ PushPlans \/ PushUpdates \/ PushReviews \/ PushStops
    PROVE  TmInv'
<1> DEFINE p == clientCall["push"]
<1>1. /\ "push" \in TemplateClients /\ ClientHolds("push") /\ p \in ClientRecords
      /\ p.seen \in Records /\ (p.op # "idle" => p.alias \in Aliases)
  BY TemplatesAssumption DEF TmInv, ClientRecords, ClientHolds
<1>2. "plain" \in Bodies /\ 0 \in Nat
  BY DEF Bodies
<1>3. CASE \E a \in Aliases : PushBegins(a)
  <2>1. PICK a \in Aliases : PushBegins(a)
    BY <1>3
  <2>2. Requested("push", "plan", NoTemplate, a, 0) /\ UNCHANGED <<Stored, released>>
    BY <2>1 DEF PushBegins
  <2> QED BY <2>2, StoredEffect, PushAsks
<1>4. CASE \E t \in TemplateIds : PushCreates(t)
  <2>1. PICK t \in TemplateIds : PushCreates(t)
    BY <1>4
  <2>2. PICK f : f = Fresh(p.alias, "plain")
    OBVIOUS
  <2>3. /\ p.op = "plan" /\ CreateTemplate(t, f) /\ released' = released
        /\ Requested("push", "review", NoTemplate, p.alias, 0)
    BY <2>1, <2>2 DEF PushCreates
  <2>4. StoreEffect(f)
    BY <1>1, <1>2, <2>2, <2>3, FreshIs, CreateEffect
  <2> QED BY <1>1, <2>3, <2>4, PushAsks
<1>5. CASE PushPlans
  <2>1. p.op = "plan" /\ p.step = "act" /\ UNCHANGED <<Stored, released>>
    BY <1>5 DEF PushPlans, Acts
  <2>2. p.target \in TemplateIds /\ p.alias \in Aliases
    BY <1>1, <2>1 DEF ClientHolds
  <2>3. CASE Requested("push", "patch", p.target, p.alias, 0)
    BY <2>1, <2>2, <2>3, StoredEffect, PushAsks
  <2>4. CASE /\ MatchesManifest(p.seen.draft)
             /\ Requested("push", "release", p.target, p.alias, p.seen.draft.id)
    BY <2>1, <2>2, <2>4, StoredEffect, ReviewedDraft, PushAsks
  <2>5. CASE clientCall' = [clientCall EXCEPT !["push"] = Idle]
    <3>1. released' # "other"
      BY <2>1 DEF TmInv, PushPublishesManifest
    <3> QED BY <1>1, <2>1, <2>5, <3>1, StoredEffect, EndedKeeps
  <2> QED BY <1>5, <2>3, <2>4, <2>5 DEF PushPlans, Ends
<1>6. CASE PushUpdates
  <2>1. PICK f : f = Fresh(p.alias, "plain")
    OBVIOUS
  <2>2. /\ p.op = "patch" /\ p.step = "act" /\ ReplaceTemplate(p.target, p.seen, f)
        /\ Requested("push", "review", NoTemplate, p.alias, 0) /\ released' = released
    BY <1>6, <2>1 DEF PushUpdates, Acts
  <2>3. StoreEffect(f)
    BY <1>1, <1>2, <2>1, <2>2, FreshIs, SeenIsCurrent, ReplaceEffect DEF ReplaceTemplate
  <2> QED BY <1>1, <2>2, <2>3, PushAsks
<1>7. CASE PushReviews
  <2>1. /\ p.op = "review" /\ p.step = "act" /\ UNCHANGED <<Stored, released>>
        /\ MatchesManifest(p.seen.draft)
        /\ Requested("push", "release", p.target, p.alias, p.seen.draft.id)
    BY <1>7 DEF PushReviews, Acts
  <2>2. p.target \in TemplateIds /\ p.alias \in Aliases
    BY <1>1, <2>1 DEF ClientHolds
  <2> QED BY <2>1, <2>2, StoredEffect, ReviewedDraft, PushAsks
<1>8. CASE PushStops
  <2>1. clientCall' = [clientCall EXCEPT !["push"] = Idle] /\ UNCHANGED <<Stored, released>>
    BY <1>8 DEF PushStops, Ends
  <2>2. released' # "other"
    BY <2>1 DEF TmInv, PushPublishesManifest
  <2> QED BY <1>1, <2>1, <2>2, StoredEffect, EndedKeeps
<1> QED BY <1>3, <1>4, <1>5, <1>6, <1>7, <1>8

\* What records, alias tables and requests hold together in every state of
\* the templates, whatever the requests interleave.
THEOREM TemplateInvariant == TmSpec => []TmInv
<1>1. TmInit => TmInv
  <2> SUFFICES ASSUME TmInit PROVE TmInv
    OBVIOUS
  <2>1. NoVersion \in Versions /\ NoVersion.id = 0 /\ NoVersion.alias = NoAlias
    BY DEF NoVersion, Versions, Bodies
  <2>2. /\ NoRecord \in Records /\ NoRecord.draft = NoVersion /\ NoRecord.published = NoVersion
        /\ NoRecord.revision = 0
    BY <2>1 DEF NoRecord, Records
  <2>3. Idle \in ClientRecords /\ Idle.step = "idle" /\ Idle.op = "idle" /\ Idle.seen = NoRecord
    BY <2>2 DEF Idle, ClientRecords
  <2>4. StoreTypes
    BY <2>2 DEF TmInit, StoreTypes
  <2>5. clientCall \in [TemplateClients -> ClientRecords]
    BY <2>3 DEF TmInit
  <2>6. \A t \in TemplateIds : tmpl[t] = NoRecord /\ ~Live(t)
    BY <2>2 DEF TmInit, Live
  <2>7. \A c \in TemplateClients : clientCall[c] = Idle /\ ClientHolds(c)
    BY <2>3 DEF TmInit, ClientHolds, SightHolds
  <2>8. KnownDrafts = {NoVersion}
    BY <2>2, <2>3, <2>6, <2>7 DEF KnownDrafts
  <2>9. DraftsAgree
    BY <2>1, <2>8 DEF TmInit, DraftsAgree
  <2>10. ReleaseIsReviewed(clientCall["push"])
    BY <2>3, <2>7, TemplatesAssumption DEF ReleaseIsReviewed
  <2>11. AliasesAgree
    BY <2>6, TemplatesAssumption DEF TmInit, AliasesAgree
  <2> QED
    BY <2>4, <2>5, <2>6, <2>7, <2>9, <2>10, <2>11 DEF TmInv, TmInit, PushPublishesManifest
<1>2. TmInv /\ [TmNext]_tmVars => TmInv'
  <2> SUFFICES ASSUME TmInv, [TmNext]_tmVars PROVE TmInv'
    OBVIOUS
  <2>1. ASSUME NEW c \in TemplateClients, NEW t \in TemplateIds,
               NEW a \in Aliases \cup {NoAlias}, NEW b \in Bodies, Create(c, t, a, b)
        PROVE  TmInv'
    BY <2>1, CreateTemplateKeeps
  <2>2. ASSUME NEW c \in TemplateClients,
               NEW op \in {"update", "publish", "restore", "duplicate", "delete", "send"},
               NEW t \in TemplateIds \cup {NoTemplate}, NEW a \in Aliases \cup {NoAlias},
               NEW expect \in 0..MaxVersion, Request(c, op, t, a, expect)
        PROVE  TmInv'
    BY <2>2, RequestKeeps
  <2>3. ASSUME NEW c \in TemplateClients, ResolveAlias(c) PROVE TmInv'
    BY <2>3, ResolveAliasKeeps
  <2>4. ASSUME NEW c \in TemplateClients, ResolveLegacy(c) PROVE TmInv'
    BY <2>4, ResolveLegacyKeeps
  <2>5. ASSUME NEW c \in TemplateClients, LoadRecord(c) PROVE TmInv'
    BY <2>5, LoadRecordKeeps
  <2>6. ASSUME NEW c \in TemplateClients,
               NotFound(c) \/ Refused(c) \/ \E given \in BOOLEAN : Send(c, given)
        PROVE  TmInv'
    BY <2>6, AnsweredKeeps
  <2>7. ASSUME NEW c \in TemplateClients,
               \/ \E a \in Aliases \cup {NoAlias}, b \in Bodies : Update(c, a, b)
               \/ \E t \in TemplateIds : \E v \in history[t] : Restore(c, v)
               \/ \E t \in TemplateIds : Duplicate(c, t)
               \/ Delete(c)
        PROVE  TmInv'
    BY <2>7, EditKeeps
  <2>8. ASSUME NEW c \in TemplateClients, Publish(c) PROVE TmInv'
    BY <2>8, PublishKeeps
  <2>9. CASE \/ \E a \in Aliases : PushBegins(a)
             \/ \E t \in TemplateIds : PushCreates(t)
             \/ PushPlans \/ PushUpdates \/ PushReviews \/ PushStops
    BY <2>9, PushKeeps
  <2>10. CASE UNCHANGED tmVars
    <3>1. UNCHANGED <<tmpl, draftAlias, sentAlias, history, versionId, clientCall, released>>
      BY <2>10 DEF tmVars
    <3>2. KnownDrafts' = KnownDrafts
      BY <3>1 DEF KnownDrafts
    <3>3. /\ StoreTypes' /\ AliasesAgree' /\ PushPublishesManifest' /\ DraftsAgree'
          /\ ReleaseIsReviewed(clientCall["push"])'
      BY <3>1, <3>2 DEF TmInv, StoreTypes, AliasesAgree, Live, PushPublishesManifest,
                        DraftsAgree, ReleaseIsReviewed
    <3>4. \A c \in TemplateClients : ClientHolds(c)'
      BY <3>1 DEF TmInv, ClientHolds, SightHolds, Live
    <3> QED BY <3>1, <3>3, <3>4 DEF TmInv, Live
  <2> QED
    BY <2>1, <2>2, <2>3, <2>4, <2>5, <2>6, <2>7, <2>8, <2>9, <2>10 DEF TmNext
<1> QED BY <1>1, <1>2, PTL DEF TmSpec

\* An alias leads to the template that carries it and to no other, whatever
\* requests interleave between a read and the transaction that moves it.
THEOREM AliasesAgreeHolds == TmSpec => []AliasesAgree
<1>1. TmInv => AliasesAgree
  BY DEF TmInv
<1> QED BY <1>1, TemplateInvariant, PTL

\* What the command line publishes is its manifest, for any number of other
\* clients, templates and versions.
THEOREM PushPublishesManifestHolds == TmSpec => []PushPublishesManifest
<1>1. TmInv => PushPublishesManifest
  BY DEF TmInv
<1> QED BY <1>1, TemplateInvariant, PTL

-----------------------------------------------------------------------------
(* Received e-mail: what Lambda was told is done, is done, and one fault    *)
(* does not use up the attempts at a message.                               *)

Ingestions ==
    [pc : {"waiting", "get", "claim", "recheck", "read", "attachments", "create", "ensure",
           "mark", "answer", "acknowledged", "givenUp"},
     attempt : 1..Attempts, clock : Nat, left : SUBSET Parts, releasing : BOOLEAN]

ReceiveTypes ==
    /\ inboundClaim \in [left : 0..LeaseTime + 1, by : Events \cup {Nobody}]
    /\ objects \subseteq Parts \cup {"content"}
    /\ received \in [stored : BOOLEAN, queuedAt : BOOLEAN]
    /\ announcement \in {"none", "queued", "published"}
    /\ ingestion \in [Events -> Ingestions]
    /\ receiveFaults \in Nat

\* What an invocation knows by its place in the handler.
IngestionHolds(i, recorded, announced, inBucket) ==
    /\ i.pc \in {"ensure", "mark", "answer", "acknowledged"} => recorded
    /\ i.pc \in {"mark", "answer", "acknowledged"} => announced # "none"
    /\ i.pc = "attachments" => Parts \ i.left \subseteq inBucket
    /\ i.pc = "create" => {"content"} \cup Parts \subseteq inBucket
    /\ i.releasing => i.pc \in {"ensure", "mark", "answer"}

IngestionsHold ==
    \A e \in Events : IngestionHolds(ingestion[e], received.stored, announcement, objects)

\* A record is written after all its objects, and marked after its job.
RecordHolds(recorded, marked, announced, inBucket, shown) ==
    /\ marked => announced # "none"
    /\ recorded => {"content"} \cup Parts \subseteq inBucket
    /\ shown # "error"

ReceivedHolds == RecordHolds(received.stored, received.queuedAt, announcement, objects, reading)

\* On its way to the announcement, with nothing left that could refuse it.
Works(i) == i.pc \in {"read", "attachments", "create", "ensure"}
Pioneer(i) == Works(i) /\ i.attempt = 1

\* Has met a lease of another invocation, or is not at its first attempt.
Delayed(i) == i.attempt > 1 \/ i.pc \in {"givenUp", "recheck"}

\* Without a fault, who holds a lease or makes another wait goes on to announce.
PioneerGoesOn ==
    /\ receiveFaults = 0 /\ announcement = "none"
    /\ inboundClaim.left # 0 \/ \E e \in Events : Delayed(ingestion[e])
    => \E e \in Events : Pioneer(ingestion[e])

\* An invocation that the lease, with so much of it left, cannot keep from
\* announcing: at the latest its third attempt comes after the lease.
Waits(i) == IF i.pc = "waiting" THEN i.clock ELSE 0
WillAnnounce(i, lease, recorded) ==
    \/ Works(i)
    \/ i.pc \notin {"acknowledged", "givenUp"} /\ recorded
    \/ /\ i.pc \notin {"acknowledged", "givenUp"}
       /\ i.attempt = 2 /\ lease <= Waits(i) + RetryAfter[2]
    \/ /\ i.pc \notin {"acknowledged", "givenUp", "recheck"}
       /\ i.attempt = 3 /\ lease <= Waits(i)

\* After one fault somebody still gets through.
OneFaultIsSurvived ==
    receiveFaults = 1 /\ announcement = "none" =>
        \E e \in Events : WillAnnounce(ingestion[e], inboundClaim.left, received.stored)

ReceiveInv ==
    /\ ReceiveTypes
    /\ IngestionsHold
    /\ ReceivedHolds
    /\ PioneerGoesOn
    /\ OneFaultIsSurvived

\* The redelivery of an invocation that failed starts with nothing in hand.
LEMMA FailedIs ==
    ASSUME ReceivingAssumption, NEW i \in Ingestions
    PROVE  /\ Failed(i) \in Ingestions
           /\ Failed(i).pc = IF i.attempt = 3 THEN "givenUp" ELSE "waiting"
           /\ Failed(i).attempt = IF i.attempt = 3 THEN 1 ELSE i.attempt + 1
           /\ i.attempt # 3 => Failed(i).clock = RetryAfter[i.attempt]
           /\ Failed(i).releasing = FALSE
<1>1. i.attempt \in 1..3 /\ (i.attempt # 3 => i.attempt \in 1..2)
  BY DEF Ingestions, Attempts
<1>2. IdleIngestion \in Ingestions /\ IdleIngestion.attempt = 1
      /\ IdleIngestion.releasing = FALSE
  BY DEF IdleIngestion, Ingestions, Attempts
<1>3. CASE i.attempt = 3
  <2>1. PICK r : r = [IdleIngestion EXCEPT !.pc = "givenUp"]
    OBVIOUS
  <2>2. r \in Ingestions /\ r.pc = "givenUp" /\ r.attempt = 1 /\ r.releasing = FALSE
    BY <1>2, <2>1 DEF Ingestions
  <2>3. Failed(i) = r
    BY <1>3, <2>1 DEF Failed, Attempts
  <2> QED BY <1>3, <2>2, <2>3
<1>4. CASE i.attempt # 3
  <2>1. RetryAfter[i.attempt] \in Nat /\ i.attempt + 1 \in 1..3
    BY <1>1, <1>4 DEF ReceivingAssumption
  <2>2. PICK r1 : r1 = [IdleIngestion EXCEPT !.attempt = i.attempt + 1]
    OBVIOUS
  <2>3. r1 \in Ingestions /\ r1.pc = "waiting" /\ r1.attempt = i.attempt + 1
        /\ r1.releasing = FALSE
    BY <1>2, <2>1, <2>2 DEF Ingestions, Attempts, IdleIngestion
  <2>4. PICK r : r = [r1 EXCEPT !.clock = RetryAfter[i.attempt]]
    OBVIOUS
  <2>5. r \in Ingestions /\ r.pc = "waiting" /\ r.attempt = i.attempt + 1
        /\ r.releasing = FALSE /\ r.clock = RetryAfter[i.attempt]
    BY <2>1, <2>3, <2>4 DEF Ingestions
  <2>6. Failed(i) = r
    <3>1. Failed(i) = [IdleIngestion EXCEPT !.attempt = i.attempt + 1, !.clock = RetryAfter[i.attempt]]
      BY <1>4 DEF Failed, Attempts
    <3> QED BY <2>2, <2>4, <3>1 DEF IdleIngestion
  <2> QED BY <1>4, <2>5, <2>6
<1> QED BY <1>3, <1>4

\* One invocation moves on, and nothing that others rely on is taken back.
Moves(e, i) ==
    /\ ingestion' = [ingestion EXCEPT ![e] = i]
    /\ i \in Ingestions
    /\ inboundClaim' \in [left : 0..LeaseTime + 1, by : Events \cup {Nobody}]
    /\ objects \subseteq objects' /\ objects' \subseteq Parts \cup {"content"}
    /\ received' \in [stored : BOOLEAN, queuedAt : BOOLEAN]
    /\ received.stored => received'.stored
    /\ announcement' \in {"none", "queued", "published"}
    /\ announcement # "none" => announcement' # "none"
    /\ IngestionHolds(i, received'.stored, announcement', objects')
    /\ RecordHolds(received'.stored, received'.queuedAt, announcement', objects', reading')

\* ... and it stays on its way to the announcement.
StaysOn(e, i) ==
    /\ receiveFaults' = receiveFaults
    /\ Pioneer(ingestion[e]) => Pioneer(i) \/ announcement' # "none"
    /\ Delayed(i) => Delayed(ingestion[e]) \/ inboundClaim.left # 0
    /\ inboundClaim'.left = 0 \/ inboundClaim'.left <= inboundClaim.left
       \/ (Works(i) /\ (i.attempt = 1 \/ Delayed(ingestion[e])))
    /\ WillAnnounce(ingestion[e], inboundClaim.left, received.stored)
       => WillAnnounce(i, inboundClaim'.left, received'.stored) \/ announcement' # "none"

\* ... or fails, and is invoked again.
Fails(e, i) ==
    /\ receiveFaults' = receiveFaults + 1
    /\ announcement' = announcement /\ received' = received
    /\ inboundClaim'.left <= inboundClaim.left
    /\ \/ i = Failed(ingestion[e])
       \/ announcement' = "none" => Works(i)

\* What every move of one invocation keeps.
LEMMA MovesKeeps ==
    ASSUME ReceiveInv, NEW e \in Events, NEW i, Moves(e, i)
    PROVE  receiveFaults' \in Nat => ReceiveTypes' /\ IngestionsHold' /\ ReceivedHolds'
<1>1. ingestion' \in [Events -> Ingestions] /\ ingestion'[e] = i
      /\ \A f \in Events : f # e => ingestion'[f] = ingestion[f]
  BY DEF Moves, ReceiveInv, ReceiveTypes
<1>2. receiveFaults' \in Nat => ReceiveTypes'
  BY <1>1 DEF Moves, ReceiveTypes
<1>3. ReceivedHolds'
  BY DEF Moves, ReceivedHolds
<1>4. ASSUME NEW f \in Events
      PROVE  IngestionHolds(ingestion'[f], received'.stored, announcement', objects')
  <2>1. CASE f = e
    BY <1>1, <2>1 DEF Moves
  <2>2. CASE f # e
    <3>1. IngestionHolds(ingestion[f], received.stored, announcement, objects)
      BY DEF ReceiveInv, IngestionsHold
    <3> QED BY <1>1, <2>2, <3>1 DEF Moves, IngestionHolds
  <2> QED BY <2>1, <2>2
<1> QED BY <1>2, <1>3, <1>4 DEF IngestionsHold

\* A smaller lease keeps nobody from announcing.
LEMMA ShorterLeaseHelps ==
    ASSUME ReceivingAssumption, NEW i \in Ingestions, NEW n \in Nat, NEW m \in Nat, m <= n,
           NEW p \in BOOLEAN, NEW q \in BOOLEAN, p => q, WillAnnounce(i, n, p)
    PROVE  WillAnnounce(i, m, q)
<1>1. Waits(i) \in Nat /\ RetryAfter[2] \in Nat
  BY DEF Waits, Ingestions, ReceivingAssumption
<1> HIDE DEF Waits
<1> QED BY <1>1 DEF WillAnnounce, Works

\* A move without a fault: whoever was going to announce still is, or the
\* announcement is made.
LEMMA StaysOnKeeps ==
    ASSUME ReceiveInv, ReceivingAssumption, NEW e \in Events, NEW i, Moves(e, i), StaysOn(e, i)
    PROVE  ReceiveInv'
<1>1. ingestion' \in [Events -> Ingestions] /\ ingestion'[e] = i
      /\ \A f \in Events : f # e => ingestion'[f] = ingestion[f]
  BY DEF Moves, ReceiveInv, ReceiveTypes
<1>2. inboundClaim.left \in Nat /\ inboundClaim'.left \in Nat
      /\ ingestion[e] \in Ingestions /\ i \in Ingestions
  BY DEF Moves, ReceiveInv, ReceiveTypes, ReceivingAssumption
<1>3. ReceiveTypes' /\ IngestionsHold' /\ ReceivedHolds'
  <2>1. receiveFaults' \in Nat
    BY DEF StaysOn, ReceiveInv, ReceiveTypes
  <2> QED BY <2>1, MovesKeeps
<1>4. ASSUME receiveFaults' = 0, announcement' = "none",
             inboundClaim'.left # 0 \/ \E f \in Events : Delayed(ingestion'[f])
      PROVE  \E f \in Events : Pioneer(ingestion'[f])
  <2>1. receiveFaults = 0 /\ announcement = "none"
    BY <1>4 DEF StaysOn, Moves
  <2>2. CASE \E f \in Events : Pioneer(ingestion[f])
    <3>1. PICK f \in Events : Pioneer(ingestion[f])
      BY <2>2
    <3>2. Pioneer(ingestion'[f])
      BY <1>1, <1>4, <3>1 DEF StaysOn
    <3> QED BY <3>2
  <2>3. CASE ~\E f \in Events : Pioneer(ingestion[f])
    <3>1. inboundClaim.left = 0 /\ \A f \in Events : ~Delayed(ingestion[f])
      BY <2>1, <2>3 DEF ReceiveInv, PioneerGoesOn
    <3>2. \A f \in Events : ~Delayed(ingestion'[f])
      BY <1>1, <3>1 DEF StaysOn
    <3>3. inboundClaim'.left # 0
      BY <1>4, <3>2
    <3>4. Works(i) /\ i.attempt = 1
      BY <1>2, <3>1, <3>3 DEF StaysOn
    <3> QED BY <1>1, <3>4 DEF Pioneer
  <2> QED BY <2>2, <2>3
<1>5. ASSUME receiveFaults' = 1, announcement' = "none"
      PROVE  \E f \in Events : WillAnnounce(ingestion'[f], inboundClaim'.left, received'.stored)
  <2>1. receiveFaults = 1 /\ announcement = "none"
    BY <1>5 DEF StaysOn, Moves
  <2>2. PICK f \in Events : WillAnnounce(ingestion[f], inboundClaim.left, received.stored)
    BY <2>1 DEF ReceiveInv, OneFaultIsSurvived
  <2>3. CASE f = e
    BY <1>1, <1>5, <2>2, <2>3 DEF StaysOn
  <2>4. CASE f # e /\ inboundClaim'.left <= inboundClaim.left
    <3>1. ingestion'[f] = ingestion[f] /\ ingestion[f] \in Ingestions
      BY <1>1, <2>4 DEF ReceiveInv, ReceiveTypes
    <3>2. received.stored \in BOOLEAN /\ received'.stored \in BOOLEAN
          /\ (received.stored => received'.stored)
      BY DEF Moves, ReceiveInv, ReceiveTypes
    <3> QED BY <1>2, <2>2, <2>4, <3>1, <3>2, ShorterLeaseHelps
  <2>5. CASE f # e /\ ~(inboundClaim'.left <= inboundClaim.left)
    <3>1. Works(i)
      BY <1>2, <2>5 DEF StaysOn
    <3> QED BY <1>1, <3>1 DEF WillAnnounce
  <2> QED BY <2>3, <2>4, <2>5
<1> QED BY <1>3, <1>4, <1>5 DEF ReceiveInv, PioneerGoesOn, OneFaultIsSurvived

\* The one fault leaves somebody who gets through: another invocation that
\* works, or the redelivery of the one that failed.
LEMMA FailsKeeps ==
    ASSUME ReceiveInv, ReceivingAssumption, NEW e \in Events, NEW i, Moves(e, i), Fails(e, i)
    PROVE  ReceiveInv'
<1>1. ingestion' \in [Events -> Ingestions] /\ ingestion'[e] = i
      /\ \A f \in Events : f # e => ingestion'[f] = ingestion[f]
  BY DEF Moves, ReceiveInv, ReceiveTypes
<1>2. /\ inboundClaim.left \in Nat /\ inboundClaim.left <= LeaseTime + 1
      /\ inboundClaim'.left \in Nat
      /\ ingestion[e] \in Ingestions /\ i \in Ingestions
      /\ receiveFaults \in Nat /\ receiveFaults' = receiveFaults + 1
  BY DEF Moves, Fails, ReceiveInv, ReceiveTypes, ReceivingAssumption
<1>3. ReceiveTypes' /\ IngestionsHold' /\ ReceivedHolds'
  BY <1>2, MovesKeeps
<1>4. receiveFaults' # 0
  BY <1>2
<1>5. ASSUME receiveFaults' = 1, announcement' = "none"
      PROVE  \E f \in Events : WillAnnounce(ingestion'[f], inboundClaim'.left, received'.stored)
  <2>1. receiveFaults = 0 /\ announcement = "none"
    BY <1>2, <1>5 DEF Fails
  <2>2. CASE Works(i)
    BY <1>1, <2>2 DEF WillAnnounce
  <2>3. CASE \E f \in Events : f # e /\ Works(ingestion[f])
    BY <1>1, <2>3 DEF WillAnnounce
  <2>4. CASE ~Works(i) /\ ~\E f \in Events : f # e /\ Works(ingestion[f])
    <3>1. i = Failed(ingestion[e])
      BY <1>5, <2>4 DEF Fails
    <3>2. \A f \in Events : Pioneer(ingestion[f]) => f = e
      BY <2>4 DEF Pioneer
    <3>3. ingestion[e].attempt = 1
      <4>1. CASE Delayed(ingestion[e])
        <5>1. \E f \in Events : Pioneer(ingestion[f])
          BY <2>1, <4>1 DEF ReceiveInv, PioneerGoesOn
        <5> QED BY <3>2, <5>1 DEF Pioneer
      <4>2. CASE ~Delayed(ingestion[e])
        BY <1>2, <4>2 DEF Delayed, Ingestions, Attempts
      <4> QED BY <4>1, <4>2
    <3>4. i.pc = "waiting" /\ i.attempt = 2 /\ i.clock = RetryAfter[1]
      <4>1. /\ Failed(ingestion[e]).pc = IF ingestion[e].attempt = 3 THEN "givenUp" ELSE "waiting"
            /\ Failed(ingestion[e]).attempt
                = IF ingestion[e].attempt = 3 THEN 1 ELSE ingestion[e].attempt + 1
            /\ ingestion[e].attempt # 3
                => Failed(ingestion[e]).clock = RetryAfter[ingestion[e].attempt]
        BY <1>2, FailedIs
      <4> QED BY <3>1, <3>3, <4>1
    <3>5. Waits(i) = RetryAfter[1]
      BY <3>4 DEF Waits
    <3>6. inboundClaim'.left <= RetryAfter[1] + RetryAfter[2]
      BY <1>2 DEF Fails, ReceivingAssumption
    <3>7. WillAnnounce(i, inboundClaim'.left, received'.stored)
      BY <3>4, <3>5, <3>6 DEF WillAnnounce
    <3> QED BY <1>1, <3>7
  <2> QED BY <2>2, <2>3, <2>4
<1> QED BY <1>3, <1>4, <1>5 DEF ReceiveInv, PioneerGoesOn, OneFaultIsSurvived

\* Another place in the handler, the rest as it was.
LEMMA AtPlace ==
    ASSUME NEW i \in Ingestions,
           NEW x \in {"waiting", "get", "claim", "recheck", "read", "attachments", "create",
                      "ensure", "mark", "answer", "acknowledged", "givenUp"},
           NEW r, r = [i EXCEPT !.pc = x]
    PROVE  /\ r \in Ingestions /\ r.pc = x /\ r.attempt = i.attempt /\ r.clock = i.clock
           /\ r.left = i.left /\ r.releasing = i.releasing
BY DEF Ingestions

\* What an invocation finds when it takes its next step.
LEMMA IngestionIs ==
    ASSUME ReceiveInv, ReceivingAssumption, NEW e \in Events
    PROVE  /\ ingestion[e] \in Ingestions
           /\ ingestion[e].attempt \in 1..3
           /\ inboundClaim \in [left : 0..LeaseTime + 1, by : Events \cup {Nobody}]
           /\ inboundClaim.left \in Nat
           /\ received \in [stored : BOOLEAN, queuedAt : BOOLEAN]
           /\ objects \subseteq Parts \cup {"content"}
           /\ announcement \in {"none", "queued", "published"}
           /\ IngestionHolds(ingestion[e], received.stored, announcement, objects)
           /\ RecordHolds(received.stored, received.queuedAt, announcement, objects, reading)
           /\ RetryAfter[2] \in Nat
  BY DEF ReceiveInv, ReceiveTypes, ReceivingAssumption, Ingestions, Attempts, IngestionsHold,
         ReceivedHolds

\* A step that changes nothing but the invocation itself.
LEMMA StepKeeps ==
    ASSUME ReceiveInv, ReceivingAssumption, NEW e \in Events, NEW i \in Ingestions,
           ingestion' = [ingestion EXCEPT ![e] = i],
           UNCHANGED <<inboundClaim, objects, received, announcement, reading, receiveFaults>>,
           IngestionHolds(i, received.stored, announcement, objects),
           Pioneer(ingestion[e]) => Pioneer(i),
           Delayed(i) => Delayed(ingestion[e]) \/ inboundClaim.left # 0,
           WillAnnounce(ingestion[e], inboundClaim.left, received.stored)
             => WillAnnounce(i, inboundClaim.left, received.stored) \/ announcement # "none"
    PROVE  ReceiveInv'
<1>1. /\ inboundClaim' = inboundClaim /\ objects' = objects /\ received' = received
      /\ announcement' = announcement /\ reading' = reading /\ receiveFaults' = receiveFaults
  OBVIOUS
<1>2. Moves(e, i)
  BY <1>1, IngestionIs DEF Moves
<1>3. StaysOn(e, i)
  BY <1>1, IngestionIs DEF StaysOn
<1> QED BY <1>2, <1>3, StaysOnKeeps

\* Invoked and GetReceived: the wait is over, and a message that is stored is
\* only announced.
LEMMA InvokedKeeps ==
    ASSUME ReceiveInv, ReceivingAssumption, NEW e \in Events, Invoked(e) \/ GetReceived(e)
    PROVE  ReceiveInv'
<1>1. PICK i : /\ i = [ingestion[e] EXCEPT !.pc =
                        IF Invoked(e) THEN "get" ELSE IF received.stored THEN "ensure" ELSE "claim"]
  OBVIOUS
<1>2. ingestion' = [ingestion EXCEPT ![e] = i]
  BY <1>1 DEF Invoked, GetReceived, GoTo, At
<1>3. /\ i \in Ingestions /\ i.attempt = ingestion[e].attempt
      /\ i.releasing = ingestion[e].releasing /\ i.left = ingestion[e].left
      /\ i.pc = IF Invoked(e) THEN "get" ELSE IF received.stored THEN "ensure" ELSE "claim"
  <2>1. CASE Invoked(e)
    BY <1>1, <2>1, IngestionIs, AtPlace
  <2>2. CASE ~Invoked(e) /\ received.stored
    <3>1. i = [ingestion[e] EXCEPT !.pc = "ensure"]
      BY <1>1, <2>2
    <3>2. ingestion[e] \in Ingestions
      BY IngestionIs
    <3>3. i \in Ingestions /\ i.attempt = ingestion[e].attempt /\ i.pc = "ensure"
          /\ i.releasing = ingestion[e].releasing /\ i.left = ingestion[e].left
      BY <3>1, <3>2, AtPlace
    <3> QED BY <2>2, <3>3
  <2>3. CASE ~Invoked(e) /\ ~received.stored
    BY <1>1, <2>3, IngestionIs, AtPlace
  <2> QED BY <2>1, <2>2, <2>3
<1>4. /\ ingestion[e].pc \in {"waiting", "get"}
      /\ ingestion[e].pc = "waiting" => ingestion[e].clock = 0 /\ i.pc = "get"
      /\ ingestion[e].pc = "get" => i.pc = IF received.stored THEN "ensure" ELSE "claim"
  BY <1>3 DEF Invoked, GetReceived, At
<1>5. Waits(ingestion[e]) = 0 /\ Waits(i) = 0
  BY <1>3, <1>4 DEF Waits
<1>6. IngestionHolds(i, received.stored, announcement, objects)
  BY <1>3, <1>4, IngestionIs DEF IngestionHolds
<1>7. Delayed(i) => Delayed(ingestion[e])
  BY <1>3, <1>4 DEF Delayed
<1>8. WillAnnounce(ingestion[e], inboundClaim.left, received.stored)
      => WillAnnounce(i, inboundClaim.left, received.stored)
  BY <1>3, <1>4, <1>5, IngestionIs DEF WillAnnounce, Works
<1>9. ~Pioneer(ingestion[e])
  BY <1>4 DEF Pioneer, Works
<1>10. UNCHANGED <<inboundClaim, objects, received, announcement, reading, receiveFaults>>
  BY DEF Invoked, GetReceived
<1> QED BY <1>2, <1>3, <1>6, <1>7, <1>8, <1>9, <1>10, StepKeeps

\* claimReceivedEmail: who takes the lease announces; who is refused met it.
LEMMA ClaimReceivedKeeps ==
    ASSUME ReceiveInv, ReceivingAssumption, NEW e \in Events, claimReceivedEmail(e)
    PROVE  ReceiveInv'
<1>1. ingestion[e].pc = "claim"
  BY DEF claimReceivedEmail, At
<1>2. CASE inboundClaim.left = 0
  <2>1. PICK i : i = [ingestion[e] EXCEPT !.pc = "read"]
    OBVIOUS
  <2>2. ingestion' = [ingestion EXCEPT ![e] = i]
    BY <1>2, <2>1 DEF claimReceivedEmail, GoTo
  <2>3. i \in Ingestions /\ i.attempt = ingestion[e].attempt /\ i.pc = "read"
        /\ i.releasing = ingestion[e].releasing
    BY <2>1, IngestionIs, AtPlace
  <2>4. inboundClaim' = [left |-> LeaseTime + 1, by |-> e]
        /\ objects' = objects /\ received' = received /\ announcement' = announcement
        /\ reading' = reading /\ receiveFaults' = receiveFaults
    BY <1>2 DEF claimReceivedEmail, LeaseLength
  <2>5. inboundClaim' \in [left : 0..LeaseTime + 1, by : Events \cup {Nobody}]
    BY <2>4 DEF ReceivingAssumption
  <2>6. IngestionHolds(i, received.stored, announcement, objects)
    BY <1>1, <2>3, IngestionIs DEF IngestionHolds
  <2>7. Moves(e, i)
    BY <2>2, <2>3, <2>4, <2>5, <2>6, IngestionIs DEF Moves
  <2>8. Works(i) /\ (i.attempt = 1 \/ Delayed(ingestion[e]))
    BY <2>3, IngestionIs DEF Works, Delayed
  <2>9. StaysOn(e, i)
    <3>1. Delayed(i) => Delayed(ingestion[e])
      BY <1>1, <2>3 DEF Delayed
    <3>2. ~Pioneer(ingestion[e])
      BY <1>1 DEF Pioneer, Works
    <3>3. WillAnnounce(i, inboundClaim'.left, received'.stored)
      BY <2>8 DEF WillAnnounce
    <3> QED BY <2>4, <2>8, <3>1, <3>2, <3>3 DEF StaysOn
  <2> QED BY <2>7, <2>9, StaysOnKeeps
<1>3. CASE inboundClaim.left # 0
  <2>1. PICK i : i = [ingestion[e] EXCEPT !.pc = "recheck"]
    OBVIOUS
  <2>2. ingestion' = [ingestion EXCEPT ![e] = i]
    BY <1>3, <2>1 DEF claimReceivedEmail, GoTo
  <2>3. i \in Ingestions /\ i.attempt = ingestion[e].attempt /\ i.pc = "recheck"
        /\ i.releasing = ingestion[e].releasing
    BY <2>1, IngestionIs, AtPlace
  <2>4. IngestionHolds(i, received.stored, announcement, objects)
    BY <1>1, <2>3, IngestionIs DEF IngestionHolds
  <2>5. ~Pioneer(ingestion[e]) /\ Waits(ingestion[e]) = 0 /\ Waits(i) = 0
    BY <1>1, <2>3 DEF Pioneer, Works, Waits
  <2>6. WillAnnounce(ingestion[e], inboundClaim.left, received.stored)
        => WillAnnounce(i, inboundClaim.left, received.stored)
    BY <1>1, <1>3, <2>3, <2>5, IngestionIs DEF WillAnnounce, Works
  <2>7. UNCHANGED <<inboundClaim, objects, received, announcement, reading, receiveFaults>>
    BY <1>3 DEF claimReceivedEmail
  <2> QED BY <1>3, <2>2, <2>3, <2>4, <2>5, <2>6, <2>7, StepKeeps
<1> QED BY <1>2, <1>3

\* Recheck: refused at a second attempt, the third comes after the lease.
LEMMA RecheckKeeps ==
    ASSUME ReceiveInv, ReceivingAssumption, NEW e \in Events, Recheck(e)
    PROVE  ReceiveInv'
<1>1. ingestion[e].pc = "recheck"
  BY DEF Recheck, At
<1>2. UNCHANGED <<inboundClaim, objects, received, announcement, reading, receiveFaults>>
  BY DEF Recheck
<1>3. CASE received.stored
  <2>1. PICK i : i = [ingestion[e] EXCEPT !.pc = "ensure"]
    OBVIOUS
  <2>2. ingestion' = [ingestion EXCEPT ![e] = i]
    BY <1>3, <2>1 DEF Recheck, GoTo
  <2>3. i \in Ingestions /\ i.attempt = ingestion[e].attempt /\ i.pc = "ensure"
        /\ i.releasing = ingestion[e].releasing
    BY <2>1, IngestionIs, AtPlace
  <2>4. IngestionHolds(i, received.stored, announcement, objects)
    BY <1>3, <2>3 DEF IngestionHolds
  <2>5. ~Pioneer(ingestion[e]) /\ Delayed(ingestion[e])
        /\ WillAnnounce(i, inboundClaim.left, received.stored)
    BY <1>1, <2>3 DEF Pioneer, Works, Delayed, WillAnnounce
  <2> QED BY <1>2, <2>2, <2>3, <2>4, <2>5, StepKeeps
<1>4. CASE ~received.stored
  <2>1. PICK i : i = Failed(ingestion[e])
    OBVIOUS
  <2>2. ingestion' = [ingestion EXCEPT ![e] = i]
    BY <1>4, <2>1 DEF Recheck
  <2>3. /\ i \in Ingestions
        /\ i.pc = IF ingestion[e].attempt = 3 THEN "givenUp" ELSE "waiting"
        /\ i.attempt = IF ingestion[e].attempt = 3 THEN 1 ELSE ingestion[e].attempt + 1
        /\ ingestion[e].attempt # 3 => i.clock = RetryAfter[ingestion[e].attempt]
        /\ i.releasing = FALSE
    <3>1. ingestion[e] \in Ingestions
      BY IngestionIs
    <3> QED BY <2>1, <3>1, FailedIs
  <2>4. IngestionHolds(i, received.stored, announcement, objects)
    BY <2>3 DEF IngestionHolds
  <2>5. ~Pioneer(ingestion[e]) /\ Delayed(ingestion[e]) /\ Waits(ingestion[e]) = 0
    BY <1>1 DEF Pioneer, Works, Delayed, Waits
  <2>6. WillAnnounce(ingestion[e], inboundClaim.left, received.stored)
        => WillAnnounce(i, inboundClaim.left, received.stored)
    <3>1. SUFFICES ASSUME WillAnnounce(ingestion[e], inboundClaim.left, received.stored)
                   PROVE  WillAnnounce(i, inboundClaim.left, received.stored)
      OBVIOUS
    <3>2. ingestion[e].attempt = 2 /\ inboundClaim.left <= RetryAfter[2]
      BY <1>1, <1>4, <2>5, <3>1, IngestionIs DEF WillAnnounce, Works
    <3>3. i.pc = "waiting" /\ i.attempt = 3 /\ i.clock = RetryAfter[2]
      BY <2>3, <3>2
    <3> QED BY <3>2, <3>3 DEF WillAnnounce, Waits
  <2> QED BY <1>2, <2>2, <2>3, <2>4, <2>5, <2>6, StepKeeps
<1> QED BY <1>3, <1>4

\* readRaw: from here on all the parts are to be written.
LEMMA ReadRawKeeps ==
    ASSUME ReceiveInv, ReceivingAssumption, NEW e \in Events, ReadRaw(e)
    PROVE  ReceiveInv'
<1>1. ingestion[e].pc = "read"
  BY DEF ReadRaw, At
<1>2. PICK r : r = [ingestion[e] EXCEPT !.pc = "attachments"]
  OBVIOUS
<1>3. r \in Ingestions /\ r.attempt = ingestion[e].attempt /\ r.pc = "attachments"
      /\ r.releasing = ingestion[e].releasing
  BY <1>2, IngestionIs, AtPlace
<1>4. PICK i : i = [r EXCEPT !.left = Parts]
  OBVIOUS
<1>5. i \in Ingestions /\ i.attempt = r.attempt /\ i.pc = r.pc /\ i.releasing = r.releasing
      /\ i.left = Parts
  BY <1>3, <1>4 DEF Ingestions
<1>6. ingestion' = [ingestion EXCEPT ![e] = i]
  BY <1>2, <1>4 DEF ReadRaw
<1>7. IngestionHolds(i, received.stored, announcement, objects)
  BY <1>1, <1>3, <1>5, IngestionIs DEF IngestionHolds
<1>8. /\ Pioneer(ingestion[e]) => Pioneer(i)
      /\ Delayed(i) => Delayed(ingestion[e])
      /\ WillAnnounce(i, inboundClaim.left, received.stored)
  BY <1>1, <1>3, <1>5 DEF Pioneer, Works, Delayed, WillAnnounce
<1>9. UNCHANGED <<inboundClaim, objects, received, announcement, reading, receiveFaults>>
  BY DEF ReadRaw
<1> QED BY <1>5, <1>6, <1>7, <1>8, <1>9, StepKeeps

\* WriteAttachment and WriteContent: at the record's turn all objects exist.
LEMMA WriteKeeps ==
    ASSUME ReceiveInv, ReceivingAssumption, NEW e \in Events,
           WriteContent(e) \/ \E a \in Parts : WriteAttachment(e, a)
    PROVE  ReceiveInv'
<1>1. ingestion[e].pc = "attachments" /\ Parts \ ingestion[e].left \subseteq objects
  BY IngestionIs DEF WriteContent, WriteAttachment, At, IngestionHolds
<1>2. /\ inboundClaim' = inboundClaim /\ received' = received /\ announcement' = announcement
      /\ reading' = reading /\ receiveFaults' = receiveFaults
  BY DEF WriteContent, WriteAttachment
<1> DEFINE Wrote(i) ==
        /\ ingestion' = [ingestion EXCEPT ![e] = i]
        /\ i.attempt = ingestion[e].attempt /\ i.pc \in {"attachments", "create"}
        /\ i.releasing = ingestion[e].releasing
        /\ i.pc = "attachments" => Parts \ i.left \subseteq objects'
        /\ i.pc = "create" => {"content"} \cup Parts \subseteq objects'
        /\ objects \subseteq objects' /\ objects' \subseteq Parts \cup {"content"}
<1>3. \E i \in Ingestions : Wrote(i)
  <2>1. CASE WriteContent(e)
    <3>1. PICK i : i = [ingestion[e] EXCEPT !.pc = "create"]
      OBVIOUS
    <3>2. i \in Ingestions /\ i.pc = "create" /\ i.attempt = ingestion[e].attempt
          /\ i.releasing = ingestion[e].releasing
      BY <3>1, IngestionIs, AtPlace
    <3>3. ingestion[e].left = {} /\ objects' = objects \cup {"content"}
          /\ ingestion' = [ingestion EXCEPT ![e] = i]
      BY <2>1, <3>1 DEF WriteContent, GoTo
    <3>4. objects \subseteq Parts \cup {"content"}
      BY IngestionIs
    <3> QED BY <1>1, <3>2, <3>3, <3>4
  <2>2. ASSUME NEW a \in Parts, WriteAttachment(e, a)
        PROVE  \E i \in Ingestions : Wrote(i)
    <3>1. PICK i : i = [ingestion[e] EXCEPT !.left = ingestion[e].left \ {a}]
      OBVIOUS
    <3>2. i \in Ingestions /\ i.pc = ingestion[e].pc /\ i.attempt = ingestion[e].attempt
          /\ i.releasing = ingestion[e].releasing /\ i.left = ingestion[e].left \ {a}
      <4>1. ingestion[e] \in Ingestions
        BY IngestionIs
      <4> QED BY <3>1, <4>1 DEF Ingestions
    <3>3. objects' = objects \cup {a} /\ ingestion' = [ingestion EXCEPT ![e] = i]
      BY <2>2, <3>1 DEF WriteAttachment
    <3>4. objects \subseteq Parts \cup {"content"}
      BY IngestionIs
    <3>5. Parts \ i.left \subseteq objects'
      BY <1>1, <3>2, <3>3
    <3> QED BY <1>1, <3>2, <3>3, <3>4, <3>5
  <2> QED BY <2>1, <2>2
<1>4. PICK i \in Ingestions : Wrote(i)
  BY <1>3
<1>5. Moves(e, i)
  <2>1. IngestionHolds(i, received.stored, announcement, objects')
    BY <1>1, <1>4, IngestionIs DEF IngestionHolds
  <2>2. RecordHolds(received.stored, received.queuedAt, announcement, objects', reading)
    BY <1>4, IngestionIs DEF RecordHolds
  <2> QED BY <1>2, <1>4, <2>1, <2>2, IngestionIs DEF Moves
<1>6. StaysOn(e, i)
  BY <1>1, <1>2, <1>4, IngestionIs DEF StaysOn, Pioneer, Works, Delayed, WillAnnounce
<1> QED BY <1>5, <1>6, StaysOnKeeps

\* createReceivedEmail: the record is written over objects that all exist.
LEMMA CreateReceivedKeeps ==
    ASSUME ReceiveInv, ReceivingAssumption, NEW e \in Events, createReceivedEmail(e)
    PROVE  ReceiveInv'
<1>1. ingestion[e].pc = "create" /\ {"content"} \cup Parts \subseteq objects
  BY IngestionIs DEF createReceivedEmail, At, IngestionHolds
<1>2. PICK r : r = [ingestion[e] EXCEPT !.pc = "ensure"]
  OBVIOUS
<1>3. r \in Ingestions /\ r.attempt = ingestion[e].attempt /\ r.pc = "ensure"
  BY <1>2, IngestionIs, AtPlace
<1>4. PICK i : i = [r EXCEPT !.releasing = TRUE]
  OBVIOUS
<1>5. i \in Ingestions /\ i.attempt = r.attempt /\ i.pc = r.pc
  BY <1>3, <1>4 DEF Ingestions
<1>6. ingestion' = [ingestion EXCEPT ![e] = i]
  BY <1>2, <1>4 DEF createReceivedEmail
<1>7. received'.stored = TRUE /\ received'.queuedAt = received.queuedAt
      /\ received' \in [stored : BOOLEAN, queuedAt : BOOLEAN]
  BY IngestionIs DEF createReceivedEmail
<1>8. inboundClaim' = inboundClaim /\ objects' = objects /\ announcement' = announcement
      /\ reading' = reading /\ receiveFaults' = receiveFaults
  BY DEF createReceivedEmail
<1>9. IngestionHolds(i, received'.stored, announcement, objects)
  BY <1>3, <1>5, <1>7 DEF IngestionHolds
<1>10. RecordHolds(received'.stored, received'.queuedAt, announcement, objects, reading)
  BY <1>1, <1>7, IngestionIs DEF RecordHolds
<1>11. Moves(e, i)
  BY <1>5, <1>6, <1>7, <1>8, <1>9, <1>10, IngestionIs DEF Moves
<1>12. StaysOn(e, i)
  BY <1>1, <1>3, <1>5, <1>8, IngestionIs DEF StaysOn, Pioneer, Works, Delayed, WillAnnounce
<1> QED BY <1>11, <1>12, StaysOnKeeps

\* ensureWebhookQueued and the answer: the job is queued before its mark.
LEMMA AnnouncementKeeps ==
    ASSUME ReceiveInv, ReceivingAssumption, NEW e \in Events,
           EnqueueAnnouncement(e) \/ MarkQueued(e) \/ Acknowledge(e)
    PROVE  ReceiveInv'
<1>1. ingestion[e].pc \in {"ensure", "mark", "answer"} /\ received.stored
  <2>1. ingestion[e].pc \in {"ensure", "mark", "answer"}
    BY DEF EnqueueAnnouncement, MarkQueued, Acknowledge, At
  <2>2. IngestionHolds(ingestion[e], received.stored, announcement, objects)
    BY IngestionIs
  <2> QED BY <2>1, <2>2 DEF IngestionHolds
<1>2. inboundClaim' = inboundClaim /\ objects' = objects /\ reading' = reading
      /\ receiveFaults' = receiveFaults
  BY DEF EnqueueAnnouncement, MarkQueued, Acknowledge
<1>3. announcement' \in {"none", "queued", "published"} /\ announcement' # "none"
  BY IngestionIs DEF EnqueueAnnouncement, MarkQueued, Acknowledge, At, IngestionHolds, RecordHolds
<1>4. received' \in [stored : BOOLEAN, queuedAt : BOOLEAN] /\ received'.stored
  BY <1>1, IngestionIs DEF EnqueueAnnouncement, MarkQueued, Acknowledge
<1> DEFINE Announced(i) ==
        /\ ingestion' = [ingestion EXCEPT ![e] = i]
        /\ \/ /\ i.pc \in {"mark", "answer"} /\ i.releasing = ingestion[e].releasing
              /\ i.attempt = ingestion[e].attempt
           \/ i.pc = "acknowledged" /\ i.attempt = 1 /\ i.releasing = FALSE
<1>5. \E i \in Ingestions : Announced(i)
  <2>1. CASE EnqueueAnnouncement(e) \/ MarkQueued(e)
    <3>1. PICK x \in {"mark", "answer"} : GoTo(e, x)
      BY <2>1 DEF EnqueueAnnouncement, MarkQueued
    <3>2. PICK i : i = [ingestion[e] EXCEPT !.pc = x]
      OBVIOUS
    <3>3. i \in Ingestions /\ i.pc = x /\ i.releasing = ingestion[e].releasing
          /\ i.attempt = ingestion[e].attempt
      BY <3>1, <3>2, IngestionIs, AtPlace
    <3> QED BY <3>1, <3>2, <3>3 DEF GoTo
  <2>2. CASE Acknowledge(e)
    <3>1. PICK i : i = [IdleIngestion EXCEPT !.pc = "acknowledged"]
      OBVIOUS
    <3>2. IdleIngestion \in Ingestions /\ IdleIngestion.releasing = FALSE
          /\ IdleIngestion.attempt = 1
      BY DEF IdleIngestion, Ingestions, Attempts
    <3>3. i \in Ingestions /\ i.pc = "acknowledged" /\ i.releasing = FALSE /\ i.attempt = 1
      BY <3>1, <3>2, AtPlace
    <3> QED BY <2>2, <3>1, <3>3 DEF Acknowledge
  <2> QED BY <2>1, <2>2
<1>6. PICK i \in Ingestions : Announced(i)
  BY <1>5
<1>7. Moves(e, i)
  <2>1. IngestionHolds(i, received'.stored, announcement', objects)
    BY <1>3, <1>4, <1>6 DEF IngestionHolds
  <2>2. RecordHolds(received'.stored, received'.queuedAt, announcement', objects, reading)
    BY <1>1, <1>3, IngestionIs DEF RecordHolds
  <2> QED BY <1>2, <1>3, <1>4, <1>6, <2>1, <2>2, IngestionIs DEF Moves
<1>8. StaysOn(e, i)
  <2>1. Delayed(i) => Delayed(ingestion[e])
    BY <1>6 DEF Delayed
  <2> QED BY <1>2, <1>3, <2>1, IngestionIs DEF StaysOn
<1> QED BY <1>7, <1>8, StaysOnKeeps

\* Giving back, or losing, the lease makes it no longer.
LEMMA LeaseShrinks ==
    ASSUME ReceiveInv, ReceivingAssumption, NEW e \in Events
    PROVE  \A n \in {Released(e), Abandoned(e)} :
             n \in [left : 0..LeaseTime + 1, by : Events \cup {Nobody}]
             /\ n.left <= inboundClaim.left
<1>1. inboundClaim \in [left : 0..LeaseTime + 1, by : Events \cup {Nobody}]
      /\ inboundClaim.left \in Nat
  BY IngestionIs
<1>2. LeaseTime \in Nat
  BY DEF ReceivingAssumption
<1>3. Released(e) \in [left : 0..LeaseTime + 1, by : Events \cup {Nobody}]
      /\ Released(e).left <= inboundClaim.left
  BY <1>1, <1>2 DEF Released, NoLease
<1>4. Abandoned(e) \in [left : 0..LeaseTime + 1, by : Events \cup {Nobody}]
      /\ Abandoned(e).left <= inboundClaim.left
  BY <1>1, <1>2 DEF Abandoned
<1> QED BY <1>3, <1>4

\* releaseReceivedEmailClaim: a release that fails is the one fault, and its
\* invocation has the record already.
LEMMA ReleaseReceivedKeeps ==
    ASSUME ReceiveInv, ReceivingAssumption, NEW e \in Events, NEW done \in BOOLEAN,
           ReleaseClaim(e, done)
    PROVE  ReceiveInv'
<1>1. ingestion[e].releasing /\ ingestion[e].pc \in {"ensure", "mark", "answer"}
  BY IngestionIs DEF ReleaseClaim, IngestionHolds
<1>2. PICK i : i = [ingestion[e] EXCEPT !.releasing = FALSE]
  OBVIOUS
<1>3. i \in Ingestions /\ i.pc = ingestion[e].pc /\ i.attempt = ingestion[e].attempt
      /\ i.clock = ingestion[e].clock /\ i.left = ingestion[e].left /\ i.releasing = FALSE
  <2>1. ingestion[e] \in Ingestions
    BY IngestionIs
  <2> QED BY <1>2, <2>1 DEF Ingestions
<1>4. ingestion' = [ingestion EXCEPT ![e] = i]
  BY <1>2 DEF ReleaseClaim
<1>5. objects' = objects /\ received' = received /\ announcement' = announcement
      /\ reading' = reading
  BY DEF ReleaseClaim
<1>6. inboundClaim' \in [left : 0..LeaseTime + 1, by : Events \cup {Nobody}]
      /\ inboundClaim'.left <= inboundClaim.left
  BY LeaseShrinks DEF ReleaseClaim
<1>7. IngestionHolds(i, received.stored, announcement, objects)
  BY <1>3, IngestionIs DEF IngestionHolds
<1>8. Moves(e, i)
  BY <1>3, <1>4, <1>5, <1>6, <1>7, IngestionIs DEF Moves
<1>9. announcement = "none" => Works(i) /\ i.attempt = ingestion[e].attempt
  BY <1>1, <1>3, IngestionIs DEF Works, IngestionHolds
<1>10. CASE done
  <2>1. Delayed(i) => Delayed(ingestion[e])
    BY <1>3 DEF Delayed
  <2>2. receiveFaults' = receiveFaults
    BY <1>10 DEF ReleaseClaim
  <2>3. StaysOn(e, i)
    BY <1>5, <1>6, <1>9, <2>1, <2>2, IngestionIs DEF StaysOn, Pioneer, WillAnnounce
  <2> QED BY <1>8, <2>3, StaysOnKeeps
<1>11. CASE ~done
  <2>1. receiveFaults' = receiveFaults + 1
    BY <1>11 DEF ReleaseClaim
  <2>2. Fails(e, i)
    BY <1>5, <1>6, <1>9, <2>1 DEF Fails
  <2> QED BY <1>8, <2>2, FailsKeeps
<1> QED BY <1>10, <1>11

\* CallThrows and FunctionLost: the one fault, after which another invocation
\* works or the redelivery outlasts the lease.
LEMMA FaultKeeps ==
    ASSUME ReceiveInv, ReceivingAssumption, NEW e \in Events, CallThrows(e) \/ FunctionLost(e)
    PROVE  ReceiveInv'
<1>1. PICK i : i = Failed(ingestion[e])
  OBVIOUS
<1>2. ingestion' = [ingestion EXCEPT ![e] = i]
  BY <1>1 DEF CallThrows, FunctionLost
<1>3. /\ i \in Ingestions
      /\ i.pc = IF ingestion[e].attempt = 3 THEN "givenUp" ELSE "waiting"
      /\ i.releasing = FALSE
  <2>1. ingestion[e] \in Ingestions
    BY IngestionIs
  <2> QED BY <1>1, <2>1, FailedIs
<1>4. objects' = objects /\ received' = received /\ announcement' = announcement
      /\ reading' = reading /\ receiveFaults' = receiveFaults + 1
  BY DEF CallThrows, FunctionLost
<1>5. inboundClaim' \in [left : 0..LeaseTime + 1, by : Events \cup {Nobody}]
      /\ inboundClaim'.left <= inboundClaim.left
  BY LeaseShrinks DEF CallThrows, FunctionLost
<1>6. IngestionHolds(i, received.stored, announcement, objects)
  BY <1>3 DEF IngestionHolds
<1>7. Moves(e, i)
  BY <1>2, <1>3, <1>4, <1>5, <1>6, IngestionIs DEF Moves
<1>8. Fails(e, i)
  BY <1>1, <1>4, <1>5 DEF Fails
<1> QED BY <1>7, <1>8, FailsKeeps

\* A second makes the lease and every wait one shorter, so that a redelivery
\* that comes after the lease still does.
LEMMA SecondKeeps ==
    ASSUME ReceiveInv, ReceivingAssumption, SecondPasses
    PROVE  ReceiveInv'
<1>1. /\ objects' = objects /\ received' = received /\ announcement' = announcement
      /\ reading' = reading /\ receiveFaults' = receiveFaults
  BY DEF SecondPasses
<1>2. /\ inboundClaim' \in [left : 0..LeaseTime + 1, by : Events \cup {Nobody}]
      /\ inboundClaim.left \in Nat
      /\ inboundClaim'.left = IF inboundClaim.left <= 1 THEN 0 ELSE inboundClaim.left - 1
  <2>1. inboundClaim \in [left : 0..LeaseTime + 1, by : Events \cup {Nobody}] /\ LeaseTime \in Nat
    BY DEF ReceiveInv, ReceiveTypes, ReceivingAssumption
  <2>2. CASE inboundClaim.left <= 1
    BY <2>1, <2>2 DEF SecondPasses, NoLease
  <2>3. CASE ~(inboundClaim.left <= 1)
    <3>1. inboundClaim' = [inboundClaim EXCEPT !.left = inboundClaim.left - 1]
      BY <2>3 DEF SecondPasses
    <3>2. inboundClaim.left - 1 \in 0..LeaseTime + 1
      BY <2>1, <2>3
    <3> QED BY <2>1, <2>3, <3>1, <3>2
  <2> QED BY <2>2, <2>3
<1>3. ASSUME NEW e \in Events
      PROVE  /\ ingestion[e] \in Ingestions /\ ingestion'[e] \in Ingestions
             /\ ingestion'[e].pc = ingestion[e].pc /\ ingestion'[e].attempt = ingestion[e].attempt
             /\ ingestion'[e].left = ingestion[e].left
             /\ ingestion'[e].releasing = ingestion[e].releasing
             /\ ~Running(e) => ingestion'[e].clock = IF ingestion[e].clock = 0 THEN 0
                                                     ELSE ingestion[e].clock - 1
  <2>1. ingestion[e] \in Ingestions /\ ingestion[e].clock \in Nat
    BY DEF ReceiveInv, ReceiveTypes, Ingestions
  <2>2. ingestion'[e] =
          IF Running(e) THEN [ingestion[e] EXCEPT !.clock = ingestion[e].clock + 1]
          ELSE [ingestion[e] EXCEPT !.clock = IF ingestion[e].clock = 0 THEN 0
                                              ELSE ingestion[e].clock - 1]
    BY DEF SecondPasses
  <2>3. PICK n \in Nat : /\ ingestion'[e] = [ingestion[e] EXCEPT !.clock = n]
                         /\ ~Running(e) => n = IF ingestion[e].clock = 0 THEN 0
                                               ELSE ingestion[e].clock - 1
    <3>1. CASE Running(e)
      <4>1. ingestion[e].clock + 1 \in Nat
        BY <2>1
      <4> QED BY <2>2, <3>1, <4>1
    <3>2. CASE ~Running(e)
      <4>1. PICK n : n = IF ingestion[e].clock = 0 THEN 0 ELSE ingestion[e].clock - 1
        OBVIOUS
      <4>2. n \in Nat
        BY <2>1, <4>1
      <4> QED BY <2>2, <3>2, <4>1, <4>2
    <3> QED BY <3>1, <3>2
  <2> QED BY <2>1, <2>3 DEF Ingestions
<1>4. ReceiveTypes'
  <2>1. ingestion' \in [Events -> Ingestions]
    <3>1. ingestion' = [e \in Events |-> ingestion'[e]]
      BY DEF SecondPasses
    <3> QED BY <1>3, <3>1
  <2> QED BY <1>1, <1>2, <2>1 DEF ReceiveTypes, ReceiveInv
<1>5. IngestionsHold' /\ ReceivedHolds'
  <2>1. ASSUME NEW e \in Events
        PROVE  IngestionHolds(ingestion'[e], received.stored, announcement, objects)
    <3>1. IngestionHolds(ingestion[e], received.stored, announcement, objects)
      BY DEF ReceiveInv, IngestionsHold
    <3> QED BY <1>3, <3>1 DEF IngestionHolds
  <2> QED BY <1>1, <2>1 DEF ReceiveInv, IngestionsHold, ReceivedHolds
<1>6. \A e \in Events : /\ Pioneer(ingestion'[e]) <=> Pioneer(ingestion[e])
                        /\ Delayed(ingestion'[e]) <=> Delayed(ingestion[e])
  BY <1>3 DEF Pioneer, Works, Delayed
<1>7. PioneerGoesOn'
  BY <1>1, <1>2, <1>6 DEF ReceiveInv, PioneerGoesOn
<1>8. ASSUME NEW e \in Events,
             WillAnnounce(ingestion[e], inboundClaim.left, received.stored)
      PROVE  WillAnnounce(ingestion'[e], inboundClaim'.left, received.stored)
  <2>1. RetryAfter[2] \in Nat
    BY DEF ReceivingAssumption
  <2>2. /\ Waits(ingestion[e]) \in Nat /\ Waits(ingestion'[e]) \in Nat
        /\ Waits(ingestion'[e]) = IF Waits(ingestion[e]) = 0 THEN 0
                                  ELSE Waits(ingestion[e]) - 1
    <3>1. CASE ingestion[e].pc = "waiting"
      <4>1. ~Running(e) /\ ingestion[e].clock \in Nat /\ ingestion'[e].clock \in Nat
        BY <1>3, <3>1 DEF Running, Ingestions
      <4> QED BY <1>3, <3>1, <4>1 DEF Waits
    <3>2. CASE ingestion[e].pc # "waiting"
      BY <1>3, <3>2 DEF Waits
    <3> QED BY <3>1, <3>2
  <2> HIDE DEF Waits
  <2> QED BY <1>2, <1>3, <1>8, <2>1, <2>2 DEF WillAnnounce, Works
<1>9. OneFaultIsSurvived'
  BY <1>1, <1>8 DEF ReceiveInv, OneFaultIsSurvived
<1> QED BY <1>4, <1>5, <1>7, <1>9 DEF ReceiveInv

\* The announcement is made, or the record is read: nobody's way changes.
LEMMA ReadReceivedKeeps ==
    ASSUME ReceiveInv, ReceivingAssumption,
           PublishReceived \/ \E referenced \in SUBSET Parts : GetEmail(referenced)
    PROVE  ReceiveInv'
<1>1. inboundClaim' = inboundClaim /\ objects' = objects /\ received' = received
      /\ ingestion' = ingestion /\ receiveFaults' = receiveFaults
  BY DEF PublishReceived, GetEmail
<1>2. announcement' = announcement
      \/ (announcement # "none" /\ announcement' = "published")
  <2>1. CASE PublishReceived
    <3>1. announcement = "queued" /\ announcement' = "published"
      BY <2>1 DEF PublishReceived
    <3> QED BY <3>1
  <2>2. ASSUME NEW referenced \in SUBSET Parts, GetEmail(referenced)
        PROVE  announcement' = announcement
    BY <2>2 DEF GetEmail
  <2> QED BY <2>1, <2>2
<1>3. reading' # "error"
  <2>1. CASE PublishReceived
    BY <2>1 DEF PublishReceived, ReceiveInv, ReceivedHolds, RecordHolds
  <2>2. ASSUME NEW referenced \in SUBSET Parts, GetEmail(referenced) PROVE reading' # "error"
    BY <2>2 DEF GetEmail, ReceiveInv, ReceivedHolds, RecordHolds
  <2> QED BY <2>1, <2>2
<1>4. ReceiveTypes'
  BY <1>1, <1>2 DEF ReceiveInv, ReceiveTypes
<1>5. IngestionsHold' /\ ReceivedHolds'
  BY <1>1, <1>2, <1>3
     DEF ReceiveInv, IngestionsHold, IngestionHolds, ReceivedHolds, RecordHolds
<1>6. PioneerGoesOn' /\ OneFaultIsSurvived'
  BY <1>1, <1>2 DEF ReceiveInv, PioneerGoesOn, OneFaultIsSurvived
<1> QED BY <1>4, <1>5, <1>6 DEF ReceiveInv

\* At most one fault at a message leaves somebody who announces it, because
\* the waits before a second and a third attempt outlast the lease.
THEOREM ReceiveInvariant == RcSpec => []ReceiveInv
<1>1. RcInit => ReceiveInv
  <2> SUFFICES ASSUME RcInit PROVE ReceiveInv
    OBVIOUS
  <2>1. IdleIngestion \in Ingestions /\ IdleIngestion.pc = "waiting"
        /\ IdleIngestion.attempt = 1 /\ IdleIngestion.releasing = FALSE
    BY DEF IdleIngestion, Ingestions, Attempts
  <2>2. \A e \in Events : ingestion[e] = IdleIngestion
    BY DEF RcInit
  <2>3. inboundClaim \in [left : 0..LeaseTime + 1, by : Events \cup {Nobody}]
        /\ inboundClaim.left = 0
    BY ReceivingAssumption DEF RcInit, NoLease, ReceivingAssumption
  <2>4. ReceiveTypes
    BY <2>1, <2>3 DEF RcInit, ReceiveTypes, NoReceived
  <2>5. IngestionsHold
    BY <2>1, <2>2 DEF IngestionsHold, IngestionHolds
  <2>6. ReceivedHolds
    BY DEF RcInit, ReceivedHolds, RecordHolds, NoReceived
  <2>7. PioneerGoesOn /\ OneFaultIsSurvived
    BY <2>1, <2>2, <2>3 DEF RcInit, PioneerGoesOn, OneFaultIsSurvived, Delayed
  <2> QED BY <2>4, <2>5, <2>6, <2>7 DEF ReceiveInv
<1>2. ReceiveInv /\ [RcNext]_rcVars => ReceiveInv'
  <2> SUFFICES ASSUME ReceiveInv, [RcNext]_rcVars PROVE ReceiveInv'
    OBVIOUS
  <2>1. ASSUME NEW e \in Events, Invoked(e) \/ GetReceived(e) PROVE ReceiveInv'
    BY <2>1, InvokedKeeps, ReceivingAssumption
  <2>2. ASSUME NEW e \in Events, claimReceivedEmail(e) PROVE ReceiveInv'
    BY <2>2, ClaimReceivedKeeps, ReceivingAssumption
  <2>3. ASSUME NEW e \in Events, Recheck(e) PROVE ReceiveInv'
    BY <2>3, RecheckKeeps, ReceivingAssumption
  <2>4. ASSUME NEW e \in Events, ReadRaw(e) PROVE ReceiveInv'
    BY <2>4, ReadRawKeeps, ReceivingAssumption
  <2>5. ASSUME NEW e \in Events,
               WriteContent(e) \/ \E a \in Parts : WriteAttachment(e, a)
        PROVE  ReceiveInv'
    BY <2>5, WriteKeeps, ReceivingAssumption
  <2>6. ASSUME NEW e \in Events, createReceivedEmail(e) PROVE ReceiveInv'
    BY <2>6, CreateReceivedKeeps, ReceivingAssumption
  <2>7. ASSUME NEW e \in Events, EnqueueAnnouncement(e) \/ MarkQueued(e) \/ Acknowledge(e)
        PROVE  ReceiveInv'
    BY <2>7, AnnouncementKeeps, ReceivingAssumption
  <2>8. ASSUME NEW e \in Events, CallThrows(e) \/ FunctionLost(e) PROVE ReceiveInv'
    BY <2>8, FaultKeeps, ReceivingAssumption
  <2>9. ASSUME NEW e \in Events, NEW done \in BOOLEAN, ReleaseClaim(e, done)
        PROVE  ReceiveInv'
    BY <2>9, ReleaseReceivedKeeps, ReceivingAssumption
  <2>10. CASE SecondPasses
    BY <2>10, SecondKeeps, ReceivingAssumption
  <2>11. CASE PublishReceived \/ \E referenced \in SUBSET Parts : GetEmail(referenced)
    BY <2>11, ReadReceivedKeeps, ReceivingAssumption
  <2>12. CASE UNCHANGED rcVars
    <3>1. UNCHANGED <<inboundClaim, objects, received, announcement, ingestion, reading,
                      receiveFaults>>
      BY <2>12 DEF rcVars
    <3> QED BY <3>1 DEF ReceiveInv, ReceiveTypes, IngestionsHold, ReceivedHolds, PioneerGoesOn,
                        OneFaultIsSurvived
  <2> QED BY <2>1, <2>2, <2>3, <2>4, <2>5, <2>6, <2>7, <2>8, <2>9, <2>10, <2>11, <2>12
          DEF RcNext
<1> QED BY <1>1, <1>2, PTL DEF RcSpec

\* What Lambda was told is done left a record that can be read whole and an
\* announcement in the queue, and a message with one fault is not given up by
\* all its deliveries, for any number of deliveries, parts and faults.
THEOREM ReceivedIsAnnouncedHolds == RcSpec => []ReceivedIsAnnounced
<1>1. ReceiveInv => ReceivedIsAnnounced
  <2> SUFFICES ASSUME ReceiveInv PROVE ReceivedIsAnnounced
    OBVIOUS
  <2>1. ASSUME NEW e \in Events, At(e, "acknowledged")
        PROVE  received.stored /\ announcement # "none"
    BY <2>1 DEF At, ReceiveInv, IngestionsHold, IngestionHolds
  <2>2. ASSUME receiveFaults <= 1, \A e \in Events : Finished(e), announcement = "none"
        PROVE  FALSE
    <3>1. \A e \in Events : ingestion[e].pc = "givenUp"
      BY <2>1, <2>2 DEF Finished, At
    <3>2. receiveFaults = 0 \/ receiveFaults = 1
      BY <2>2 DEF ReceiveInv, ReceiveTypes
    <3>3. CASE receiveFaults = 0
      <4>1. \E e \in Events : Delayed(ingestion[e])
        BY <3>1, ReceivingAssumption DEF Delayed, ReceivingAssumption
      <4>2. \E e \in Events : Pioneer(ingestion[e])
        BY <2>2, <3>3, <4>1 DEF ReceiveInv, PioneerGoesOn
      <4> QED BY <3>1, <4>2 DEF Pioneer, Works
    <3>4. CASE receiveFaults = 1
      <4>1. PICK e \in Events : WillAnnounce(ingestion[e], inboundClaim.left, received.stored)
        BY <2>2, <3>4 DEF ReceiveInv, OneFaultIsSurvived
      <4> QED BY <3>1, <4>1 DEF WillAnnounce, Works
    <3> QED BY <3>2, <3>3, <3>4
  <2>3. reading # "error"
    BY DEF ReceiveInv, ReceivedHolds, RecordHolds
  <2> QED BY <2>1, <2>2, <2>3 DEF ReceivedIsAnnounced
<1> QED BY <1>1, ReceiveInvariant, PTL

=============================================================================
