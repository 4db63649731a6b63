----------------------------- MODULE Attachments -----------------------------
(* Attachments that are declared, uploaded to an object store, referred to  *)
(* by an e-mail and read back when it is sent: AttachmentService, the       *)
(* stores of src/adapters, the route for uploads through the API, and the   *)
(* command line's uploads.  Time is counted in days.                        *)
(*                                                                          *)
(* The object stores are external: S3 checks the declared checksum itself   *)
(* ("native"); stores that keep it as metadata ("s3", "gcs", "azure") take  *)
(* any content under it; all of them, except the one in memory, refuse a    *)
(* second object for a key, Azure only when the client sends the header it  *)
(* was told to send.  Cloudflare's service ("inline") has no store.         *)
EXTENDS Naturals, FiniteSets

CONSTANTS Uploads,       \* uploads, each of one size
          StoreKinds,    \* kinds of storage that are tried
          MaxUploads,    \* as many as the limit on bytes allows (25 MiB)
          ReferenceDays, \* ATTACHMENT_REFERENCE_TTL_MS
          ScheduleDays,  \* MAX_SCHEDULE_MS
          RetentionDays, \* the bucket's ExpirationInDays
          LastDay

\* The stores that a portable deployment can be configured with.
createPortableAttachmentStorage == {"disabled", "s3", "gcs", "azure", "blob"}

ASSUME StoreKindsAssumption ==
    StoreKinds \subseteq createPortableAttachmentStorage \cup {"native", "memory", "inline"}

\* 24 hours, 30 days and 45 days: the last day an e-mail may be due for is
\* within the retention of what it refers to.
ASSUME DaysAssumption ==
    /\ ReferenceDays \in Nat /\ ScheduleDays \in Nat \ {0} /\ RetentionDays \in Nat
    /\ ReferenceDays + ScheduleDays <= RetentionDays

Contents == {"declared", "sameSize", "otherSize"}

VARIABLES storage,       \* the storage of the deployment
          day,
          upload,     \* upload -> its record: when it was declared, is its URL valid
          stored,     \* upload -> content of its object, and the checksum stored with it
          mail        \* an e-mail that refers to uploads

attVars == <<storage, day, upload, stored, mail>>

NoObject == [content |-> "none", checksum |-> "none"]
NoMail == [state |-> "none", uses |-> {}, due |-> 0, moved |-> FALSE, carried |-> {}]

AttInit ==
    /\ storage \in StoreKinds
    /\ day = 0
    /\ upload = [u \in Uploads |-> [state |-> "none", since |-> 0]]
    /\ stored = [u \in Uploads |-> NoObject]
    /\ mail = NoMail

\* create: the record is stored, then the target is made; a deployment without
\* storage, and Cloudflare's inline service, refuse before anything is stored.
DeclareUpload(u) ==
    /\ storage \notin {"disabled", "inline"}
    /\ upload[u].state = "none" /\ mail.state = "none"
    /\ upload' = [upload EXCEPT ![u] = [state |-> "open", since |-> day]]
    /\ UNCHANGED <<storage, day, stored, mail>>

\* The target of the upload expires, 15 minutes later.
CloseUpload(u) ==
    /\ upload[u].state = "open"
    /\ upload' = [upload EXCEPT ![u].state = "closed"]
    /\ UNCHANGED <<storage, day, stored, mail>>

----------------------------------------------------------------------------
(* What each storage accepts.                                               *)

\* S3AttachmentStorage with native checksums: the checksum is part of the
\* signed request and the object is written once.
NativeAccepts(u, c) == c = "declared" /\ stored[u] = NoObject

\* The same class with the checksum as metadata (S3-compatible stores), and
\* Google Cloud Storage, whose precondition is part of the signed URL.
MetadataAccepts(u, c) == stored[u] = NoObject
GcsAccepts(u, c) == stored[u] = NoObject

\* Azure: the conditions are headers the client sends beside the signed URL.
AzureAccepts(u, c, obeys) == obeys => stored[u] = NoObject

\* Vercel Blob bounds the size and refuses to overwrite.
BlobAccepts(u, c) == c # "otherSize" /\ stored[u] = NoObject

\* A PUT by a client that holds the target, with any content.
DirectUpload(u, c, obeys) ==
    /\ upload[u].state = "open"
    /\ \/ storage = "native" /\ NativeAccepts(u, c)
       \/ storage = "s3" /\ MetadataAccepts(u, c)
       \/ storage = "gcs" /\ GcsAccepts(u, c)
       \/ storage = "azure" /\ AzureAccepts(u, c, obeys)
       \/ storage = "blob" /\ BlobAccepts(u, c)
    /\ stored' = [stored EXCEPT ![u] =
         [content |-> c,
          checksum |-> IF storage = "azure" /\ ~obeys THEN "none" ELSE "declared"]]
    /\ UNCHANGED <<storage, day, upload, mail>>

\* PUT /attachments/:id/content with a content of some length: the URL's
\* token and expiry, then the length, the type and the checksum.
authorizeProxyUpload(u, c) == upload[u].state = "open" /\ c # "otherSize"

ProxyUpload(u, c) ==
    /\ storage = "memory" /\ authorizeProxyUpload(u, c)
    /\ c = "declared"
    /\ stored' = [stored EXCEPT ![u] = [content |-> c, checksum |-> "declared"]]
    /\ UNCHANGED <<storage, day, upload, mail>>

----------------------------------------------------------------------------
(* hayasend send, with local files.                                         *)

\* Where the URL of an upload points to: the API itself, one of the object
\* stores the command knows, or an S3-compatible store anywhere.
UploadOrigin ==
    IF storage = "memory" THEN "api" ELSE IF storage = "s3" THEN "other" ELSE "known"

\* The last kind must be allowed on the command line.
safeUploadUrl(origin, allowed) == origin \in {"api", "known"} \/ allowed

\* The headers must agree with the file: the checksum, by whatever name the
\* store has for it, the type, and the condition not to overwrite.
uploadHeaders(u) == [content |-> "declared", checksum |-> "declared"]

\* Declare, compare the answer with the file, put the file.  A failure ends
\* the command after the declaration.
CliUpload(u, allowed) ==
    /\ storage \notin {"disabled", "inline"}
    /\ upload[u].state = "none" /\ mail.state = "none"
    /\ upload' = [upload EXCEPT ![u] = [state |-> "open", since |-> day]]
    /\ stored' = IF safeUploadUrl(UploadOrigin, allowed)
                  THEN [stored EXCEPT ![u] = uploadHeaders(u)] ELSE stored
    /\ UNCHANGED <<storage, day, mail>>

----------------------------------------------------------------------------
(* Checking and reading.                                                    *)

SameSize(c) == c \in {"declared", "sameSize"}

\* Mutant: the size is compared and the digest is not.
ValidContent_AnySize(c) == SameSize(c)

\* validateAttachmentContent hashes what was read.
ValidContent(c) == c = "declared"

\* read, of each store; what is not there has no content.
readS3(o) == ValidContent(o.content)
readGcs(o) == ValidContent(o.content)
readAzure(o) == ValidContent(o.content)
readBlob(o) == SameSize(o.content) /\ ValidContent(o.content)
readMemory(o) == ValidContent(o.content)

\* verify: the size and the checksum that is stored, except where it reads.
verifyS3(o) == SameSize(o.content) /\ o.checksum = "declared"
verifyGcs(o) == SameSize(o.content) /\ o.checksum = "declared"
verifyAzure(o) == SameSize(o.content) /\ o.checksum = "declared"
verifyBlob(o) == readBlob(o)
verifyMemory(o) == ValidContent(o.content)

Verified(o) ==
    [native |-> verifyS3(o), s3 |-> verifyS3(o), gcs |-> verifyGcs(o), azure |-> verifyAzure(o),
     blob |-> verifyBlob(o), memory |-> verifyMemory(o), disabled |-> FALSE, inline |-> FALSE][storage]

ReadBack(o) ==
    [native |-> readS3(o), s3 |-> readS3(o), gcs |-> readGcs(o), azure |-> readAzure(o),
     blob |-> readBlob(o), memory |-> readMemory(o), disabled |-> FALSE, inline |-> FALSE][storage]

\* resolve: every reference is valid and verified, and the bytes fit.
Resolve(uses, due) ==
    /\ mail.state = "none" /\ uses # {}
    /\ \A u \in uses : /\ upload[u].state # "none" /\ day < upload[u].since + ReferenceDays
                       /\ Verified(stored[u])
    /\ Cardinality(uses) <= MaxUploads
    /\ due \in {day, day + 1, day + ScheduleDays}
    /\ mail' = [NoMail EXCEPT !.state = "accepted", !.uses = uses, !.due = due]
    /\ UNCHANGED <<storage, day, upload, stored>>

\* Content that comes with the request, of some size in MB: 25 MiB, or 3.8 MB
\* where the service keeps it in the job.
InlineLimit == IF storage = "inline" THEN 3 ELSE 25

ResolveInline(size, due) ==
    /\ mail.state = "none" /\ size <= InlineLimit
    /\ due \in {day, day + ScheduleDays}
    /\ mail' = [NoMail EXCEPT !.state = "accepted", !.due = due]
    /\ UNCHANGED <<storage, day, upload, stored>>

\* EmailService.update: the new time is bounded from the day of the request.
MoveMail(due) ==
    /\ mail.state = "accepted" /\ day < mail.due /\ ~mail.moved
    /\ due \in {day + 1, day + ScheduleDays}
    /\ mail' = [mail EXCEPT !.due = due, !.moved = TRUE]
    /\ UNCHANGED <<storage, day, upload, stored>>

\* processSend reads every attachment; one that fails fails the submission.
SendMail ==
    /\ mail.state = "accepted" /\ day >= mail.due
    /\ mail' = IF \A u \in mail.uses : ReadBack(stored[u])
                 THEN [mail EXCEPT !.state = "sent",
                                   !.carried = {stored[u].content : u \in mail.uses}]
                 ELSE [mail EXCEPT !.state = "failed"]
    /\ UNCHANGED <<storage, day, upload, stored>>

NextDay ==
    /\ day < LastDay
    /\ mail.state \in {"none", "accepted"}
    /\ mail.state = "none" => day < 1
    /\ ~(mail.state = "accepted" /\ day = mail.due)
    /\ day' = day + 1
    /\ upload' = [u \in Uploads |-> [upload[u] EXCEPT !.state = IF @ = "open" THEN "closed" ELSE @]]
    /\ UNCHANGED <<storage, stored, mail>>

\* The bucket's lifecycle rule removes what is older than its limit.
Expired(u) == day > upload[u].since + RetentionDays

ObjectExpires(u) ==
    /\ stored[u] # NoObject /\ Expired(u)
    /\ stored' = [stored EXCEPT ![u] = NoObject]
    /\ UNCHANGED <<storage, day, upload, mail>>

AttNext ==
    \/ \E u \in Uploads :
          \/ DeclareUpload(u) \/ CloseUpload(u) \/ ObjectExpires(u)
          \/ \E allowed \in BOOLEAN : CliUpload(u, allowed)
          \/ \E c \in Contents : ProxyUpload(u, c) \/ \E obeys \in BOOLEAN : DirectUpload(u, c, obeys)
    \/ \E uses \in SUBSET Uploads, due \in 0 .. LastDay : Resolve(uses, due)
    \/ \E size \in {1, 20, 26}, due \in 0 .. LastDay : ResolveInline(size, due)
    \/ \E due \in 0 .. LastDay : MoveMail(due)
    \/ SendMail \/ NextDay

AttSpec == AttInit /\ [][AttNext]_attVars

----------------------------------------------------------------------------
\* What an e-mail carries is what was declared, whatever clients put under the
\* keys between the check at acceptance and the read at submission.  And an
\* e-mail that was accepted and not moved fails for its attachments only on a
\* store that takes content without checking it: references, schedules and the
\* bucket's retention fit together.
AttachmentsArrive ==
    /\ mail.carried \subseteq {"declared"}
    /\ (mail.state = "failed" /\ ~mail.moved) => storage \in {"s3", "gcs", "azure"}
=============================================================================
