---------------------------- MODULE HostedProof ----------------------------
(***************************************************************************)
(* The proofs an operator runs against a portable deployment: the hosted   *)
(* semantic proof (src/portable/hosted-proof.ts) and the two halves of the *)
(* backup and restore proof (src/portable/backup-restore-proof.ts), beside *)
(* the API, the sweeps and the worker of the deployment they exercise.     *)
(*                                                                         *)
(* A script creates one scheduled e-mail, its fixture, deletes the wake-up *)
(* job, makes the rows due, waits for the deployment to send the e-mail    *)
(* all the same, and deletes the fixture.  `proof` is the script and its   *)
(* locals, `rows` what the database holds of the fixture: "email" stands   *)
(* for the e-mail and everything that is deleted with it (message,         *)
(* recipient, attempts, claim, outbox item); jobs have no foreign key.     *)
(***************************************************************************)
EXTENDS Naturals, FiniteSets

CONSTANTS
    OutboxSweepers, \* processes that sweep the outbox, each with its own owner
    MaxProofFaults  \* bound: failing calls, lost sweeps and expired leases

ASSUME ProofConstants ==
    /\ IsFiniteSet(OutboxSweepers) /\ MaxProofFaults \in Nat
    /\ OutboxSweepers \cap {"none", "pending", "dispatched"} = {}

VARIABLES
    proof,      \* the script, where it is, and what it knows
    rows,       \* rows of the fixture
    fixture,    \* state of the e-mail, its outbox item and its send_email job
    creating,   \* the API's handling of the last create request
    sweeping,   \* each sweeper's place in its sweep
    damaged,    \* what the backup under verification lost
    late,       \* rows written where the script no longer looks
    proofFaults

hpVars == <<proof, rows, fixture, creating, sweeping, damaged, late, proofFaults>>

Script(kind, retain, known) ==
    [kind |-> kind, retain |-> retain, step |-> "start", known |-> known,
     attempted |-> FALSE, failure |-> "none"]

NoFixture == [mail |-> "none", item |-> "none", job |-> "none"]

HpInit ==
    /\ proof \in {Script("hosted", TRUE, {}), Script("hosted", FALSE, {}),
                  Script("seed", TRUE, {})}
    /\ rows \in {{}, {"send"}}
    /\ fixture = [NoFixture EXCEPT !.job = IF rows = {} THEN "none" ELSE "done"]
    /\ creating = "none"
    /\ sweeping = [w \in OutboxSweepers |-> "idle"]
    /\ damaged = {}
    /\ late = rows
    /\ proofFaults = 0

-----------------------------------------------------------------------------
(* The script.                                                             *)

AtStep(s) == proof.step = s
Continue(s) == proof' = [proof EXCEPT !.step = s]

\* What the script still does after a failure, by what it has learned.
StepAfterFailure ==
    IF proof.kind = "hosted"
      THEN IF "email" \in proof.known THEN "clean"
           ELSE IF proof.attempted THEN "discover" ELSE "end"
      ELSE IF proof.kind = "seed" /\ "outbox" \notin proof.known
        THEN IF proof.known \in {{"upload"}, {"upload", "email"}} THEN "unlist" ELSE "end"
        ELSE "clean"

Fail == proof' = [proof EXCEPT !.failure = "failed", !.step = StepAfterFailure]

\* A failing cleanup is reported as such, and nothing more is cleaned.
CleanupFails == proof' = [proof EXCEPT !.failure = "residue", !.step = "end"]

ProofFault == proofFaults < MaxProofFaults /\ proofFaults' = proofFaults + 1

\* A step fails because what it checks does not hold, or because a call failed.
FailsUnless(holds) == Fail /\ (IF holds THEN ProofFault ELSE UNCHANGED proofFaults)

Checks(s, holds, then) ==
    /\ AtStep(s)
    /\ \/ holds /\ then /\ UNCHANGED proofFaults
       \/ FailsUnless(holds)
    /\ UNCHANGED <<rows, fixture, creating, sweeping, damaged, late>>

\* A refused option or source ends the script before it has opened anything.
validateOptions ==
    /\ AtStep("start")
    /\ \/ Continue(IF proof.kind = "restore" THEN "health" ELSE "baseline")
       \/ proof' = [proof EXCEPT !.failure = "refused", !.step = "over"]
    /\ UNCHANGED <<rows, fixture, creating, sweeping, damaged, late, proofFaults>>

assertEmptyBaseline == Checks("baseline", rows = {}, Continue("health"))

healthCheck ==
    Checks("health", TRUE, Continue(IF proof.kind = "hosted" THEN "create"
                                    ELSE IF proof.kind = "seed" THEN "upload" ELSE "snapshot"))

\* uploadLocalAttachments registers the upload and then sends the content: the
\* script has no identity of a registered upload whose content failed.
uploadLocalAttachments ==
    /\ AtStep("upload")
    /\ \/ /\ rows' = rows \cup {"upload"}
          /\ proof' = [proof EXCEPT !.step = "create", !.known = @ \cup {"upload"}]
          /\ UNCHANGED proofFaults
       \/ rows' \in {rows, rows \cup {"upload"}} /\ ProofFault /\ Fail
    /\ UNCHANGED <<fixture, creating, sweeping, damaged, late>>

postEmail ==
    /\ AtStep("create")
    /\ creating' = "received"
    /\ proof' = [proof EXCEPT !.step = "first", !.attempted = TRUE]
    /\ UNCHANGED <<rows, fixture, sweeping, damaged, late, proofFaults>>

\* The answer to the first request names the e-mail; the request is repeated
\* under the same idempotency key.
replayEmail ==
    /\ AtStep("first") /\ creating = "answered"
    /\ creating' = "received"
    /\ proof' = [proof EXCEPT !.step = "second", !.known = @ \cup {"email"}]
    /\ UNCHANGED <<rows, fixture, sweeping, damaged, late, proofFaults>>

replayAnswered ==
    /\ AtStep("second") /\ creating = "answered"
    /\ creating' = "none"
    /\ Continue("initial")
    /\ UNCHANGED <<rows, fixture, sweeping, damaged, late, proofFaults>>

\* responseJson gives a request up after 15 seconds; the API goes on with it.
requestTimesOut ==
    /\ proof.step \in {"first", "second"} /\ creating # "answered"
    /\ ProofFault /\ Fail
    /\ UNCHANGED <<rows, fixture, creating, sweeping, damaged, late>>

assertInitialFixture ==
    Checks("initial",
           "email" \in rows /\ fixture.mail = "scheduled" /\ fixture.item # "dispatched",
           proof' = [proof EXCEPT !.known = @ \cup {"outbox"},
                        !.step = IF proof.kind = "seed" THEN "snapshot" ELSE "delayed"])

delayedJobCount == Checks("delayed", "wakeup" \in rows, Continue("advance"))

\* The seed ends here with its fixture retained; the restore compares what it
\* finds with the digest of the seed.
fixtureSnapshot ==
    Checks("snapshot",
           /\ {"email", "upload", "wakeup"} \subseteq rows
           /\ fixture.mail = "scheduled" /\ fixture.item # "dispatched",
           Continue(IF proof.kind = "seed" THEN "end" ELSE "advance"))

Advanceable ==
    fixture.mail = "scheduled" /\ fixture.item # "dispatched" /\ "wakeup" \in rows

\* One transaction: the fixture's unfinished jobs, of which the wake-up is the
\* only one so far, are deleted, the e-mail and its item become due and the
\* item's lease is cleared.
advanceDueRow ==
    /\ AtStep("advance")
    /\ \/ /\ Advanceable
          /\ rows' = rows \ {"wakeup"}
          /\ fixture' = [fixture EXCEPT !.mail = "due", !.item = "pending"]
          /\ Continue("wait")
          /\ UNCHANGED proofFaults
       \/ FailsUnless(Advanceable) /\ UNCHANGED <<rows, fixture>>
    /\ UNCHANGED <<creating, sweeping, damaged, late>>

\* The API is asked until the e-mail is sent, has failed, or time is up.
waitForSent ==
    /\ fixture.mail # "due"
    /\ Checks("wait", fixture.mail = "sent", Continue("final"))

waitTimesOut ==
    /\ AtStep("wait")
    /\ ProofFault /\ Fail
    /\ UNCHANGED <<rows, fixture, creating, sweeping, damaged, late>>

\* The e-mail shows as sent before its job is completed and, when the sweep is
\* slow, before its item is dispatched: the check may come too early.
assertFinalFixture ==
    Checks("final",
           fixture.mail = "sent" /\ fixture.item = "dispatched" /\ fixture.job = "done",
           Continue(IF proof.retain THEN "end" ELSE "clean"))

discoverFixtureEmailId ==
    /\ AtStep("discover")
    /\ \/ /\ proof' = [proof EXCEPT !.step = IF "email" \in rows THEN "clean" ELSE "end",
                                    !.known = @ \cup ({"email"} \cap rows)]
          /\ UNCHANGED proofFaults
       \/ ProofFault /\ CleanupFails
    /\ UNCHANGED <<rows, fixture, creating, sweeping, damaged, late>>

\* Mutant: the outbox identity is not looked up before the e-mail goes.
OutboxResolved_IfKnown == "outbox" \in proof.known

\* cleanupFixture finds the wake-up job by its outbox id, which it looks up
\* when the script has not learned it.
OutboxResolved == "outbox" \in proof.known \/ "email" \in rows

ByIdentity(resolved) == {"email", "send"} \cup (IF resolved THEN {"wakeup"} ELSE {})

cleanupFixture ==
    /\ AtStep("clean")
    /\ \/ /\ rows' = rows \ ByIdentity(OutboxResolved)
          /\ fixture' = NoFixture
          /\ proof' = [proof EXCEPT !.step = "verify",
                          !.known = IF OutboxResolved THEN @ \cup {"outbox"} ELSE @]
          /\ UNCHANGED proofFaults
       \/ ProofFault /\ CleanupFails /\ UNCHANGED <<rows, fixture>>
    /\ UNCHANGED <<creating, sweeping, damaged, late>>

\* The rows are counted again after the transaction.
countRemaining ==
    /\ AtStep("verify")
    /\ \/ /\ rows \cap ByIdentity("outbox" \in proof.known) = {}
          /\ Continue(IF proof.kind = "hosted" THEN "end" ELSE "unlist")
          /\ UNCHANGED proofFaults
       \/ /\ rows \cap ByIdentity("outbox" \in proof.known) # {}
          /\ CleanupFails /\ UNCHANGED proofFaults
       \/ ProofFault /\ CleanupFails
    /\ UNCHANGED <<rows, fixture, creating, sweeping, damaged, late>>

deleteAttachmentMetadata ==
    /\ AtStep("unlist")
    /\ \/ rows' = rows \ {"upload"} /\ Continue("end") /\ UNCHANGED proofFaults
       \/ ProofFault /\ CleanupFails /\ UNCHANGED rows
    /\ UNCHANGED <<fixture, creating, sweeping, damaged, late>>

\* The pool is closed; evidence is printed when nothing failed up to here.
endPool ==
    /\ AtStep("end")
    /\ \/ Continue("over") /\ UNCHANGED proofFaults
       \/ ProofFault /\ proof' = [proof EXCEPT !.step = "over",
                                !.failure = IF @ = "none" THEN "closing" ELSE @]
    /\ UNCHANGED <<rows, fixture, creating, sweeping, damaged, late>>

-----------------------------------------------------------------------------
(* The deployment.                                                         *)

\* A row written when the script looks for it no more.
Written(r) ==
    late' = late \cup IF proof.step \in {"unlist", "end", "over"} THEN {r} ELSE {}

\* The claim of the idempotency key leads to the e-mail, unless the cleanup has
\* taken both: a request given up by the script then makes another e-mail.
commitDelivery ==
    /\ creating = "received"
    /\ creating' = "committed"
    /\ IF "email" \in rows THEN UNCHANGED <<rows, fixture, late>>
       ELSE IF "email" \in proof.known
         THEN /\ rows' = rows \cup {"stray"} /\ late' = late \cup {"stray"}
              /\ UNCHANGED fixture
         ELSE /\ rows' = rows \cup {"email"} /\ Written("email")
              /\ fixture' = [fixture EXCEPT !.mail = "scheduled", !.item = "pending"]
    /\ UNCHANGED <<proof, sweeping, damaged, proofFaults>>

\* The wake-up is a job of its own, 8 to 30 days away; its failure is dropped.
scheduleWakeup ==
    /\ creating = "committed"
    /\ creating' = "answered"
    /\ \/ /\ IF "stray" \in rows THEN UNCHANGED <<rows, late>>
             ELSE rows' = rows \cup {"wakeup"} /\ Written("wakeup")
          /\ UNCHANGED proofFaults
       \/ ProofFault /\ UNCHANGED <<rows, late>>
    /\ UNCHANGED <<proof, fixture, sweeping, damaged>>

leaseDueOutbox(w) ==
    /\ sweeping[w] = "idle"
    /\ fixture.mail \in {"due", "sent", "failed"} /\ fixture.item = "pending"
    /\ fixture' = [fixture EXCEPT !.item = w]
    /\ sweeping' = [sweeping EXCEPT ![w] = "publish"]
    /\ UNCHANGED <<proof, rows, creating, damaged, late, proofFaults>>

\* The job's identity is the item's: a second publication changes nothing.  The
\* sweep does not look whether the e-mail is still there.
publish(w) ==
    /\ sweeping[w] = "publish"
    /\ sweeping' = [sweeping EXCEPT ![w] = "acknowledge"]
    /\ IF "send" \in rows THEN UNCHANGED <<rows, fixture, late>>
       ELSE /\ rows' = rows \cup {"send"} /\ Written("send")
            /\ fixture' = [fixture EXCEPT !.job = "ready"]
    /\ UNCHANGED <<proof, creating, damaged, proofFaults>>

acknowledgeOutbox(w) ==
    /\ sweeping[w] = "acknowledge"
    /\ sweeping' = [sweeping EXCEPT ![w] = "idle"]
    /\ fixture' = [fixture EXCEPT !.item = IF @ = w THEN "dispatched" ELSE @]
    /\ UNCHANGED <<proof, rows, creating, damaged, late, proofFaults>>

sweepLost(w) ==
    /\ sweeping[w] # "idle" /\ ProofFault
    /\ sweeping' = [sweeping EXCEPT ![w] = "idle"]
    /\ UNCHANGED <<proof, rows, fixture, creating, damaged, late>>

leaseExpires ==
    /\ fixture.item \in OutboxSweepers /\ ProofFault
    /\ fixture' = [fixture EXCEPT !.item = "pending"]
    /\ UNCHANGED <<proof, rows, creating, sweeping, damaged, late>>

\* The worker submits to the console transport and rehashes the attachment
\* first; an e-mail that is gone is left alone.
processSend ==
    /\ fixture.job = "ready"
    /\ fixture' = [fixture EXCEPT !.job = "processed",
          !.mail = IF @ # "due" THEN @
                   ELSE IF "object" \in damaged THEN "failed" ELSE "sent"]
    /\ UNCHANGED <<proof, rows, creating, sweeping, damaged, late, proofFaults>>

acknowledgeJob ==
    /\ fixture.job = "processed"
    /\ fixture' = [fixture EXCEPT !.job = "done"]
    /\ UNCHANGED <<proof, rows, creating, sweeping, damaged, late, proofFaults>>

\* The operator backs the seeded database and object up, restores them into
\* clean targets and starts the verification there.
restoreBackup ==
    /\ AtStep("over") /\ proof.kind = "seed" /\ proof.failure = "none"
    /\ \E lost \in SUBSET {"email", "upload", "wakeup"}, gone \in SUBSET {"object"} :
         /\ rows' = rows \ lost
         /\ fixture' = IF "email" \in lost THEN NoFixture ELSE fixture
         /\ damaged' = lost \cup gone
    /\ proof' = Script("restore", FALSE, {"email", "outbox", "upload"})
    /\ creating' = "none"
    /\ sweeping' = [w \in OutboxSweepers |-> "idle"]
    /\ UNCHANGED <<late, proofFaults>>

HpNext ==
    \/ validateOptions \/ assertEmptyBaseline \/ healthCheck \/ uploadLocalAttachments
    \/ postEmail \/ replayEmail \/ replayAnswered \/ requestTimesOut
    \/ assertInitialFixture \/ delayedJobCount \/ fixtureSnapshot \/ advanceDueRow
    \/ waitForSent \/ waitTimesOut \/ assertFinalFixture
    \/ discoverFixtureEmailId \/ cleanupFixture \/ countRemaining
    \/ deleteAttachmentMetadata \/ endPool
    \/ commitDelivery \/ scheduleWakeup \/ processSend \/ acknowledgeJob
    \/ leaseExpires \/ restoreBackup
    \/ \E w \in OutboxSweepers : \/ leaseDueOutbox(w) \/ publish(w)
                                 \/ acknowledgeOutbox(w) \/ sweepLost(w)

HpSpec == HpInit /\ [][HpNext]_hpVars

-----------------------------------------------------------------------------
Retained == proof.failure \in {"none", "closing"} /\ proof.retain

\* Rows a failed seed does not know by all the identities it deletes by.
Unidentified ==
    IF proof.kind # "seed" THEN {}
    ELSE (IF "outbox" \in proof.known THEN {} ELSE {"email", "wakeup", "send"})
         \cup ({"upload"} \ proof.known)

\* The evidence of a proof can be relied on.  "The runner deletes its fixture
\* on both success and recoverable failure" (docs/portable-hosted-proof.md): a
\* script that starts, and ends without reporting a failed cleanup, has left
\* only rows that a stalled sweep or a request it had given up wrote
\* afterwards, although it may have failed before it learned what had been
\* created.  And a verification succeeds only on a backup that lost nothing.
EvidenceIsHonest ==
    AtStep("over") =>
        /\ proof.failure \notin {"refused", "residue"} /\ ~Retained =>
                rows \subseteq late \cup Unidentified
        /\ proof.kind = "restore" /\ proof.failure = "none" => damaged = {}
=============================================================================
