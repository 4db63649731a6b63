------------------------------ MODULE Templates ------------------------------
(* Hosted templates: drafts that are edited, published under an alias,      *)
(* restored from their history and used by sends (TemplateService and the   *)
(* stores), and the command `hayasend templates push --publish`, which      *)
(* reconciles a template with a manifest while other clients edit it.       *)
(*                                                                          *)
(* A request resolves an identifier, loads the record, and commits against  *)
(* the revision it loaded: three steps that interleave with those of other  *)
(* requests.  A commit is one transaction in DynamoDB and PostgreSQL and    *)
(* one turn of the event loop in memory.                                    *)
EXTENDS Naturals, FiniteSets

CONSTANTS TemplateIds, Aliases, TemplateClients, \* "push" is the command line
          HistoryLimit, MaxVersion,
          NoAlias, NoTemplate

ASSUME TemplatesAssumption ==
    /\ HistoryLimit \in Nat \ {0} /\ MaxVersion \in Nat
    /\ NoAlias \notin Aliases /\ NoTemplate \notin TemplateIds
    /\ "push" \in TemplateClients

\* What the properties tell apart of a version's content: it renders without
\* variables, only with the client's, or uses one that is not declared.
Bodies == {"plain", "filled", "undeclared"}

VARIABLES tmpl,        \* template -> its record
          draftAlias,  \* the alias table of drafts
          sentAlias,   \* the alias table of published versions
          history,     \* template -> its publication records
          versionId,   \* the last version id that was made
          clientCall,        \* client -> its request
          released     \* what the command line published: nothing, its manifest, other

tmVars == <<tmpl, draftAlias, sentAlias, history, versionId, clientCall, released>>

NoVersion == [id |-> 0, alias |-> NoAlias, body |-> "plain"]
NoRecord == [revision |-> 0, draft |-> NoVersion, published |-> NoVersion]
Idle == [op |-> "idle", step |-> "idle", target |-> NoTemplate,
         alias |-> NoAlias, seen |-> NoRecord, expect |-> 0]

\* The manifest's entry for an alias has a plain body.
MatchesManifest(v) == v.alias = clientCall["push"].alias /\ v.body = "plain"

Live(t) == tmpl[t].revision > 0
\* Ids are made at random: an id is never used again.
Unused(t) == tmpl[t] = NoRecord /\ history[t] = {}

TmInit ==
    /\ tmpl = [t \in TemplateIds |-> NoRecord]
    /\ draftAlias = [a \in Aliases |-> NoTemplate]
    /\ sentAlias = [a \in Aliases |-> NoTemplate]
    /\ history = [t \in TemplateIds |-> {}]
    /\ versionId = 0
    /\ clientCall = [c \in TemplateClients |-> Idle]
    /\ released = "nothing"

----------------------------------------------------------------------------
(* Content.                                                                 *)

\* validateVersion: every variable that is used is declared.
ValidVersion(v) == v.body # "undeclared"

\* renderTemplateVersion, for a send: required variables are given.
Renders(v, given) == v.body = "filled" => given

----------------------------------------------------------------------------
(* The stores' transactions.                                                *)

\* An alias is free for a template that holds it already.
AliasFree(table, a, t) == a # NoAlias => table[a] \in {NoTemplate, t}

Moved(table, from, to, t) ==
    [a \in Aliases |-> IF a = to THEN t
                       ELSE IF a = from THEN NoTemplate ELSE table[a]]

\* Mutant: the condition is that the record exists.
RevisionHolds_Exists(t, seen) == Live(t)

\* The condition of every commit: the revision is the one that was loaded.
RevisionHolds(t, seen) == Live(t) /\ tmpl[t].revision = seen.revision

CreateTemplate(t, v) ==
    /\ Unused(t) /\ AliasFree(draftAlias, v.alias, NoTemplate)
    /\ tmpl' = [tmpl EXCEPT ![t] = [revision |-> 1, draft |-> v, published |-> NoVersion]]
    /\ draftAlias' = Moved(draftAlias, NoAlias, v.alias, t)
    /\ versionId' = v.id
    /\ UNCHANGED <<sentAlias, history>>

ReplaceTemplate(t, seen, draft) ==
    /\ RevisionHolds(t, seen) /\ AliasFree(draftAlias, draft.alias, t)
    /\ tmpl' = [tmpl EXCEPT ![t] = [seen EXCEPT !.draft = draft,
                                                !.revision = @ + 1]]
    /\ draftAlias' = Moved(draftAlias, seen.draft.alias, draft.alias, t)
    /\ versionId' = draft.id
    /\ UNCHANGED <<sentAlias, history>>

\* The newest publications; the one that is added counts.
Newest(versions, n) ==
    {v \in versions : Cardinality({w \in versions : w.id > v.id}) < n}

\* DynamoDB lists the versions to prune before the transaction, without a
\* consistent read, so that the list may miss the newest one.
Pruned(t, missed) == history[t] \ Newest(history[t] \ missed, HistoryLimit - 1)

PublishTemplate(t, seen, missed) ==
    /\ RevisionHolds(t, seen) /\ AliasFree(sentAlias, seen.draft.alias, t)
    /\ \A v \in history[t] : v.id # seen.draft.id
    /\ tmpl' = [tmpl EXCEPT ![t] = [seen EXCEPT !.published = seen.draft,
                                                !.revision = @ + 1]]
    /\ sentAlias' = Moved(sentAlias, seen.published.alias, seen.draft.alias, t)
    /\ history' = [history EXCEPT ![t] =
         (@ \ (Pruned(t, missed) \ missed)) \cup {seen.draft}]
    /\ UNCHANGED <<draftAlias, versionId>>

\* The record and both aliases go with the history; DynamoDB's list may miss
\* the newest publication, which then waits for its time-to-live.
DeleteTemplate(t, seen, missed) ==
    /\ RevisionHolds(t, seen)
    /\ tmpl' = [tmpl EXCEPT ![t] = [NoRecord EXCEPT !.draft = seen.draft]]
    /\ draftAlias' = Moved(draftAlias, seen.draft.alias, NoAlias, t)
    /\ sentAlias' = Moved(sentAlias, seen.published.alias, NoAlias, t)
    /\ history' = [history EXCEPT ![t] = missed]
    /\ UNCHANGED versionId

Missed(t) == {{}} \cup {{v} : v \in Newest(history[t], 1)}

----------------------------------------------------------------------------
(* Requests.                                                                *)

Fresh(a, b) == [id |-> versionId + 1, alias |-> a, body |-> b]
CanDraft == versionId < MaxVersion

Stored == <<tmpl, draftAlias, sentAlias, history, versionId>>
Ends(c) == clientCall' = [clientCall EXCEPT ![c] = Idle]

\* The identifier is an id, or an alias that is looked up first.
Requested(c, op, t, a, expect) ==
    clientCall' = [clientCall EXCEPT ![c] =
      [op |-> op, step |-> IF t = NoTemplate THEN "resolve" ELSE "load", target |-> t,
       alias |-> a, seen |-> NoRecord, expect |-> expect]]

\* POST /templates.
Create(c, t, a, b) ==
    /\ c # "push" /\ clientCall[c] = Idle /\ CanDraft
    /\ ValidVersion(Fresh(a, b))
    /\ CreateTemplate(t, Fresh(a, b))
    /\ UNCHANGED <<clientCall, released>>

\* A client sends any other request; If-Match names a draft it has read.  The
\* instance uses ids for edits and aliases for sends, as the command line's
\* requests are by alias already.
Request(c, op, t, a, expect) ==
    /\ c # "push" /\ clientCall[c] = Idle
    /\ IF op = "send" THEN t = NoTemplate /\ a # NoAlias ELSE t # NoTemplate /\ a = NoAlias
    /\ op \in {"update", "publish", "restore", "duplicate", "delete", "send"}
    /\ op = "restore" => expect # 0
    /\ op \notin {"publish", "restore"} => expect = 0
    /\ expect # 0 => \E u \in TemplateIds : Live(u) /\ expect = tmpl[u].draft.id
    /\ Requested(c, op, t, a, expect)
    /\ UNCHANGED <<Stored, released>>

\* getTemplate resolves drafts, getPublishedTemplate what was published.
ResolveAlias(c) ==
    LET table == IF clientCall[c].op = "send" THEN sentAlias ELSE draftAlias
        t     == table[clientCall[c].alias]
    IN  /\ clientCall[c].step = "resolve"
        /\ clientCall' = [clientCall EXCEPT ![c].target = t,
                                ![c].step = IF t # NoTemplate THEN "load"
                                            ELSE IF clientCall[c].op = "send" THEN "legacy"
                                            ELSE "absent"]
        /\ UNCHANGED <<Stored, released>>

\* A send falls back to the draft's alias, for a template that was never
\* published or was published under this alias.
ResolveLegacy(c) ==
    LET t == draftAlias[clientCall[c].alias]
    IN  /\ clientCall[c].step = "legacy"
        /\ IF t # NoTemplate /\ tmpl[t].published.alias \in {NoAlias, clientCall[c].alias}
           THEN clientCall' = [clientCall EXCEPT ![c].target = t, ![c].step = "load"]
           ELSE Ends(c)
        /\ UNCHANGED <<Stored, released>>

\* The record is read; a client, other than the command line, gets a 404.
LoadRecord(c) ==
    /\ clientCall[c].step = "load"
    /\ LET t == clientCall[c].target
       IN  clientCall' = [clientCall EXCEPT ![c] =
             IF Live(t) THEN [@ EXCEPT !.seen = tmpl[t], !.step = "act"]
             ELSE [@ EXCEPT !.step = "absent"]]
    /\ UNCHANGED <<Stored, released>>

NotFound(c) ==
    /\ clientCall[c].step = "absent" /\ clientCall[c].op # "plan"
    /\ Ends(c)
    /\ UNCHANGED <<Stored, released>>

Acts(c, op) == clientCall[c].op = op /\ clientCall[c].step = "act"

\* update: the fields that are given replace those of the draft that was read.
Update(c, a, b) ==
    LET seen == clientCall[c].seen  draft == Fresh(a, b)
    IN  /\ Acts(c, "update") /\ CanDraft
        /\ ValidVersion(draft)
        /\ a = seen.draft.alias \/ b = seen.draft.body
        /\ ReplaceTemplate(clientCall[c].target, seen, draft)
        /\ Ends(c) /\ UNCHANGED released

\* Mutant: whatever is the draft by now is published.
Reviewed_Any(seen, expect) == TRUE

\* publish: the draft that was read must be the one the client reviewed; a
\* draft that is published already is acknowledged as it is.
Reviewed(seen, expect) == expect # 0 => seen.draft.id = expect

Publish(c) ==
    LET seen == clientCall[c].seen
    IN  /\ clientCall[c].op \in {"publish", "release"} /\ clientCall[c].step = "act"
        /\ Reviewed(seen, clientCall[c].expect)
        /\ IF seen.published.id = seen.draft.id THEN UNCHANGED Stored
           ELSE \E missed \in Missed(clientCall[c].target) :
                  PublishTemplate(clientCall[c].target, seen, missed)
        /\ released' = IF c # "push" THEN released
                       ELSE IF MatchesManifest(seen.draft) THEN "manifest" ELSE "other"
        /\ Ends(c)

\* restoreVersion: a copy of a publication becomes the draft.
Restore(c, v) ==
    LET seen == clientCall[c].seen
    IN  /\ Acts(c, "restore") /\ CanDraft
        /\ Reviewed(seen, clientCall[c].expect)
        /\ v \in history[clientCall[c].target]
        /\ ReplaceTemplate(clientCall[c].target, seen, Fresh(v.alias, v.body))
        /\ Ends(c) /\ UNCHANGED released

\* duplicate: the copy has no alias.
Duplicate(c, t) ==
    /\ Acts(c, "duplicate") /\ CanDraft
    /\ CreateTemplate(t, Fresh(NoAlias, clientCall[c].seen.draft.body))
    /\ Ends(c) /\ UNCHANGED released

Delete(c) ==
    /\ Acts(c, "delete")
    /\ \E missed \in Missed(clientCall[c].target) :
         DeleteTemplate(clientCall[c].target, clientCall[c].seen, missed)
    /\ Ends(c) /\ UNCHANGED released

\* resolveForSend renders what is published.
Send(c, given) ==
    LET v == clientCall[c].seen.published
    IN  /\ Acts(c, "send") /\ v.id # 0 /\ Renders(v, given)
        /\ Ends(c) /\ UNCHANGED <<Stored, released>>

\* A request that changes nothing: refused by a validation, a precondition or
\* a conflict, or a reading of the draft, a version or a page of them.
Refused(c) ==
    /\ c # "push" /\ clientCall[c].step = "act"
    /\ Ends(c) /\ UNCHANGED <<Stored, released>>

----------------------------------------------------------------------------
(* hayasend templates push --publish: plan, create or update, review,       *)
(* publish.                                                                 *)

PushBegins(a) ==
    /\ clientCall["push"] = Idle
    /\ Requested("push", "plan", NoTemplate, a, 0)
    /\ UNCHANGED <<Stored, released>>

\* The plan finds no template of this alias.
PushCreates(t) ==
    LET p == clientCall["push"]
    IN  /\ p.op = "plan" /\ p.step = "absent" /\ CanDraft
        /\ CreateTemplate(t, Fresh(p.alias, "plain"))
        /\ Requested("push", "review", NoTemplate, p.alias, 0)
        /\ UNCHANGED released

\* The plan compares what it read with the manifest: an update first, only a
\* publication, or nothing.
PushPlans ==
    LET p == clientCall["push"]
    IN  /\ Acts("push", "plan")
        /\ IF ~MatchesManifest(p.seen.draft)
           THEN Requested("push", "patch", p.target, p.alias, 0)
           ELSE IF p.seen.published.id # p.seen.draft.id
           THEN Requested("push", "release", p.target, p.alias, p.seen.draft.id)
           ELSE Ends("push")
        /\ UNCHANGED <<Stored, released>>

PushUpdates ==
    LET p == clientCall["push"]
    IN  /\ Acts("push", "patch") /\ CanDraft
        /\ ReplaceTemplate(p.target, p.seen, Fresh(p.alias, "plain"))
        /\ Requested("push", "review", NoTemplate, p.alias, 0)
        /\ UNCHANGED released

\* The template of the alias is read again and compared before its version is
\* published under If-Match.
PushReviews ==
    LET p == clientCall["push"]
    IN  /\ Acts("push", "review") /\ MatchesManifest(p.seen.draft)
        /\ Requested("push", "release", p.target, p.alias, p.seen.draft.id)
        /\ UNCHANGED <<Stored, released>>

\* Any request of the command line fails, or it was run without --publish.
PushStops ==
    /\ clientCall["push"] # Idle /\ Ends("push")
    /\ UNCHANGED <<Stored, released>>

TmNext ==
    \/ \E c \in TemplateClients :
         \/ \E t \in TemplateIds, a \in Aliases \cup {NoAlias}, b \in Bodies : Create(c, t, a, b)
         \/ \E op \in {"update", "publish", "restore", "duplicate", "delete", "send"},
               t \in TemplateIds \cup {NoTemplate}, a \in Aliases \cup {NoAlias},
               expect \in 0..MaxVersion : Request(c, op, t, a, expect)
         \/ ResolveAlias(c)
         \/ ResolveLegacy(c)
         \/ LoadRecord(c)
         \/ NotFound(c)
         \/ \E a \in Aliases \cup {NoAlias}, b \in Bodies : Update(c, a, b)
         \/ Publish(c)
         \/ \E t \in TemplateIds : \E v \in history[t] : Restore(c, v)
         \/ \E t \in TemplateIds : Duplicate(c, t)
         \/ Delete(c)
         \/ \E given \in BOOLEAN : Send(c, given)
         \/ Refused(c)
    \/ \E a \in Aliases : PushBegins(a)
    \/ \E t \in TemplateIds : PushCreates(t)
    \/ PushPlans
    \/ PushUpdates
    \/ PushReviews
    \/ PushStops

TmSpec == TmInit /\ [][TmNext]_tmVars

----------------------------------------------------------------------------
(* Properties.                                                              *)

(* An alias leads to the template whose draft, or whose published version,  *)
(* carries it, and to no other: the alias tables of every store agree with  *)
(* the records, whatever requests interleave between a read of a record and *)
(* the transaction that moves its aliases.                                  *)
AliasesAgree ==
    \A a \in Aliases, t \in TemplateIds :
      /\ draftAlias[a] = t <=> Live(t) /\ tmpl[t].draft.alias = a
      /\ sentAlias[a] = t <=> Live(t) /\ tmpl[t].published.alias = a

(* What `hayasend templates push --publish` publishes is what the manifest  *)
(* says, even when other clients edit, restore, delete or rename the        *)
(* template between its plan, its update, its review and its publication.   *)
PushPublishesManifest == released # "other"
=============================================================================
