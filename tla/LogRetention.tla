---------------------------- MODULE LogRetention ----------------------------
(* The custom resource of src/aws/log-retention.ts: it puts the retention   *)
(* of the deployment on the log groups earlier versions left without one,   *)
(* undoes what it did when a group fails, and answers CloudFormation.       *)
(* Lambda invokes the handler again when it throws.  CloudWatch Logs, the   *)
(* response bucket and Lambda's retries are external.                       *)
EXTENDS Naturals, Sequences

CONSTANTS Groups,         \* the log groups, in order
          MaxInvocations  \* the first and Lambda's retries

\* parseLogRetentionProperties refuses an empty list of groups.
ASSUME GroupsAreListed ==
    Groups \in Seq(STRING) /\ Groups # <<>> /\ MaxInvocations \in Nat \ {0}

GroupSet == {Groups[i] : i \in 1 .. Len(Groups)}
Desired == "new"

VARIABLES retention,  \* log group -> its policy: "missing" stands for no group
          handler     \* the invocation that runs

lrVars == <<retention, handler>>

IdleHandler == [pc |-> "idle", request |-> "none", i |-> 0, attempt |-> 0,
                found |-> <<>>, changed |-> <<>>, doubt |-> {}, undoFailed |-> {},
                status |-> "none", invocation |-> 0]

LrInit ==
    /\ retention \in [GroupSet -> {"missing", "none", "old", Desired}]
    /\ handler = IdleHandler

\* The event of CloudFormation, or Lambda's retry of an invocation that threw.
Invoke(request) ==
    /\ \/ handler.pc = "idle"
       \/ /\ handler.pc = "thrown" /\ handler.invocation < MaxInvocations
          /\ request = handler.request
    /\ handler' = [IdleHandler EXCEPT
         !.request = request, !.invocation = handler.invocation + 1,
         !.found = retention, !.i = 1,
         !.pc = IF request = "Delete" THEN "deleteGroup" ELSE "describe"]
    /\ UNCHANGED retention

\* parseLogRetentionProperties refuses what the template would not send.
RefuseProperties ==
    /\ handler.pc = "describe" /\ handler.i = 1 /\ handler.attempt = 0
    /\ handler' = [handler EXCEPT !.pc = "respond", !.status = "FAILED"]
    /\ UNCHANGED retention

----------------------------------------------------------------------------
(* retry: three attempts, the next one only after a retryable error.        *)

Retries(retryable) == retryable /\ handler.attempt < 2

Again == [handler EXCEPT !.attempt = @ + 1]

\* The group in hand is done: the next one, or the answer.
NextGroup(h) ==
    [h EXCEPT !.i = @ + 1, !.attempt = 0,
              !.pc = IF h.i = Len(Groups) THEN "respond" ELSE "describe",
              !.status = IF h.i = Len(Groups) THEN "SUCCESS" ELSE @]

\* Mutant: what was changed before the failure is left as it is.
Unwind_Answers(h) == [h EXCEPT !.attempt = 0, !.status = "FAILED", !.pc = "respond"]

\* The catch of applyLegacyLogRetention: undo in reverse order, then answer.
Unwind(h) ==
    [h EXCEPT !.attempt = 0, !.status = "FAILED",
              !.pc = IF h.changed = <<>> THEN "respond" ELSE "undo"]

Describe ==
    LET g == Groups[handler.i] IN
    /\ handler.pc = "describe"
    /\ \/ handler' = IF retention[g] \in {"missing", Desired}
                     THEN NextGroup(handler)
                     ELSE [handler EXCEPT !.pc = "put", !.attempt = 0]
       \/ \E retryable \in BOOLEAN :
            handler' = IF Retries(retryable) THEN Again ELSE Unwind(handler)
    /\ UNCHANGED retention

\* put, which may fail before or after CloudWatch Logs has taken it.
Put ==
    LET g == Groups[handler.i]
        noted == [handler EXCEPT !.changed = Append(@, g)] IN
    /\ handler.pc = "put"
    /\ \/ /\ retention' = [retention EXCEPT ![g] = Desired]
          /\ handler' = NextGroup(noted)
       \/ \E retryable, effective \in BOOLEAN :
            /\ retention' = IF effective THEN [retention EXCEPT ![g] = Desired]
                            ELSE retention
            /\ handler' = IF Retries(retryable) THEN Again
                          ELSE [Unwind(handler) EXCEPT !.doubt = {g}]

\* The last of the changed groups gets its policy back, or none if it had none.
Undo ==
    LET n == Len(handler.changed)
        g == handler.changed[n]
        popped == [handler EXCEPT !.changed = SubSeq(@, 1, n - 1), !.attempt = 0,
                     !.pc = IF n = 1 THEN "respond" ELSE "undo"] IN
    /\ handler.pc = "undo"
    /\ \/ /\ retention' = [retention EXCEPT ![g] = handler.found[g]]
          /\ handler' = popped
       \/ \E retryable \in BOOLEAN :
            /\ handler' = IF Retries(retryable) THEN Again
                          ELSE [popped EXCEPT !.undoFailed = @ \cup {g}]
            /\ UNCHANGED retention

\* Delete keeps the legacy groups and removes the provider's own, whose absence
\* is no error.
DeleteProviderLogGroup ==
    /\ handler.pc = "deleteGroup"
    /\ \/ handler' = [handler EXCEPT !.pc = "respond", !.status = "SUCCESS", !.attempt = 0]
       \/ \E retryable \in BOOLEAN :
            handler' = IF Retries(retryable) THEN Again
                       ELSE [handler EXCEPT !.pc = "respond", !.status = "FAILED",
                                            !.attempt = 0]
    /\ UNCHANGED retention

\* sendCloudFormationResponse: three attempts; a client error throws at once.
Respond ==
    /\ handler.pc = "respond"
    /\ \/ handler' = [handler EXCEPT !.pc = "answered"]
       \/ \E transient \in BOOLEAN :
            handler' = IF Retries(transient) THEN Again
                       ELSE [handler EXCEPT !.pc = "thrown"]
    /\ UNCHANGED retention

LrNext ==
    \/ \E request \in {"Create", "Update", "Delete"} : Invoke(request)
    \/ RefuseProperties
    \/ Describe
    \/ Put
    \/ Undo
    \/ DeleteProviderLogGroup
    \/ Respond

LrSpec == LrInit /\ [][LrNext]_lrVars

----------------------------------------------------------------------------

\* An invocation that answers FAILED has put back every policy it changed: a
\* group differs from what the invocation found only when its own put was in
\* doubt or its restoration failed too, whichever group failed, at whichever
\* attempt, and whatever an earlier invocation had done.
FailedRestores ==
    handler.pc \in {"respond", "answered", "thrown"} /\ handler.status = "FAILED"
        => \A g \in GroupSet : \/ retention[g] = handler.found[g]
                               \/ g \in handler.doubt \cup handler.undoFailed
=============================================================================
