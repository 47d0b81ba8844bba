------------------------------ MODULE Cluster -------------------------------
(***************************************************************************)
(* The executor's hands, app/executor/k8s.py: how an action of a plan      *)
(* becomes a patch of a Deployment, while the executors of other incidents *)
(* and the people who release do the same to it.                           *)
(*                                                                         *)
(* External, as k8s.py uses it: the API server, which answers a read,      *)
(* takes a patch whose resourceVersion test holds and refuses another, and *)
(* the Deployment controller, which gives the ReplicaSet of the template   *)
(* in service the next revision number, reusing the ReplicaSet if there is *)
(* one.  A pod template is told apart by its release and by its restarts.  *)
(***************************************************************************)
EXTENDS Naturals, FiniteSets, FiniteSetsExt

CONSTANTS
    Executors,     \* execute jobs at work on the Deployment, of several incidents
    MaxRevision,   \* bound: revisions the controller numbers
    MaxReleases,   \* bound: releases after the first
    Restarts       \* bound: values of the restartedAt annotation, 0 for none

ASSUME ClusterConstants ==
    /\ MaxRevision \in Nat \ {0} /\ MaxReleases \in Nat
    /\ 0 \in Restarts /\ Restarts \subseteq Nat

VARIABLES
    dep,        \* the Deployment: resourceVersion, revision, template, replicas
    sets,       \* its ReplicaSets: the revision of each template, 0 for none
    exec,       \* per executor: its action and how far it is
    undone      \* the releases rollbacks went away from since the last release

clusterVars == <<dep, sets, exec, undone>>

Releases == 0..MaxReleases
Templates == [release: Releases, restarted: Restarts]
Revisions == 0..MaxRevision

\* The catalogue's actions; to is to_revision, 0 when the plan leaves it out.
Actions ==
    [kind: {"undo"}, to: Revisions] \cup [kind: {"restart"}] \cup [kind: {"scale"}, n: 1..2]

\* What an executor has read: the Deployment, the ReplicaSets, and the target.
NoTemplate == [release |-> 0, restarted |-> 0]
FirstDep == [rv |-> 1, rev |-> 1, template |-> NoTemplate, replicas |-> 1]
NoPlan == [action |-> [kind |-> "none"], pc |-> "idle", dep |-> FirstDep, target |-> NoTemplate,
           status |-> "none"]

ClusterInit ==
    /\ dep = FirstDep
    /\ sets = [t \in Templates |-> IF t = NoTemplate THEN 1 ELSE 0]
    /\ exec = [e \in Executors |-> NoPlan]
    /\ undone = {}

-----------------------------------------------------------------------------
(* The cluster without the executors.                                      *)

Stored(d) == [d EXCEPT !.rv = @ + 1]

\* Somebody releases: kubectl apply of a template not seen before.
Release ==
    /\ dep.template.release < MaxReleases
    /\ \A t \in Templates : sets[t] > 0 => t.release <= dep.template.release
    /\ dep' = Stored([dep EXCEPT !.template = [release |-> @.release + 1, restarted |-> 0]])
    /\ undone' = {}
    /\ UNCHANGED <<sets, exec>>

\* The controller has not seen the template in service yet.
Behind == sets[dep.template] # dep.rev

Newest == Max({sets[t] : t \in Templates})

Sync ==
    /\ Behind
    /\ Newest < MaxRevision
    /\ sets' = [sets EXCEPT ![dep.template] = Newest + 1]
    /\ dep' = Stored([dep EXCEPT !.rev = Newest + 1])
    /\ UNCHANGED <<exec, undone>>

-----------------------------------------------------------------------------
(* DeploymentWriter.                                                       *)

\* _same_template: the restart annotation does not count.
SameTemplate(s, t) == s.release = t.release

Fail(e) == exec' = [exec EXCEPT ![e].status = "failed", ![e].pc = "done"]

\* An execute job comes to an action of its plan.
Picked(e) ==
    /\ exec[e].pc = "idle"
    /\ \E a \in Actions :
         exec' = [exec EXCEPT ![e].action = a, ![e].pc = "read", ![e].status = "started"]
    /\ UNCHANGED <<dep, sets, undone>>

\* prepare reads the Deployment; an undo then reads its ReplicaSets.
ReadDeployment(e) ==
    /\ exec[e].pc = "read"
    /\ exec' = [exec EXCEPT ![e].dep = dep,
                            ![e].pc = IF exec[e].action.kind = "undo" THEN "sets" ELSE "prepared"]
    /\ UNCHANGED <<dep, sets, undone>>

\* _undo: the revision asked for, or the last one before the current.
Earlier(current) == {sets[t] : t \in {u \in Templates : sets[u] > 0 /\ sets[u] < current}}

Target(a, current) == IF a.to # 0 THEN a.to ELSE IF Earlier(current) = {} THEN 0 ELSE Max(Earlier(current))

Undo(e) ==
    LET target == Target(exec[e].action, exec[e].dep.rev)
    IN  /\ exec[e].pc = "sets"
        /\ IF target = 0 \/ target = exec[e].dep.rev \/ \A t \in Templates : sets[t] # target
           THEN Fail(e)
           ELSE LET t == CHOOSE u \in Templates : sets[u] = target
                IN  exec' = IF SameTemplate(t, exec[e].dep.template)
                            THEN [exec EXCEPT ![e].pc = "done", ![e].status = "succeeded"]
                            ELSE [exec EXCEPT ![e].pc = "prepared", ![e].target = t]
        /\ UNCHANGED <<dep, sets, undone>>

\* The patch's operations after its test of the resourceVersion.
Patched(e) ==
    LET a == exec[e].action
    IN  CASE a.kind = "undo" -> [dep EXCEPT !.template = exec[e].target]
          [] a.kind = "scale" -> [dep EXCEPT !.replicas = a.n]
          [] OTHER -> [dep EXCEPT !.template.restarted = Max(Restarts)]

\* The test every patch starts with.
Guard_Slip(e) == TRUE
Guard(e) == dep.rv = exec[e].dep.rv

\* Scaled to what it has: nothing to send.
ScaleNoop(e) ==
    /\ exec[e].pc = "prepared" /\ exec[e].action.kind = "scale"
    /\ exec[e].dep.replicas = exec[e].action.n
    /\ exec' = [exec EXCEPT ![e].pc = "done", ![e].status = "succeeded"]
    /\ UNCHANGED <<dep, sets, undone>>

ToSend(e) == exec[e].action.kind = "scale" => exec[e].dep.replicas # exec[e].action.n

\* The dry run: the API server tests and stores nothing.
DryRun(e) ==
    /\ exec[e].pc = "prepared" /\ ToSend(e)
    /\ \/ Guard(e) /\ exec' = [exec EXCEPT ![e].pc = "send"]
       \/ Fail(e)
    /\ UNCHANGED <<dep, sets, undone>>

\* The patch lands; its answer arrives, the API server answers 5xx all the same
\* and the row is marked failed, or the connection breaks first.
Lands(e) ==
    /\ exec[e].pc = "send" /\ Guard(e)
    /\ dep' = Stored(Patched(e))
    /\ undone' = IF exec[e].action.kind = "undo" THEN undone \cup {dep.template.release} ELSE undone
    /\ \E status \in {"succeeded", "failed", "unknown"} :
         exec' = [exec EXCEPT ![e].pc = IF status = "succeeded" THEN "watch" ELSE "done",
                              ![e].status = status]
    /\ UNCHANGED sets

\* Refused (422 when the test fails, or any other error), or never delivered.
NotTaken(e) ==
    /\ exec[e].pc = "send"
    /\ \E status \in {"failed", "unknown"} :
         exec' = [exec EXCEPT ![e].pc = "done", ![e].status = status]
    /\ UNCHANGED <<dep, sets, undone>>

\* wait_rolled_out: rolled out, timed out, or not seen; the patch was applied.
Watched(e) ==
    /\ exec[e].pc = "watch"
    /\ exec' = [exec EXCEPT ![e].pc = "done"]
    /\ UNCHANGED <<dep, sets, undone>>

ClusterNext ==
    \/ Release
    \/ Sync
    \/ \E e \in Executors :
         \/ Picked(e) \/ ReadDeployment(e) \/ Undo(e) \/ ScaleNoop(e) \/ DryRun(e)
         \/ Lands(e) \/ NotTaken(e) \/ Watched(e)

ClusterSpec == ClusterInit /\ [][ClusterNext]_clusterVars

-----------------------------------------------------------------------------

\* The rollback that lands is the one that is right at that moment, not when it
\* was worked out: it goes one revision back from what is in service then, and
\* never away from a release or another rollback that came after the reads
\* (k8s.py:127, the resourceVersion test).
RollbackOfWhatIsThere ==
    [][\A e \in Executors :
         (exec[e].pc = "send" /\ dep'.template # dep.template /\ exec[e].action.kind = "undo"
          /\ exec[e].action.to = 0 /\ exec'[e] # exec[e])
         => sets[dep'.template] = Target(exec[e].action, dep.rev)]_clusterVars

\* A release that was rolled back stays rolled back until somebody releases
\* again: the executor of a second incident with the same plan "would find the
\* rollout already undone" (scripts/lab/remediate.py:104).
StaysUndone == dep.template.release \notin undone

=============================================================================
