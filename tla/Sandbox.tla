------------------------------ MODULE Sandbox ------------------------------
(* sandbox/docker_provider.py: the containers the Docker daemon keeps, each  *)
(* labelled with the task and the attempt it was started for.  They outlive  *)
(* the worker that started them.                                             *)
EXTENDS Models

VARIABLES
    containers,   \* the <<task, attempt>> labels of the containers
    refused       \* those the daemon has refused to remove so far

sandboxVars == <<containers, refused>>

Attempt == 1 .. MaxAttempts
Label == TaskId \X Attempt

SandboxTypeOK == containers \subseteq Label /\ refused \subseteq containers

SandboxInit == containers = {} /\ refused = {}

Start(t, a) ==
    /\ containers' = containers \cup {<<t, a>>}
    /\ UNCHANGED refused

(* What remove_for_task and gc list, before they remove it one by one.       *)
Labelled(t) == {c \in containers : c[1] = t}
Orphans(active) == {c \in containers : c[1] \notin active}

(* remove(force=True); a container that is gone already is no error.         *)
Remove(c) ==
    /\ containers' = containers \ {c}
    /\ refused' = refused \ {c}

(* The daemon answers with an APIError, which gc, remove_for_task and destroy *)
(* swallow: the container stays, and the caller goes on as if it were gone.  *)
RemoveRefused(c) ==
    /\ c \in containers
    /\ refused' = refused \cup {c}
    /\ UNCHANGED containers
=============================================================================
