------------------------------ MODULE LoginNodes ------------------------------
(***************************************************************************)
(* The login node of the cluster and its recorded address: what cluster    *)
(* creation makes of them, PCS replacing an instance, EC2 events and their *)
(* handler (login_node_event.py), the hourly refresh                       *)
(* (login_node_refresh.py), and the commands SSM runs on the node          *)
(* (posix_provisioning.py).                                                *)
(***************************************************************************)
EXTENDS AccessState

\* generate_user_data_script writes the members of that moment into the launch
\* template, none of them if the read fails; clusters are offered in ACTIVE
\* projects.  One cluster in a behaviour.
LaunchCluster ==
    /\ cluster = "none" /\ project = "ACTIVE"
    /\ cluster' = "CREATING"
    /\ script' \in {{u \in Users : member[u].kind = "member"}}
                       \cup (IF Trouble("read") THEN {{}} ELSE {})
    /\ UNCHANGED <<project, directory, reqs, node, up, account, locator, channel, sweep>>

\* PCS boots an instance, which runs the script and sends its event.
BootNode ==
    /\ cluster \in {"CREATING", "ACTIVE"} /\ ~up
    /\ node + 1 \in Nodes
    /\ node' = node + 1 /\ up' = TRUE
    /\ account' = [u \in Users |-> IF u \in script THEN "open" ELSE "none"]
    /\ events' = events \cup {node + 1}
    /\ UNCHANGED <<project, directory, reqs, cluster, script, address, writes, channel, sweep>>

\* An instance ends, with its accounts and the commands sent to it.
Stop ==
    /\ up' = FALSE
    /\ account' = [u \in Users |-> "none"]
    /\ commands' = {}

LoseNode ==
    /\ up /\ node + 1 \in Nodes
    /\ Stop
    /\ UNCHANGED <<project, directory, reqs, cluster, script, node, locator, sweep, calm>>

\* A creation that fails is rolled back.
FailCluster ==
    /\ cluster = "CREATING"
    /\ cluster' = "FAILED"
    /\ Stop
    /\ UNCHANGED <<project, directory, reqs, script, node, locator, calm, sweep>>

\* resolve_login_node_details fails without a running instance; the record
\* that makes the cluster ACTIVE holds the one it found.
ClusterActive ==
    /\ cluster = "CREATING" /\ up
    /\ cluster' = "ACTIVE" /\ address' = node
    /\ UNCHANGED <<project, directory, reqs, script, node, up, account, events, writes,
                   channel, sweep>>

DestroyCluster ==
    /\ cluster \in {"ACTIVE", "FAILED"}
    /\ cluster' = "DESTROYED"
    /\ Stop
    /\ UNCHANGED <<project, directory, reqs, script, node, locator, sweep, calm>>

\* The event handler looks for an ACTIVE record of the instance's node group
\* and compares its address; an error is logged and the event is gone.
HandleEvent(n) ==
    /\ n \in events
    /\ events' = events \ {n}
    /\ \/ writes' = IF cluster = "ACTIVE" /\ address # n THEN writes \cup {n} ELSE writes
       \/ "event" \in Faults /\ UNCHANGED writes
    /\ UNCHANGED <<project, directory, reqs, machine, address, channel, sweep>>

\* Mutant of RefreshAddress: only an empty address is filled.
FillAddress ==
    /\ cluster = "ACTIVE" /\ up /\ address = 0
    /\ writes' = writes \cup {node}
    /\ UNCHANGED <<project, directory, reqs, machine, address, events, channel, sweep>>

\* The refresh finds the instance that runs and compares.
RefreshAddress ==
    /\ cluster = "ACTIVE" /\ up /\ address # node
    /\ writes' = writes \cup {node}
    /\ UNCHANGED <<project, directory, reqs, machine, address, events, channel, sweep>>

\* The update_item of both: unconditional, whatever has been written since; an
\* error is logged.
WriteAddress(n) ==
    /\ n \in writes
    /\ writes' = writes \ {n}
    /\ \/ address' = n
       \/ Trouble("event") /\ UNCHANGED address
    /\ UNCHANGED <<project, directory, reqs, machine, events, channel, sweep>>

\* What a command makes of an account.  generate_user_creation_commands skips
\* a user that exists, a locked one included; usermod fails without a user.
Outcome(kind, a) ==
    CASE kind = "create" /\ a = "none" -> "open"
      [] kind = "lock" /\ a = "open"   -> "locked"
      [] OTHER                         -> a

\* SSM runs commands in any order.
RunCommand(u, kind) ==
    /\ <<u, kind>> \in commands
    /\ commands' = commands \ {<<u, kind>>}
    /\ account' = [account EXCEPT ![u] = Outcome(kind, @)]
    /\ UNCHANGED <<project, directory, reqs, cluster, script, node, up, locator, sweep, calm>>

NodeNext ==
    \/ LaunchCluster \/ BootNode \/ LoseNode \/ ClusterActive \/ FailCluster \/ DestroyCluster
    \/ RefreshAddress
    \/ \E n \in Nodes : HandleEvent(n) \/ WriteAddress(n)
    \/ \E u \in Users, kind \in {"create", "lock"} : RunCommand(u, kind)
=============================================================================
