---------------------------- MODULE Reconciliation ----------------------------
(***************************************************************************)
(* The daily reconciliation, posix_reconciliation.py: the audit of the     *)
(* accounts on the login node against the membership records, and then the *)
(* retry of the members that are marked.                                   *)
(***************************************************************************)
EXTENDS AccessState

Recorded == {u \in Users : member[u].kind = "member"}
Marked   == {u \in Recorded : member[u].mark # "none"}

\* What a read returns of a set: an error makes it shorter, not a failure.
Read(set) == {set} \cup (IF Trouble("read") THEN SUBSET set ELSE {})

\* Phase 2 begins with a scan for the marks; it ends when none is left.
Retry(todo) == IF todo = {} THEN NoSweep
               ELSE [NoSweep EXCEPT !.pc = "retry", !.todo = todo]

\* The ACTIVE clusters with their addresses, and the members of their project;
\* members whose read fails are missing from the list.
StartSweep ==
    /\ sweep.pc = "idle"
    /\ \/ /\ cluster = "ACTIVE"
          /\ \E ms \in Read(Recorded) : sweep' = [NoSweep EXCEPT !.pc = "audit", !.members = ms, !.at = address]
       \/ /\ cluster # "ACTIVE" \/ Trouble("read")
          /\ \E found \in Read(Marked) : sweep' = Retry(found)
    /\ UNCHANGED <<project, directory, reqs, machine, locator, channel>>

Known == {u \in Users : account[u] # "none"}

\* Mutant of AuditCommands: the accounts of non-members are left alone.
CreateOnly(ms) == {<<u, "create">> : u \in ms \ Known}

\* Mutant of AuditCommands: missing accounts are left to the propagation.
LockOnly(ms) == {<<u, "lock">> : u \in Known \ ms}

\* Missing accounts are created, those of non-members locked.  A locked account
\* is neither missing nor, for a member, looked at again.
AuditCommands(ms) ==
    {<<u, "create">> : u \in ms \ Known} \cup {<<u, "lock">> : u \in Known \ ms}

\* Mutant of Audit: the audit ends the run.
AuditOnly ==
    /\ sweep.pc = "audit"
    /\ commands' = commands \cup (IF Running(sweep.at) THEN AuditCommands(sweep.members) ELSE {})
    /\ sweep' = NoSweep
    /\ UNCHANGED <<project, directory, reqs, machine, locator, calm>>

\* The accounts are listed by a command on the node, and the commands follow.
Audit ==
    /\ sweep.pc = "audit"
    /\ \/ /\ Running(sweep.at)
          /\ commands' = commands \cup AuditCommands(sweep.members)
       \/ /\ Running(sweep.at) /\ Trouble("ssm")
          /\ \E some \in SUBSET AuditCommands(sweep.members) : commands' = commands \cup some
       \/ ~Running(sweep.at) /\ UNCHANGED commands
    /\ \E found \in Read(Marked) : sweep' = Retry(found)
    /\ UNCHANGED <<project, directory, reqs, machine, locator, calm>>

\* _retry_propagation for one of the users found.
RetryMember(u) ==
    /\ sweep.pc = "retry" /\ u \in sweep.todo
    /\ \E p \in Propagations(u) :
          /\ commands' = commands \cup p.cmds
          /\ sweep' = IF p.ok THEN [sweep EXCEPT !.pc = "clear", !.user = u]
                              ELSE Retry(sweep.todo \ {u})
    /\ UNCHANGED <<project, directory, reqs, machine, locator, calm>>

\* _clear_propagation_status takes the mark off, whichever of the two it is; an
\* error is logged.
ClearMark ==
    /\ sweep.pc = "clear"
    /\ \E m \in Unmarked(member[sweep.user])
                \cup (IF Trouble("read") THEN {member[sweep.user]} ELSE {}) :
          member' = [member EXCEPT ![sweep.user] = m]
    /\ sweep' = Retry(sweep.todo \ {sweep.user})
    /\ UNCHANGED <<project, groups, spoiled, reqs, machine, locator, channel>>

SweepNext == StartSweep \/ Audit \/ ClearMark \/ \E u \in Users : RetryMember(u)
=============================================================================
