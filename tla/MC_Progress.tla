---------------------------- MODULE MC_Progress ----------------------------
(* Parts in which something must come to an end: delegations and their       *)
(* recall, the backchannel that carries recalls, and the group commit of a   *)
(* journal shard.  Each is explored under workloads of its own, which also   *)
(* name the clients, connections and sessions taking part.                   *)
EXTENDS Delegations, Backchannel, GroupCommit

CONSTANTS c1, c2, c3

MCCommits == {c1, c2, c3}

DelegLoads == {{"deleg", "c1", "smb", "read", "write", "lease"},
               {"deleg", "c1", "c2", "read", "expire"},
               {"deleg", "c1", "c2", "write"}, {"deleg", "c1", "expire", "write"}}
BackLoads == {{"back", "purge", "limit", "k1", "k2", "t1", "s1", "s2"},
              {"back", "send", "k1", "k2", "t1", "s1"},
              {"back", "send", "lose", "purge", "k1", "t1", "s1"},
              {"back", "purge", "k1", "t1", "t2", "s1"}}
MCWorkloads == DelegLoads \cup BackLoads \cup {{"commit"}}

MCVars == <<delegVars, backVars, vars, work>>

MCInit == work \in Workloads /\ DelegInit /\ BackInit /\ Init

MCNext ==
    /\ \/ Does("deleg") /\ DelegNext /\ UNCHANGED <<backVars, vars>>
       \/ Does("back") /\ BackNext /\ UNCHANGED <<delegVars, vars>>
       \/ Does("commit") /\ Next /\ UNCHANGED <<delegVars, backVars>>
    /\ UNCHANGED work

MCSpec == /\ MCInit /\ [][MCNext]_MCVars
          /\ DelegFairness /\ BackFairness
          /\ \A c \in Commits : WF_vars(Does("commit") /\ Commit(c))

\* The redundant state of delegations and of the backchannel agrees: the per-file index
\* lists the delegations in force and the counter counts the revoked ones ("The index can
\* never drift", delegation.go), the lock manager's copy follows it, and no session lists
\* more connections than its limit.
CallbacksWellFormed ==
    /\ DelegTypeOK /\ DelegIndexesAgree /\ LmFollows
    /\ BackTypeOK /\ ConnectionLimit
    /\ TypeOK

\* A recall comes to an end for both protocols: the delegation is returned or revoked, and
\* an SMB open that waits for it is woken (delegation.go sendRecall, RevokeDelegation).
RecallsComplete == RecallEnds /\ BreakEnds

\* What a session leaves behind goes away: bindings that outlived it are swept, and its
\* sender goroutine exits (manager.go:2872-2885, backchannel.go Run).
SessionsSettle == OrphansSwept /\ StoppedSendersEnd
=============================================================================
