---------------------------- MODULE MC_NfsState ----------------------------
(* Who the clients of the NFSv4 server are and what they hold: the clients   *)
(* and sessions of NFSv4.1 with the slots of their fore channels, the        *)
(* clients of NFSv4.0 with their leases and recovery, and the opens and      *)
(* byte-range locks with the seqids of their owners.  Each is explored under *)
(* workloads of its own, which also name the clients and owners taking part. *)
EXTENDS V41Clients, ClientState, OpenState, TLC

\* Two clients: the third open- and lock-owner belong to the second.
MCClient ==
    [n \in OpenOwners \cup LockOwners |-> IF n \in {"o3", "l3"} THEN "c2" ELSE "c1"]

SessionLoads == {{"v41", "reuse", "drain"}, {"v41", "reboot"}, {"v41", "expire"},
                 {"v41", "destroy", "evict"}}
ClientLoads == {{"v40", "n1", "n2", "restart", "reboot"}, {"v40", "n1", "n2", "restart", "evict"},
                {"v40", "n1", "reset", "reboot", "evict"}, {"v40", "n1", "lease", "reset"},
                {"v40", "n1", "lease", "evict"}}
OpenLoads == {{"open", "share", "v41ops", "o1", "o2"}, {"open", "share", "o1"},
              {"open", "o1", "o2"}, {"open", "lock", "expire", "o1", "l1"},
              {"open", "lock", "v41ops", "o1", "o2", "l1", "l2"},
              {"open", "lock", "expire", "v41ops", "o1", "l1", "o3", "l3"}}
MCWorkloads == SessionLoads \cup ClientLoads \cup OpenLoads

\* One open-owner, whose CLOSE is sent twice.
CloseLoads == {{"open", "o1"}}

MCVars == <<channelVars, v41Vars, v40Vars, openStateVars, work>>

MCInit == work \in Workloads /\ V41Init /\ ClientInit /\ OpenInit

MCNext ==
    /\ \/ Does("v41") /\ V41Next /\ UNCHANGED <<v40Vars, openStateVars>>
       \/ Does("v40") /\ ClientNext40 /\ UNCHANGED <<channelVars, v41Vars, openStateVars>>
       \/ Does("open") /\ OpenNext /\ UNCHANGED <<channelVars, v41Vars, v40Vars>>
    /\ UNCHANGED work

MCSpec == MCInit /\ [][MCNext]_MCVars

\* The tables that the state manager keeps in step by hand agree after any mix of reboots,
\* expiries, evictions, destroys and retransmissions: a slot is in use exactly while one
\* goroutine serves it; clients are found by id, by owner and in the durable store alike;
\* opens are found by stateid, by file and by owner alike; and no byte-range lock outlives
\* the state that can release it.
NfsWellFormed ==
    /\ SlotTypeOK /\ SlotHeld
    /\ V41TypeOK /\ TablesAgree /\ RecoveryCurrent
    /\ ClientTypeOK /\ IdentityAgrees
    /\ OpenTypeOK /\ OpenIndexesAgree /\ LocksAnchored

\* Goroutines and session ids are interchangeable.
MCSymmetry == Permutations(Threads) \cup Permutations(Sessions)
=============================================================================
