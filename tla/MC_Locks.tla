------------------------------ MODULE MC_Locks ------------------------------
(* The lock table under arbitrary calls and under the protocols above it.    *)
EXTENDS LockService

CONSTANTS s1, s2, n1, n2, v1

MCTop == 3
\* An NFSv4 owner has another name after a reboot; no workload combines the two,
\* and it keeps one name.
MCV4Names == <<v1, v1>>
MCClientOf == (s1 :> "cs1" @@ s2 :> "cs2" @@ n1 :> "cn1" @@ n2 :> "cn2"
                 @@ v1 :> "cv1")
Rng(off, len) == [off |-> off, len |-> len]
MCSmbRanges == {Rng(0, 2), Rng(1, 0)}
MCUniRanges == {Rng(0, 0), Rng(0, 3), Rng(1, 1)}

MCAsk ==
  LET ask(off, len, ex) == [off |-> off, len |-> len, ex |-> ex] IN
  (s1 :> ask(1, 1, TRUE) @@ s2 :> ask(2, 1, FALSE) @@ n1 :> ask(0, 2, TRUE)
     @@ n2 :> ask(0, 0, TRUE)
     @@ v1 :> ask(0, 0, TRUE))

MCMaxTries == (n1 :> 1 @@ n2 :> 2)

MCWorkloads == {{"smb", "unified", "release", "restart"}, {"smb", "sweep", "fail"},
                {"nlm", "block", "cancel"}, {"nlm", "block", "crash"},
                {"nlm", "block", "open", "v4"}, {"nlm", "crash", "open", "reboot"}}

\* The goroutines are interchangeable.
PassSymmetry == Permutations(Passes)

MCVars == <<lockVars, serviceVars, work>>

MCNext ==
    /\ \/ LockNext(NlmOwners) /\ UNCHANGED serviceVars
       \/ ServiceNext
    /\ UNCHANGED work

MCSpec == ServiceInit /\ [][MCNext]_MCVars

\* The redundant state of locking agrees: the persisted records are the locks held, one
\* record each, and the bounded queue of blocked requests and its passes are well typed.
LocksWellFormed == LockTypeOK /\ ServiceTypeOK /\ Recorded
=============================================================================
