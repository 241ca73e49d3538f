------------------------------- MODULE MC_Smb -------------------------------
(* What an SMB2 client holds besides byte-range locks: the leases of a file  *)
(* and the credits of a connection.                                          *)
EXTENDS Leases, SequenceWindow

CONSTANTS t1, t2

MCOpeners == {t1, t2}

LeaseLoads == {{"lease", "k1", "k2", "upgrade", "write"},
               {"lease", "k1", "o1", "open", "write", "read", "sharing", "stat"},
               {"lease", "k1", "k2", "restart", "open"}}
CreditLoads == {{"credits", "compound"}, {"credits", "lose", "compound"},
                {"credits", "async", "compound"}, {"credits", "stray"}}
MCWorkloads == LeaseLoads \cup CreditLoads

\* A write breaks a lease that a restart then restores.
RestartLoads == {{"lease", "k1", "k2", "restart", "open", "write"}}

MCVars == <<leaseVars, sequenceVars, work>>

MCInit == /\ LeaseInit /\ WindowInit
          /\ Does("credits") \/ nextId = 0

MCNext ==
    /\ \/ Does("lease") /\ LeaseNext /\ UNCHANGED sequenceVars
       \/ Does("credits") /\ WindowNext /\ UNCHANGED leaseVars
    /\ UNCHANGED work

MCSpec == MCInit /\ [][MCNext]_MCVars

\* Leases and credits stay within bounds: a lease being broken has been asked to give up
\* something and no more than was demanded, and the sequence window stays within the
\* credit limit.
SmbWellFormed == LeaseTypeOK /\ StagesNarrow /\ WindowTypeOK
=============================================================================
