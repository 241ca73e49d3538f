----------------------------- MODULE ClientState ----------------------------
(***************************************************************************)
(* NFSv4.0 client identity, leases and recovery (v4/state/manager.go,      *)
(* lease.go, grace.go, client_recovery.go): SETCLIENTID and its            *)
(* confirmation, RENEW, the lease timer, eviction, and what a restart of   *)
(* the server leaves of it: the durable recovery records, the grace period *)
(* and the reclaim of open files.                                          *)
(*                                                                         *)
(* A client is known by its nfs_client_id4 string; its verifier counts its *)
(* boots.  A record is named by the confirm verifier the server draws for  *)
(* it, and a new client id is the name of the record it was drawn for.     *)
(* Requests may be late copies from an earlier boot.  A reclaim is one     *)
(* step, share modes are not modelled (OpenState has them), every client   *)
(* keeps to one principal and the recovery store does not fail.            *)
(***************************************************************************)
EXTENDS Naturals, Workload

CONSTANTS Names, Files,
          MaxRecords,    \* bound on the SETCLIENTIDs served
          MaxBoot,       \* bound on the boots of a client
          LeaseTicks     \* the lease duration

VARIABLES rec, nextRec,          \* the ClientRecords, and the next one
          clientsByID, clientsByName, unconfirmedByName,    \* 0: no record
          confirmed,             \* records with Confirmed set
          lease,                 \* time since Lease.LastRenew; NoLease
          fired,                 \* records whose timer callback has started
          due,                   \* client ids onLeaseExpired is called for
          opens,                 \* <<record, file>>: open state
          recovery,              \* the durable recovery records
          bootVerifiers,         \* bootRecoveryVerifiers; 0: none
          grace,                 \* GracePeriodState
          boot,                  \* each client's current boot
          quiet,                 \* history: time since an id was confirmed or renewed
          prior                  \* history: the boot that was confirmed at the last restart

clientVars == <<rec, nextRec, clientsByID, clientsByName, unconfirmedByName, confirmed>>
timerVars == <<lease, fired, due>>
stableVars == <<recovery, bootVerifiers, grace>>
hostVars == <<boot, prior>>
v40Vars == <<clientVars, timerVars, opens, stableVars, hostVars, quiet>>

Records == 1..MaxRecords
IDs == Records
Boots == 1..MaxBoot
NoLease == LeaseTicks + 2       \* none, or stopped
Unset == [id |-> 0, name |-> "none", boot |-> 0]
NoRecovery == [boot |-> 0, complete |-> FALSE]
Grace(active, expected, reclaimed) ==
  [active |-> active, expected |-> expected, reclaimed |-> reclaimed]
NoGrace == Grace(FALSE, {}, {})

ASSUME ClientConstants ==
  /\ MaxRecords \in Nat /\ MaxBoot \in Nat \ {0} /\ LeaseTicks \in Nat \ {0}
  /\ "none" \notin Names

\* The memory of a server that has just started.
Forgotten ==
  [clientsByID |-> [i \in IDs |-> 0], byName |-> [n \in Names |-> 0],
   lease |-> [k \in Records |-> NoLease]]

ClientInit ==
  /\ rec = [k \in Records |-> Unset] /\ nextRec = 1
  /\ clientsByID = Forgotten.clientsByID
  /\ clientsByName = Forgotten.byName /\ unconfirmedByName = Forgotten.byName
  /\ confirmed = {}
  /\ lease = Forgotten.lease /\ fired = {} /\ due = {}
  /\ opens = {}
  /\ recovery = [n \in Names |-> NoRecovery]
  /\ bootVerifiers = [n \in Names |-> 0]
  /\ grace = NoGrace
  /\ boot = [n \in Names |-> 1]
  /\ quiet = [i \in IDs |-> 0]
  /\ prior = [n \in Names |-> 0]

-----------------------------------------------------------------------------
(* SETCLIENTID and SETCLIENTID_CONFIRM.                                    *)

\* Mutant: the unconfirmed record that is replaced stays reachable by its id.
ForgetNothing(n, reuse) == {}

\* The client id that goes away with the unconfirmed record it was drawn for.
\* A record that reuses the id of the confirmed one leaves it in place only
\* when the next record reuses it as well (reuseConfirmedClient).
Forget(n, reuse) ==
  {rec[k].id : k \in {unconfirmedByName[n]} \ {0}}
    \ (IF reuse THEN {rec[clientsByName[n]].id} ELSE {})

\* SetClientID: with the verifier of the confirmed record it reuses its client
\* id (Case 5); otherwise it draws a new one (Cases 1 to 4).
SetClientID(n, b) ==
  LET conf == clientsByName[n]
      reuse == conf # 0 /\ rec[conf].boot = b
  IN
  /\ nextRec \in Records
  /\ reuse => Does("reset")
  /\ rec' = [rec EXCEPT ![nextRec] =
               [id |-> IF reuse THEN rec[conf].id ELSE nextRec, name |-> n, boot |-> b]]
  /\ nextRec' = nextRec + 1
  /\ unconfirmedByName' = [unconfirmedByName EXCEPT ![n] = nextRec]
  /\ clientsByID' = [i \in IDs |-> IF i = nextRec /\ ~reuse THEN nextRec
                                   ELSE IF i \in Forget(n, reuse) THEN 0
                                   ELSE clientsByID[i]]
  /\ UNCHANGED <<clientsByName, confirmed, timerVars, opens, stableVars, hostVars, quiet>>

\* The record a SETCLIENTID_CONFIRM for an id promotes: the pending one of a
\* client that set its id again, else the one the id leads to; 0 for a copy of
\* a confirmation already made.
Pending(i) ==
  LET r == clientsByID[i]
      u == unconfirmedByName[rec[r].name]
  IN IF r = 0 THEN 0
     ELSE IF r \notin confirmed THEN r
     ELSE IF u # 0 /\ rec[u].id = i THEN u ELSE 0

\* ConfirmClientID, with the confirm verifier of record k.
ConfirmClientID(k) ==
  LET n == rec[k].name
      i == rec[k].id
      old == {clientsByName[n]} \ {0}
      replaced == {o \in old : rec[o].id # i}
  IN
  /\ k < nextRec /\ Pending(i) = k
  /\ unconfirmedByName' = [unconfirmedByName EXCEPT ![n] = 0]
  /\ clientsByName' = [clientsByName EXCEPT ![n] = k]
  /\ clientsByID' = [j \in IDs |-> IF \E o \in replaced : rec[o].id = j THEN 0
                                   ELSE clientsByID[j]]
  /\ confirmed' = confirmed \cup {k}
  /\ lease' = [j \in Records |-> IF j = k THEN 0
                                 ELSE IF j \in replaced THEN NoLease ELSE lease[j]]
  /\ recovery' = [recovery EXCEPT ![n] = [boot |-> rec[k].boot, complete |-> FALSE]]
  /\ quiet' = [quiet EXCEPT ![i] = 0]
  /\ UNCHANGED <<rec, nextRec, fired, due, opens, bootVerifiers, grace, hostVars>>

-----------------------------------------------------------------------------
(* Leases.                                                                 *)

\* RenewLease; a lease past its duration is answered NFS4ERR_EXPIRED.
RenewLease(i) ==
  LET r == clientsByID[i] IN
  /\ Does("lease")
  /\ r # 0 /\ r \in confirmed /\ lease[r] <= LeaseTicks
  /\ lease' = [lease EXCEPT ![r] = 0]
  /\ quiet' = [quiet EXCEPT ![i] = 0]
  /\ UNCHANGED <<clientVars, fired, due, opens, stableVars, hostVars>>

Tick ==
  /\ Does("lease")
  /\ \E k \in Records : lease[k] <= LeaseTicks
  /\ lease' = [k \in Records |-> IF lease[k] <= LeaseTicks THEN lease[k] + 1 ELSE lease[k]]
  /\ quiet' = [i \in IDs |-> IF quiet[i] <= LeaseTicks THEN quiet[i] + 1 ELSE quiet[i]]
  /\ UNCHANGED <<clientVars, fired, due, opens, stableVars, hostVars>>

Lapsed(k) == lease[k] \in {LeaseTicks, LeaseTicks + 1}

TimerFires(k) ==
  /\ Lapsed(k) /\ k \notin fired
  /\ fired' = fired \cup {k}
  /\ UNCHANGED <<clientVars, lease, due, opens, stableVars, hostVars, quiet>>

\* Mutant: the callback does not look at the lease again.
TimerChecksNothing(k) ==
  /\ k \in fired
  /\ fired' = fired \ {k}
  /\ due' = due \cup {rec[k].id}
  /\ UNCHANGED <<clientVars, lease, opens, stableVars, hostVars, quiet>>

\* The callback of NewLeaseState looks again whether the lease is stale.
TimerChecks(k) ==
  /\ k \in fired
  /\ fired' = fired \ {k}
  /\ due' = IF Lapsed(k) THEN due \cup {rec[k].id} ELSE due
  /\ UNCHANGED <<clientVars, lease, opens, stableVars, hostVars, quiet>>

\* The end of the record an id leads to, with its open state and its durable
\* record: onLeaseExpired and EvictV40Client.
RemoveRecord(i) ==
  LET r == clientsByID[i]
      n == rec[r].name
      ThisID(k) == k # 0 /\ rec[k].id = i
  IN
  /\ recovery' = [recovery EXCEPT ![n] = NoRecovery]
  /\ opens' = {o \in opens : o[1] # r}
  /\ clientsByID' = [clientsByID EXCEPT ![i] = 0]
  /\ clientsByName' = [clientsByName EXCEPT
       ![n] = IF r \in confirmed /\ ThisID(@) THEN 0 ELSE @]
  /\ unconfirmedByName' = [unconfirmedByName EXCEPT
       ![n] = IF r \notin confirmed /\ ThisID(@) THEN 0 ELSE @]
  /\ lease' = [lease EXCEPT ![r] = NoLease]
  /\ prior' = [prior EXCEPT ![n] = 0]
  /\ UNCHANGED <<rec, nextRec, confirmed, fired, bootVerifiers, grace, boot, quiet>>

OnLeaseExpired(i) ==
  /\ i \in due
  /\ due' = due \ {i}
  /\ IF clientsByID[i] # 0 THEN RemoveRecord(i)
     ELSE UNCHANGED <<clientVars, lease, fired, opens, stableVars, hostVars, quiet>>

EvictV40Client(i) ==
  Does("evict") /\ clientsByID[i] # 0 /\ RemoveRecord(i) /\ UNCHANGED due

-----------------------------------------------------------------------------
(* Open files, restarts and the grace period.                              *)

\* OPEN with CLAIM_NULL; NFS4ERR_GRACE during the grace period.
OpenNull(i, f) ==
  LET r == clientsByID[i] IN
  /\ ~grace.active
  /\ r # 0 /\ r \in confirmed /\ rec[r].boot = boot[rec[r].name]
  /\ opens' = opens \cup {<<r, f>>}
  /\ UNCHANGED <<clientVars, timerVars, stableVars, hostVars, quiet>>

\* Mutant: the verifier is compared with the live recovery record.
MayReclaimLive(r) == recovery[rec[r].name].boot \in {0, rec[r].boot}

\* validateReclaimVerifier.
MayReclaim(r) == bootVerifiers[rec[r].name] \in {0, rec[r].boot}

\* The grace period once client n is counted: over when all expected ones are.
Counted(n) ==
  IF n \notin grace.expected THEN grace
  ELSE LET all == grace.reclaimed \cup {n}
       IN Grace(all # grace.expected, grace.expected, all)

\* OPEN with CLAIM_PREVIOUS; NFS4ERR_NO_GRACE outside the grace period.
OpenPrevious(i, f) ==
  LET r == clientsByID[i]
      n == rec[r].name
  IN
  /\ grace.active
  /\ r # 0 /\ r \in confirmed /\ MayReclaim(r)
  /\ grace' = Counted(n)
  /\ recovery' = [recovery EXCEPT ![n] = [boot |-> @.boot, complete |-> TRUE]]
  /\ opens' = opens \cup {<<r, f>>}
  /\ UNCHANGED <<clientVars, timerVars, bootVerifiers, boot, prior, quiet>>

\* The grace timer.
EndGrace ==
  /\ grace.active
  /\ grace' = Grace(FALSE, grace.expected, grace.reclaimed)
  /\ UNCHANGED <<clientVars, timerVars, opens, recovery, bootVerifiers, boot, prior, quiet>>

\* The server restarts and LoadClientRecovery arms the verifier gate and the
\* grace period from the durable records.
Restart ==
  LET expected == {n \in Names : recovery[n] # NoRecovery /\ ~recovery[n].complete} IN
  /\ Does("restart")
  /\ clientsByID' = Forgotten.clientsByID
  /\ clientsByName' = Forgotten.byName /\ unconfirmedByName' = Forgotten.byName
  /\ confirmed' = {}
  /\ lease' = Forgotten.lease /\ fired' = {} /\ due' = {}
  /\ opens' = {}
  /\ bootVerifiers' = [n \in Names |-> recovery[n].boot]
  /\ grace' = Grace(expected # {}, expected, {})
  /\ prior' = [n \in Names |-> IF clientsByName[n] = 0 THEN prior[n]
                               ELSE rec[clientsByName[n]].boot]
  /\ UNCHANGED <<rec, nextRec, recovery, boot, quiet>>

ClientReboots(n) ==
  /\ Does("reboot") /\ boot[n] < MaxBoot
  /\ boot' = [boot EXCEPT ![n] = @ + 1]
  /\ UNCHANGED <<clientVars, timerVars, opens, stableVars, prior, quiet>>

ClientNext40 ==
  \/ \E n \in {m \in Names : Does(m)} :
       ClientReboots(n) \/ \E b \in 1..boot[n] : SetClientID(n, b)
  \/ \E k \in Records : ConfirmClientID(k) \/ TimerFires(k) \/ TimerChecks(k)
  \/ \E i \in IDs : RenewLease(i) \/ OnLeaseExpired(i) \/ EvictV40Client(i)
  \/ \E i \in IDs, f \in Files : OpenNull(i, f) \/ OpenPrevious(i, f)
  \/ Tick \/ EndGrace \/ Restart

ClientSpec == ClientInit /\ [][ClientNext40 /\ UNCHANGED work]_<<v40Vars, work>>

-----------------------------------------------------------------------------

\* The tables, timers and durable records hold values of their kinds.
ClientTypeOK ==
  /\ nextRec \in 1..(MaxRecords + 1)
  /\ rec \in [Records -> [id : IDs, name : Names, boot : Boots] \cup {Unset}]
  /\ clientsByID \in [IDs -> {0} \cup Records]
  /\ clientsByName \in [Names -> {0} \cup Records]
  /\ unconfirmedByName \in [Names -> {0} \cup Records]
  /\ confirmed \subseteq Records /\ fired \subseteq Records /\ due \subseteq IDs
  /\ lease \in [Records -> 0..NoLease]
  /\ opens \subseteq Records \X Files
  /\ recovery \in [Names -> [boot : {0} \cup Boots, complete : BOOLEAN]]
  /\ grace.expected \subseteq Names /\ grace.reclaimed \subseteq grace.expected

\* A confirmation promotes only the record of the last SETCLIENTID served for
\* its client, whichever copies and replies are late: every other unconfirmed
\* record is out of reach (SetClientID deletes it from clientsByID).
ConfirmsLatest ==
  [][\A k \in confirmed' \ confirmed :
       \A j \in Records : rec[j].name = rec[k].name => j <= k]_v40Vars

\* A client id leads to a record that is the confirmed or the pending one of its
\* name, and both lead back, through any order of reboots, confirmations,
\* expiries and evictions.  Setting the id again with the same verifier is left
\* out: its record never takes the place of the old one in clientsByID.
IdentityAgrees ==
  Does("reset") \/
  /\ \A i \in IDs : clientsByID[i] # 0 =>
       LET k == clientsByID[i] IN
       /\ rec[k].id = i
       /\ k = IF k \in confirmed THEN clientsByName[rec[k].name]
                                 ELSE unconfirmedByName[rec[k].name]
  /\ \A n \in Names : \A k \in {clientsByName[n], unconfirmedByName[n]} \ {0} :
       clientsByID[rec[k].id] = k

\* A client whose lease was renewed in time is not expired, even when the
\* renewal races the timer (the second look in NewLeaseState).  As above, a
\* client that has set its id again is left out here.
LeaseHonoured == [][\A i \in due' \ due : Does("reset") \/ quiet[i] >= LeaseTicks]_v40Vars

\* A client that has rebooted since the server last knew it reclaims nothing,
\* through any number of restarts: the incarnation that reclaims is the one that
\* was confirmed before the restart, if one was and it was not expired or evicted
\* since (persistClientRecoveryLocked, LoadClientRecovery, validateReclaimVerifier).
RebootedNeverReclaims ==
  [][grace.active =>
       \A o \in opens' \ opens : prior[rec[o[1]].name] \in {0, rec[o[1]].boot}]_v40Vars
=============================================================================
