--------------------------- MODULE NfsClientProofs --------------------------
(***************************************************************************)
(* Proofs about what an NFSv4 server keeps of its clients.                 *)
(*                                                                         *)
(* ClientState, for any numbers of names, records, boots and ticks of the  *)
(* lease: the tables by id and by name agree, only the last SETCLIENTID of *)
(* a client can be confirmed, a client that renews in time is not expired, *)
(* and a client that rebooted reclaims nothing of the incarnation before.  *)
(* Backchannel, for any numbers of connections, sessions and goroutines:   *)
(* the two connection maps agree, no sender outlives its session.          *)
(* Delegations, for any numbers of clients and files: no two clients hold  *)
(* a delegation on the same file.                                          *)
(***************************************************************************)
EXTENDS ClientState, Delegations, Backchannel, TLAPS

\* Zenon proves the steps that name no other prover.
USE ZenonT(20)

clientSpecVars == <<v40Vars, work>>
ClientStep == [ClientNext40 /\ UNCHANGED work]_clientSpecVars

Used(k) == k \in Records /\ k < nextRec

\* Which records there are.
RecordsTyped ==
  /\ nextRec \in 1..(MaxRecords + 1)
  /\ rec = [k \in Records |-> rec[k]]
  /\ \A k \in Records : k < nextRec => rec[k] \in [id : IDs, name : Names, boot : Boots]
  /\ \A k \in Records : ~(k < nextRec) => rec[k] = Unset

TablesTyped ==
  /\ clientsByID \in [IDs -> {0} \cup Records]
  /\ clientsByName \in [Names -> {0} \cup Records]
  /\ unconfirmedByName \in [Names -> {0} \cup Records]
  /\ \A k \in confirmed : Used(k)

\* An id leads to the record it was drawn for.
ReachedByID ==
  \A i \in IDs : clientsByID[i] # 0 => clientsByID[i] = i /\ i < nextRec /\ rec[i].id = i

ConfirmedNamed ==
  \A n \in Names : clientsByName[n] # 0 =>
    clientsByName[n] \in confirmed /\ rec[clientsByName[n]].name = n

\* The pending record of a name is its last one.
PendingNamed ==
  \A n \in Names : unconfirmedByName[n] # 0 =>
    /\ unconfirmedByName[n] < nextRec
    /\ rec[unconfirmedByName[n]].name = n
    /\ unconfirmedByName[n] \notin confirmed
    /\ \A j \in Records : j < nextRec /\ rec[j].name = n => j <= unconfirmedByName[n]

\* A record that an id leads to is the pending one of its name, or has the id
\* of the confirmed one.
ReachedPending ==
  \A i \in IDs : clientsByID[i] # 0 /\ i \notin confirmed => unconfirmedByName[rec[i].name] = i

ReachedConfirmed ==
  \A i \in IDs : clientsByID[i] # 0 /\ i \in confirmed =>
    /\ clientsByName[rec[i].name] # 0
    /\ rec[clientsByName[rec[i].name]].id = i

\* A record that reuses an id reuses that of a confirmed one.
ConfirmedIDs == \A k \in confirmed : rec[k].id \in confirmed

\* While no client sets its id again, every record has an id of its own, and
\* the records that a name leads to are reached by id.
OwnIDs ==
  ~Does("reset") =>
    /\ \A k \in Records : k < nextRec => rec[k].id = k
    /\ \A n \in Names : clientsByName[n] # 0 => clientsByID[clientsByName[n]] = clientsByName[n]
    /\ \A n \in Names : unconfirmedByName[n] # 0 =>
         clientsByID[unconfirmedByName[n]] = unconfirmedByName[n]

IdentityInv ==
  /\ RecordsTyped /\ TablesTyped
  /\ ReachedByID /\ ConfirmedNamed /\ PendingNamed
  /\ ReachedPending /\ ReachedConfirmed /\ ConfirmedIDs /\ OwnIDs

\* Only confirmed records have a lease, and one that runs is no older than the
\* last sign of life of its client.
LeaseInv ==
  /\ lease \in [Records -> 0..NoLease] /\ fired \subseteq Records
  /\ quiet \in [IDs -> 0..(LeaseTicks + 1)]
  /\ \A k \in Records : lease[k] # NoLease => k \in confirmed
  /\ due \subseteq confirmed
  /\ ~Does("reset") => \A k \in Records : lease[k] # NoLease => lease[k] <= quiet[k]

\* The durable record of a name, and the verifier gate that was made of it,
\* remember the boot that was confirmed.
BootsInv ==
  /\ boot \in [Names -> Boots]
  /\ prior \in [Names -> {0} \cup Boots]
  /\ bootVerifiers \in [Names -> {0} \cup Boots]
  /\ recovery \in [Names -> [boot : {0} \cup Boots, complete : BOOLEAN]]
  /\ opens \subseteq Records \X Files
  /\ grace.expected \subseteq Names /\ grace.reclaimed \subseteq grace.expected

RememberedInv ==
  ~Does("evict") => \A n \in Names :
    /\ prior[n] \in {0, bootVerifiers[n]}
    /\ IF clientsByName[n] # 0 THEN recovery[n].boot = rec[clientsByName[n]].boot
       ELSE prior[n] \in {0, recovery[n].boot}

\* While no client reboots, there is one boot.
FirstBootInv ==
  ~Does("reboot") =>
    /\ \A n \in Names : boot[n] = 1 /\ prior[n] \in {0, 1}
    /\ \A k \in Records : k < nextRec => rec[k].boot = 1

ClientInv == IdentityInv /\ LeaseInv /\ BootsInv /\ RememberedInv /\ FirstBootInv

-----------------------------------------------------------------------------
\* The server starts without clients.
LEMMA ClientInvInit == ClientInit => ClientInv
<1> SUFFICES ASSUME ClientInit PROVE ClientInv
  OBVIOUS
<1> USE ClientConstants DEF Forgotten
<1>1. ReachedByID /\ ConfirmedNamed /\ PendingNamed /\ ReachedPending /\ ReachedConfirmed
  BY DEF ClientInit, ReachedByID, ConfirmedNamed, PendingNamed, ReachedPending, ReachedConfirmed
<1>2. LeaseInv
  BY SMTT(20) DEF ClientInit, LeaseInv, NoLease
<1>3. BootsInv
  BY SMTT(20) DEF ClientInit, BootsInv, Boots, NoRecovery, NoGrace, Grace
<1>4. RememberedInv
  BY DEF ClientInit, RememberedInv, NoRecovery
<1>5. QED
  BY <1>1, <1>2, <1>3, <1>4, SMTT(20)
  DEF ClientInv, IdentityInv, ClientInit, RecordsTyped, Records, TablesTyped, ConfirmedIDs,
      OwnIDs, FirstBootInv

\* What the invariant says of the record of an id and of a name.
LEMMA RecordFacts ==
  ASSUME RecordsTyped, NEW k \in Records, k < nextRec
  PROVE  rec[k].id \in IDs /\ rec[k].name \in Names /\ rec[k].boot \in Boots
  BY DEF RecordsTyped

\* The invariant gives the type invariant and the agreement of the tables.
LEMMA ClientInvImplies ==
  ASSUME ClientInv
  PROVE  ClientTypeOK /\ IdentityAgrees
<1>1. ClientTypeOK
  BY DEF ClientInv, IdentityInv, RecordsTyped, TablesTyped, Used, LeaseInv, IDs, BootsInv,
         ClientTypeOK
<1>2. CASE ~Does("reset")
  <2>1. ASSUME NEW i \in IDs, clientsByID[i] # 0
        PROVE  /\ rec[clientsByID[i]].id = i
               /\ clientsByID[i] = IF clientsByID[i] \in confirmed
                                   THEN clientsByName[rec[clientsByID[i]].name]
                                   ELSE unconfirmedByName[rec[clientsByID[i]].name]
    <3>1. clientsByID[i] = i /\ i < nextRec /\ rec[i].id = i
      BY <2>1 DEF ClientInv, IdentityInv, ReachedByID
    <3>2. CASE i \in confirmed
      <4>1. /\ clientsByName[rec[i].name] # 0
            /\ rec[clientsByName[rec[i].name]].id = i
        BY <2>1, <3>2 DEF ClientInv, IdentityInv, ReachedConfirmed
      <4>2. Used(clientsByName[rec[i].name])
        BY <3>1, <4>1, RecordFacts DEF ClientInv, IdentityInv, ConfirmedNamed, TablesTyped, IDs
      <4>3. rec[clientsByName[rec[i].name]].id = clientsByName[rec[i].name]
        BY <1>2, <4>2 DEF ClientInv, IdentityInv, OwnIDs, Used
      <4>4. QED
        BY <3>1, <3>2, <4>1, <4>3
    <3>3. CASE i \notin confirmed
      BY <2>1, <3>1, <3>3 DEF ClientInv, IdentityInv, ReachedPending
    <3>4. QED
      BY <3>2, <3>3
  <2>2. ASSUME NEW n \in Names, NEW k \in {clientsByName[n], unconfirmedByName[n]} \ {0}
        PROVE  clientsByID[rec[k].id] = k
    BY <1>2, SMTT(20)
    DEF ClientInv, IdentityInv, TablesTyped, ConfirmedNamed, PendingNamed, Used, OwnIDs
  <2>3. QED
    BY <1>1, <2>1, <2>2 DEF IdentityAgrees
<1>3. QED
  BY <1>1, <1>2 DEF IdentityAgrees

-----------------------------------------------------------------------------
\* Nothing the identity of clients depends on moves.
LEMMA IdentitySame ==
  ASSUME IdentityInv, UNCHANGED <<clientVars, work>>
  PROVE  IdentityInv'
<1>1. UNCHANGED <<rec, nextRec, clientsByID, clientsByName, unconfirmedByName, confirmed, work>>
  BY DEF clientVars
<1>2. ConfirmedIDs' /\ OwnIDs'
  BY <1>1 DEF IdentityInv, ConfirmedIDs, OwnIDs, Does
<1>3. QED
  BY <1>1, <1>2
  DEF IdentityInv, RecordsTyped, TablesTyped, Used, ReachedByID, ConfirmedNamed, PendingNamed,
      ReachedPending, ReachedConfirmed

\* The leases are as before.
LEMMA LeaseSame ==
  ASSUME LeaseInv, UNCHANGED <<lease, fired, due, quiet, work>>, confirmed \subseteq confirmed'
  PROVE  LeaseInv'
  BY DEF LeaseInv, Does

\* What a restart brings back, and the boots of the clients, are as before.
LEMMA BootsSame ==
  ASSUME BootsInv, RememberedInv, FirstBootInv,
         UNCHANGED <<rec, nextRec, clientsByName, stableVars, hostVars, work>>,
         opens' \subseteq Records \X Files
  PROVE  BootsInv' /\ RememberedInv' /\ FirstBootInv'
  BY DEF BootsInv, RememberedInv, FirstBootInv, Does, stableVars, hostVars

-----------------------------------------------------------------------------
(* SETCLIENTID and SETCLIENTID_CONFIRM.                                    *)

\* SetClientID makes the new record the pending one and the old pending one
\* unreachable.
LEMMA SetClientIDKeeps ==
  ASSUME ClientInv, NEW n \in Names, NEW b \in 1..boot[n], SetClientID(n, b), UNCHANGED work
  PROVE  ClientInv'
<1> USE ClientConstants
<1>1. IdentityInv /\ LeaseInv /\ BootsInv /\ RememberedInv /\ FirstBootInv
  BY DEF ClientInv
<1>2. PICK reuse \in BOOLEAN : reuse = (clientsByName[n] # 0 /\ rec[clientsByName[n]].boot = b)
  OBVIOUS
<1>3. PICK r : r = [id |-> IF reuse THEN rec[clientsByName[n]].id ELSE nextRec, name |-> n, boot |-> b]
  OBVIOUS
<1>4. PICK lost : lost = Forget(n, reuse)
  OBVIOUS
<1>5. /\ nextRec \in Records
      /\ reuse => Does("reset")
      /\ rec' = [rec EXCEPT ![nextRec] = r]
      /\ nextRec' = nextRec + 1
      /\ unconfirmedByName' = [unconfirmedByName EXCEPT ![n] = nextRec]
      /\ clientsByID' = [i \in IDs |-> IF i = nextRec /\ ~reuse THEN nextRec
                                       ELSE IF i \in lost THEN 0 ELSE clientsByID[i]]
      /\ UNCHANGED <<clientsByName, confirmed, timerVars, opens, stableVars, hostVars, quiet>>
  BY <1>2, <1>3, <1>4 DEF SetClientID
<1>6. reuse => rec[clientsByName[n]].id \in confirmed /\ rec[clientsByName[n]].id \in IDs
  BY <1>1, <1>2 DEF IdentityInv, ConfirmedNamed, ConfirmedIDs, TablesTyped, Used, IDs
<1>7. /\ r.name = n /\ r.boot = b /\ r \in [id : IDs, name : Names, boot : Boots]
      /\ ~reuse => r.id = nextRec
  BY <1>1, <1>3, <1>5, <1>6, SMTT(20) DEF IDs, BootsInv, Boots
<1>8. /\ rec' = [k \in Records |-> rec'[k]]
      /\ \A k \in Records : rec'[k] = IF k = nextRec THEN r ELSE rec[k]
      /\ \A k \in Records : k < nextRec' <=> k < nextRec \/ k = nextRec
      /\ ~(nextRec < nextRec)
  <2>1. \A k \in Records : k < nextRec' <=> k < nextRec \/ k = nextRec
    BY <1>5, SMTT(20) DEF Records
  <2>2. ~(nextRec < nextRec)
    BY <1>5, SMTT(20) DEF Records
  <2>3. QED
    BY <1>1, <1>5, <2>1, <2>2 DEF IdentityInv, RecordsTyped
<1>9. RecordsTyped'
  BY <1>1, <1>5, <1>7, <1>8, SMTT(20) DEF IdentityInv, RecordsTyped, Records
<1>10. /\ \A k \in Records : k < nextRec => rec'[k] = rec[k] /\ k # nextRec
       /\ \A k \in confirmed : Used(k) /\ rec'[k] = rec[k] /\ k # nextRec
  BY <1>1, <1>8 DEF IdentityInv, TablesTyped, Used
<1>11. TablesTyped'
  BY <1>1, <1>5, <1>8 DEF IdentityInv, TablesTyped, Used
<1>12. \A i \in IDs : clientsByID'[i] # 0 =>
         \/ i = nextRec /\ ~reuse /\ clientsByID'[i] = nextRec
         \/ /\ i # nextRec /\ clientsByID'[i] = i /\ clientsByID[i] = i /\ i < nextRec
            /\ rec[i].id = i /\ i \notin lost
  BY <1>1, <1>5, <1>8 DEF IdentityInv, ReachedByID
<1>13. ReachedByID'
  BY <1>7, <1>8, <1>10, <1>12 DEF ReachedByID, IDs
<1>14. ConfirmedNamed'
  BY <1>1, <1>5, <1>10, SMTT(20) DEF IdentityInv, ConfirmedNamed
<1>15. PendingNamed'
  BY <1>1, <1>5, <1>7, <1>8, <1>10, SMTT(20) DEF PendingNamed, IdentityInv, TablesTyped, Records
<1>16. ReachedPending'
  <2> SUFFICES ASSUME NEW i \in IDs, clientsByID'[i] # 0, i \notin confirmed
               PROVE  unconfirmedByName'[rec'[i].name] = i
    BY <1>5 DEF ReachedPending
  <2>1. CASE i = nextRec
    BY <1>1, <1>5, <1>7, <1>8, <2>1 DEF IdentityInv, TablesTyped
  <2>2. CASE i # nextRec
    <3>1. clientsByID[i] = i /\ i < nextRec /\ rec[i].id = i /\ i \notin lost /\ i # 0
      BY <1>12, <2>2 DEF IDs, Records
    <3>2. unconfirmedByName[rec[i].name] = i /\ rec'[i] = rec[i]
      BY <1>1, <1>10, <3>1 DEF IdentityInv, ReachedPending, IDs
    <3>3. QED
      BY <1>1, <1>4, <1>5, <1>6, <3>1, <3>2, RecordFacts
      DEF IdentityInv, TablesTyped, Forget, IDs
  <2>3. QED
    BY <2>1, <2>2
<1>17. ReachedConfirmed'
  <2> SUFFICES ASSUME NEW i \in IDs, clientsByID'[i] # 0, i \in confirmed
               PROVE  /\ clientsByName[rec'[i].name] # 0
                      /\ rec'[clientsByName[rec'[i].name]].id = i
    BY <1>5 DEF ReachedConfirmed
  <2>1. clientsByID[i] # 0 /\ rec'[i] = rec[i]
    BY <1>10, <1>12 DEF IDs, Records
  <2>2. /\ clientsByName[rec[i].name] # 0
        /\ rec[clientsByName[rec[i].name]].id = i
    BY <1>1, <2>1 DEF IdentityInv, ReachedConfirmed
  <2>3. QED
    BY <1>1, <1>10, <2>1, <2>2, RecordFacts DEF IdentityInv, ConfirmedNamed, Used
<1>18. ConfirmedIDs'
  BY <1>1, <1>5, <1>10, SMTT(20) DEF IdentityInv, ConfirmedIDs
<1>19. OwnIDs'
  BY <1>1, <1>4, <1>5, <1>7, <1>8, <1>10, SMTT(60)
  DEF OwnIDs, Does, IdentityInv, IDs, PendingNamed, TablesTyped, Forget, ConfirmedNamed, Records
<1>20. LeaseInv'
  BY <1>1, <1>5, LeaseSame DEF timerVars
<1>21. BootsInv'
  BY <1>1, <1>5 DEF BootsInv, stableVars, hostVars
<1>22. RememberedInv'
  BY <1>1, <1>5, <1>10, SMTT(20)
  DEF IdentityInv, ConfirmedNamed, RememberedInv, Does, stableVars, hostVars
<1>23. FirstBootInv'
  BY <1>1, <1>5, <1>7, <1>8, SMTT(20) DEF FirstBootInv, Does, hostVars
<1>24. QED
  BY <1>9, <1>11, <1>13, <1>14, <1>15, <1>16, <1>17, <1>18, <1>19, <1>20, <1>21, <1>22, <1>23
  DEF ClientInv, IdentityInv

\* The record that SETCLIENTID_CONFIRM promotes: pending, the last of its name,
\* and with an id that is confirmed or is its own.
LEMMA PendingFacts ==
  ASSUME IdentityInv, NEW k \in Records, k < nextRec, Pending(rec[k].id) = k
  PROVE  /\ rec[k].name \in Names /\ rec[k].id \in IDs
         /\ unconfirmedByName[rec[k].name] = k
         /\ k \notin confirmed
         /\ clientsByID[rec[k].id] = rec[k].id
         /\ rec[k].id = k \/ rec[k].id \in confirmed
<1> USE ClientConstants
<1>1. PICK i \in IDs : i = rec[k].id
  BY RecordFacts DEF IdentityInv
<1>2. rec[k].name \in Names
  BY RecordFacts DEF IdentityInv
<1>3. k # 0
  BY SMTT(20) DEF Records
<1>4. clientsByID[i] = i /\ i < nextRec /\ rec[i].id = i /\ i # 0
  BY <1>1, <1>3 DEF Pending, IdentityInv, ReachedByID, IDs, Records
<1>5. CASE i \notin confirmed
  BY <1>1, <1>2, <1>4, <1>5 DEF Pending, IdentityInv, ReachedPending
<1>6. CASE i \in confirmed
  <2>1. k = unconfirmedByName[rec[i].name]
    BY <1>1, <1>3, <1>4, <1>6 DEF Pending
  <2>2. rec[k].name = rec[i].name /\ k \notin confirmed
    BY <1>3, <1>4, <2>1, RecordFacts DEF IdentityInv, PendingNamed, IDs
  <2>3. QED
    BY <1>1, <1>2, <1>4, <1>6, <2>1, <2>2
<1>7. QED
  BY <1>5, <1>6

\* ConfirmClientID makes the pending record the confirmed one, and the id of the
\* one it replaces unreachable.
LEMMA ConfirmKeeps ==
  ASSUME ClientInv, NEW k \in Records, ConfirmClientID(k), UNCHANGED work
  PROVE  ClientInv'
<1> USE ClientConstants
<1>1. IdentityInv /\ LeaseInv /\ BootsInv /\ RememberedInv /\ FirstBootInv
  BY DEF ClientInv
<1>2. PICK n : n = rec[k].name
  OBVIOUS
<1>3. PICK i : i = rec[k].id
  OBVIOUS
<1>4. PICK replaced : replaced = {o \in {clientsByName[n]} \ {0} : rec[o].id # i}
  OBVIOUS
<1>5. /\ k < nextRec /\ Pending(i) = k
      /\ unconfirmedByName' = [unconfirmedByName EXCEPT ![n] = 0]
      /\ clientsByName' = [clientsByName EXCEPT ![n] = k]
      /\ clientsByID' = [j \in IDs |-> IF \E o \in replaced : rec[o].id = j THEN 0
                                       ELSE clientsByID[j]]
      /\ confirmed' = confirmed \cup {k}
      /\ lease' = [j \in Records |-> IF j = k THEN 0
                                     ELSE IF j \in replaced THEN NoLease ELSE lease[j]]
      /\ recovery' = [recovery EXCEPT ![n] = [boot |-> rec[k].boot, complete |-> FALSE]]
      /\ quiet' = [quiet EXCEPT ![i] = 0]
      /\ UNCHANGED <<rec, nextRec, fired, due, opens, bootVerifiers, grace, hostVars>>
  BY <1>2, <1>3, <1>4 DEF ConfirmClientID
<1>6. /\ n \in Names /\ i \in IDs /\ unconfirmedByName[n] = k /\ k \notin confirmed
      /\ clientsByID[i] = i /\ (i = k \/ i \in confirmed) /\ rec[k].boot \in Boots
  BY <1>1, <1>2, <1>3, <1>5, PendingFacts, RecordFacts DEF IdentityInv
<1>7. /\ \A m \in Names : unconfirmedByName'[m] = IF m = n THEN 0 ELSE unconfirmedByName[m]
      /\ \A m \in Names : clientsByName'[m] = IF m = n THEN k ELSE clientsByName[m]
      /\ \A j \in IDs : clientsByID'[j] \in {0, clientsByID[j]}
      /\ \A j \in IDs : (\A o \in replaced : rec[o].id # j) => clientsByID'[j] = clientsByID[j]
  BY <1>1, <1>5 DEF IdentityInv, TablesTyped
<1>8. k # 0 /\ i # 0
  BY <1>6, SMTT(20) DEF Records, IDs
<1>9. RecordsTyped'
  BY <1>1, <1>5 DEF IdentityInv, RecordsTyped
<1>10. TablesTyped'
  BY <1>1, <1>5 DEF IdentityInv, TablesTyped, Used
<1>11. ReachedByID'
  BY <1>1, <1>5, <1>7 DEF IdentityInv, ReachedByID
<1>12. ConfirmedNamed'
  BY <1>1, <1>2, <1>5, <1>7, SMTT(20) DEF IdentityInv, ConfirmedNamed
<1>13. PendingNamed'
  BY <1>1, <1>2, <1>5, <1>7, SMTT(20) DEF PendingNamed, IdentityInv
<1>14. ReachedPending'
  <2> SUFFICES ASSUME NEW j \in IDs, clientsByID'[j] # 0, j \notin confirmed'
               PROVE  unconfirmedByName'[rec[j].name] = j
    BY <1>5 DEF ReachedPending
  <2>1. unconfirmedByName[rec[j].name] = j /\ j # k /\ j < nextRec
    BY <1>1, <1>5, <1>7 DEF IdentityInv, ReachedPending, ReachedByID
  <2>2. QED
    BY <1>1, <1>6, <1>7, <2>1, RecordFacts DEF IdentityInv, IDs
<1>15. ReachedConfirmed'
  <2> SUFFICES ASSUME NEW j \in IDs, clientsByID'[j] # 0, j \in confirmed'
               PROVE  /\ clientsByName'[rec[j].name] # 0
                      /\ rec[clientsByName'[rec[j].name]].id = j
    BY <1>5 DEF ReachedConfirmed
  <2>1. clientsByID[j] = j /\ j < nextRec /\ rec[j].id = j
    BY <1>1, <1>7 DEF IdentityInv, ReachedByID
  <2>2. CASE j = i /\ rec[j].name = n
    BY <1>3, <1>6, <1>7, <1>8, <2>2, SMTT(20)
  <2>3. CASE j = k
    BY <1>2, <1>3, <2>1, <2>2, <2>3
  <2>4. CASE j \in confirmed /\ rec[j].name # n
    BY <1>1, <1>7, <2>1, <2>4, RecordFacts DEF IdentityInv, ReachedConfirmed, IDs, Records
  <2>5. CASE j \in confirmed /\ rec[j].name = n
    BY <1>1, <1>4, <1>5, <2>1, <2>2, <2>5 DEF IdentityInv, ReachedConfirmed, IDs, Records
  <2>6. QED
    BY <1>5, <2>3, <2>4, <2>5
<1>16. ConfirmedIDs'
  BY <1>1, <1>3, <1>5, <1>6 DEF IdentityInv, ConfirmedIDs
<1>17. OwnIDs'
  <2> SUFFICES ASSUME ~Does("reset")
               PROVE  /\ \A j \in Records : j < nextRec => rec[j].id = j
                      /\ \A m \in Names : clientsByName'[m] # 0 =>
                           clientsByID'[clientsByName'[m]] = clientsByName'[m]
                      /\ \A m \in Names : unconfirmedByName'[m] # 0 =>
                           clientsByID'[unconfirmedByName'[m]] = unconfirmedByName'[m]
    BY <1>5 DEF OwnIDs, Does
  <2>1. \A j \in Records : j < nextRec => rec[j].id = j
    BY <1>1 DEF IdentityInv, OwnIDs
  <2>2. i = k
    BY <1>3, <1>5, <2>1
  <2>3. \A o \in replaced : rec[o].id = o /\ o \in confirmed /\ rec[o].name = n /\ o \in Records
    BY <1>1, <1>4, <1>6, <2>1, SMTT(20) DEF IdentityInv, ConfirmedNamed, TablesTyped, Used
  <2>4. ASSUME NEW j \in Records, clientsByID[j] = j, j \notin replaced
        PROVE  clientsByID'[j] = j
    BY <1>7, <2>3, <2>4, SMTT(20) DEF IDs
  <2>5. ASSUME NEW m \in Names, clientsByName'[m] # 0
        PROVE  clientsByID'[clientsByName'[m]] = clientsByName'[m]
    <3>1. CASE m = n
      BY <1>6, <1>7, <2>2, <2>3, <2>4, <3>1
    <3>2. CASE m # n
      <4>1. PICK j \in Records : j = clientsByName[m] /\ clientsByName'[m] = j /\ j # 0
        BY <1>1, <1>7, <2>5, <3>2 DEF IdentityInv, TablesTyped
      <4>2. rec[j].name = m /\ clientsByID[j] = j
        BY <1>1, <4>1 DEF IdentityInv, ConfirmedNamed, OwnIDs
      <4>3. QED
        BY <2>3, <2>4, <3>2, <4>1, <4>2
    <3>3. QED
      BY <3>1, <3>2
  <2>6. ASSUME NEW m \in Names, unconfirmedByName'[m] # 0
        PROVE  clientsByID'[unconfirmedByName'[m]] = unconfirmedByName'[m]
    BY <1>1, <1>7, <2>3, <2>4, <2>6, SMTT(20) DEF IdentityInv, TablesTyped, PendingNamed, OwnIDs
  <2>7. QED
    BY <2>1, <2>5, <2>6
<1>18. LeaseInv'
  BY <1>1, <1>3, <1>5, <1>6, SMTT(20) DEF LeaseInv, NoLease, IdentityInv, OwnIDs, IDs, Does
<1>19. BootsInv'
  BY <1>1, <1>5, <1>6 DEF BootsInv, hostVars
<1>20. RememberedInv'
  BY <1>1, <1>5, <1>6, <1>7, <1>8, SMTT(20) DEF BootsInv, RememberedInv, Does, hostVars
<1>21. FirstBootInv'
  BY <1>1, <1>5 DEF FirstBootInv, Does, hostVars
<1>22. QED
  BY <1>9, <1>10, <1>11, <1>12, <1>13, <1>14, <1>15, <1>16, <1>17, <1>18, <1>19, <1>20, <1>21
  DEF ClientInv, IdentityInv

-----------------------------------------------------------------------------
(* Leases.                                                                 *)

\* RenewLease restarts the lease of the record that the id was drawn for.
LEMMA RenewKeeps ==
  ASSUME ClientInv, NEW i \in IDs, RenewLease(i), UNCHANGED work
  PROVE  ClientInv'
<1> USE ClientConstants
<1>1. /\ clientsByID[i] \in confirmed /\ clientsByID[i] # 0
      /\ lease' = [lease EXCEPT ![clientsByID[i]] = 0]
      /\ quiet' = [quiet EXCEPT ![i] = 0]
      /\ UNCHANGED <<clientVars, fired, due, opens, stableVars, hostVars>>
  BY DEF RenewLease
<1>2. QED
  BY <1>1, IdentitySame, BootsSame, SMTT(20)
  DEF ClientInv, clientVars, LeaseInv, Does, IDs, NoLease, BootsInv, IdentityInv, ReachedByID

\* Time passes for the leases and for the clients alike.
LEMMA TickKeeps ==
  ASSUME ClientInv, Tick, UNCHANGED work
  PROVE  ClientInv'
<1> USE ClientConstants
<1>1. IdentityInv /\ LeaseInv /\ BootsInv /\ RememberedInv /\ FirstBootInv
  BY DEF ClientInv
<1>2. /\ lease' = [k \in Records |-> IF lease[k] <= LeaseTicks THEN lease[k] + 1 ELSE lease[k]]
      /\ quiet' = [i \in IDs |-> IF quiet[i] <= LeaseTicks THEN quiet[i] + 1 ELSE quiet[i]]
      /\ UNCHANGED <<clientVars, fired, due, opens, stableVars, hostVars>>
  BY DEF Tick
<1>3. \A k \in Records : lease[k] \in 0..NoLease /\ quiet[k] \in 0..(LeaseTicks + 1)
  BY <1>1 DEF LeaseInv, IDs
<1>4. ASSUME NEW k \in Records, lease[k] <= quiet[k]
      PROVE  lease'[k] <= quiet'[k]
  BY <1>2, <1>3, <1>4, SMTT(20) DEF NoLease, IDs
<1>5. QED
  BY <1>1, <1>2, <1>3, <1>4, IdentitySame, BootsSame, SMTT(20)
  DEF ClientInv, LeaseInv, Does, clientVars, NoLease, IDs, BootsInv

\* The timer of a lease, and its second look.
LEMMA TimerKeeps ==
  ASSUME ClientInv, NEW k \in Records, TimerFires(k) \/ TimerChecks(k), UNCHANGED work
  PROVE  ClientInv'
<1>1. IdentityInv /\ LeaseInv /\ BootsInv /\ RememberedInv /\ FirstBootInv
  BY DEF ClientInv
<1>2. UNCHANGED <<clientVars, lease, opens, stableVars, hostVars, quiet>>
  BY DEF TimerFires, TimerChecks
<1>3. LeaseInv'
  BY <1>1, <1>2, ClientConstants, SMTT(20)
  DEF LeaseInv, Does, clientVars, TimerFires, TimerChecks, Lapsed, NoLease, IdentityInv,
      ConfirmedIDs
<1>4. QED
  BY <1>1, <1>2, <1>3, IdentitySame, BootsSame DEF ClientInv, clientVars, BootsInv

\* The end of a record takes its id and its name with it; only an eviction can
\* end one that is not confirmed.
LEMMA RemoveKeeps ==
  ASSUME ClientInv, NEW i \in IDs, clientsByID[i] # 0, RemoveRecord(i), due' \subseteq due,
         Does("evict") \/ i \in confirmed, UNCHANGED work
  PROVE  ClientInv'
<1> USE ClientConstants
<1>1. IdentityInv /\ LeaseInv /\ BootsInv /\ RememberedInv /\ FirstBootInv
  BY DEF ClientInv
<1>2. clientsByID[i] = i /\ i < nextRec /\ rec[i].id = i /\ i \in Records /\ i # 0
  BY <1>1 DEF IdentityInv, ReachedByID, IDs, Records
<1>3. PICK n \in Names : n = rec[i].name
  BY <1>1, <1>2, RecordFacts DEF IdentityInv
<1>4. /\ recovery' = [recovery EXCEPT ![n] = NoRecovery]
      /\ opens' = {o \in opens : o[1] # i}
      /\ clientsByID' = [clientsByID EXCEPT ![i] = 0]
      /\ lease' = [lease EXCEPT ![i] = NoLease]
      /\ prior' = [prior EXCEPT ![n] = 0]
      /\ UNCHANGED <<rec, nextRec, confirmed, fired, bootVerifiers, grace, boot, quiet>>
  BY <1>2, <1>3 DEF RemoveRecord
<1>5. /\ clientsByName' = [clientsByName EXCEPT ![n] =
           IF i \in confirmed /\ clientsByName[n] # 0 /\ rec[clientsByName[n]].id = i THEN 0
           ELSE clientsByName[n]]
      /\ unconfirmedByName' = [unconfirmedByName EXCEPT ![n] =
           IF i \notin confirmed /\ unconfirmedByName[n] # 0 /\ rec[unconfirmedByName[n]].id = i
           THEN 0 ELSE unconfirmedByName[n]]
  BY <1>2, <1>3 DEF RemoveRecord
<1>6. /\ i \in confirmed => clientsByName[n] # 0 /\ rec[clientsByName[n]].id = i
      /\ i \notin confirmed => unconfirmedByName[n] = i
  BY <1>1, <1>2, <1>3 DEF IdentityInv, ReachedConfirmed, ReachedPending
<1>7. /\ \A m \in Names : clientsByName'[m] =
           IF m = n /\ i \in confirmed THEN 0 ELSE clientsByName[m]
      /\ \A m \in Names : unconfirmedByName'[m] =
           IF m = n /\ i \notin confirmed THEN 0 ELSE unconfirmedByName[m]
      /\ \A j \in IDs : clientsByID'[j] = IF j = i THEN 0 ELSE clientsByID[j]
  BY <1>1, <1>2, <1>4, <1>5, <1>6 DEF IdentityInv, TablesTyped
<1>8. RecordsTyped' /\ TablesTyped'
  BY <1>1, <1>4, <1>5 DEF IdentityInv, RecordsTyped, TablesTyped, Used
<1>9. ReachedByID' /\ ConfirmedNamed' /\ PendingNamed' /\ ConfirmedIDs'
  BY <1>1, <1>4, <1>7, SMTT(20)
  DEF IdentityInv, ReachedByID, ConfirmedNamed, PendingNamed, ConfirmedIDs
<1>10. ReachedPending'
  <2> SUFFICES ASSUME NEW j \in IDs, clientsByID'[j] # 0, j \notin confirmed
               PROVE  unconfirmedByName'[rec[j].name] = j
    BY <1>4 DEF ReachedPending
  <2>1. j # i /\ clientsByID[j] # 0 /\ unconfirmedByName[rec[j].name] = j /\ j < nextRec
    BY <1>1, <1>7 DEF IdentityInv, ReachedPending, ReachedByID
  <2>2. QED
    BY <1>1, <1>6, <1>7, <2>1, RecordFacts DEF IdentityInv, IDs
<1>11. ReachedConfirmed'
  <2> SUFFICES ASSUME NEW j \in IDs, clientsByID'[j] # 0, j \in confirmed
               PROVE  /\ clientsByName'[rec[j].name] # 0
                      /\ rec[clientsByName'[rec[j].name]].id = j
    BY <1>4 DEF ReachedConfirmed
  <2>1. /\ j # i /\ clientsByID[j] # 0 /\ j < nextRec
        /\ clientsByName[rec[j].name] # 0 /\ rec[clientsByName[rec[j].name]].id = j
    BY <1>1, <1>7 DEF IdentityInv, ReachedConfirmed, ReachedByID
  <2>2. QED
    BY <1>1, <1>6, <1>7, <2>1, RecordFacts DEF IdentityInv, IDs
<1>12. OwnIDs'
  BY <1>1, <1>3, <1>4, <1>7, SMTT(20)
  DEF OwnIDs, Does, IdentityInv, TablesTyped, ConfirmedNamed, IDs, PendingNamed
<1>13. LeaseInv'
  BY <1>1, <1>2, <1>4, SMTT(20) DEF LeaseInv, NoLease, Does
<1>14. BootsInv'
  BY <1>1, <1>4 DEF NoRecovery, BootsInv
<1>15. /\ \A m \in Names : recovery'[m] = IF m = n THEN NoRecovery ELSE recovery[m]
       /\ \A m \in Names : prior'[m] = IF m = n THEN 0 ELSE prior[m]
  BY <1>1, <1>4 DEF BootsInv
<1>16. RememberedInv'
  BY <1>1, <1>4, <1>7, <1>15, SMTT(20) DEF RememberedInv, Does
<1>17. FirstBootInv'
  BY <1>1, <1>4, <1>15 DEF FirstBootInv, Does
<1>18. QED
  BY <1>8, <1>9, <1>10, <1>11, <1>12, <1>13, <1>14, <1>16, <1>17 DEF ClientInv, IdentityInv

\* onLeaseExpired, and an eviction.
LEMMA ExpiredKeeps ==
  ASSUME ClientInv, NEW i \in IDs, OnLeaseExpired(i) \/ EvictV40Client(i), UNCHANGED work
  PROVE  ClientInv'
<1>1. IdentityInv /\ LeaseInv /\ BootsInv /\ RememberedInv /\ FirstBootInv
  BY DEF ClientInv
<1>2. CASE EvictV40Client(i)
  BY <1>2, RemoveKeeps DEF EvictV40Client
<1>3. CASE OnLeaseExpired(i) /\ clientsByID[i] # 0
  BY <1>1, <1>3, RemoveKeeps DEF OnLeaseExpired, LeaseInv
<1>4. CASE OnLeaseExpired(i) /\ clientsByID[i] = 0
  BY <1>1, <1>4, IdentitySame, BootsSame
  DEF OnLeaseExpired, LeaseInv, Does, clientVars, BootsInv, ClientInv
<1>5. QED
  BY <1>2, <1>3, <1>4

-----------------------------------------------------------------------------
(* Open files, restarts and the grace period.                              *)

\* An OPEN with CLAIM_NULL.
LEMMA OpenNullKeeps ==
  ASSUME ClientInv, NEW i \in IDs, NEW f \in Files, OpenNull(i, f), UNCHANGED work
  PROVE  ClientInv'
  BY IdentitySame, LeaseSame, BootsSame, SMTT(20)
  DEF ClientInv, clientVars, timerVars, IdentityInv, TablesTyped, Used, BootsInv, OpenNull

\* An OPEN with CLAIM_PREVIOUS, and the end of the grace period.
LEMMA ReclaimKeeps ==
  ASSUME ClientInv, UNCHANGED work,
         EndGrace \/ \E i \in IDs, f \in Files : OpenPrevious(i, f)
  PROVE  ClientInv'
<1>1. IdentityInv /\ LeaseInv /\ BootsInv /\ RememberedInv /\ FirstBootInv
  BY DEF ClientInv
<1>2. UNCHANGED <<clientVars, timerVars, bootVerifiers, boot, prior, quiet>>
  BY DEF EndGrace, OpenPrevious
<1>3. opens' \subseteq Records \X Files
  <2>1. CASE EndGrace
    BY <1>1, <2>1 DEF EndGrace, BootsInv
  <2>2. CASE \E i \in IDs, f \in Files : OpenPrevious(i, f)
    <3>1. PICK r \in confirmed, f \in Files : opens' = opens \cup {<<r, f>>}
      BY <2>2 DEF OpenPrevious
    <3>2. QED
      BY <1>1, <3>1, SMTT(20) DEF IdentityInv, TablesTyped, Used, BootsInv
  <2>3. QED
    BY <2>1, <2>2
<1>4. grace'.expected \subseteq Names /\ grace'.reclaimed \subseteq grace'.expected
  <2>1. CASE EndGrace
    BY <1>1, <2>1 DEF EndGrace, Grace, BootsInv
  <2>2. CASE \E i \in IDs, f \in Files : OpenPrevious(i, f)
    <3>1. PICK n : grace' = Counted(n)
      BY <2>2 DEF OpenPrevious
    <3>2. CASE n \notin grace.expected
      BY <1>1, <3>1, <3>2 DEF Counted, BootsInv
    <3>3. CASE n \in grace.expected
      BY <1>1, <3>1, <3>3 DEF Counted, Grace, BootsInv
    <3>4. QED
      BY <3>2, <3>3
  <2>3. QED
    BY <2>1, <2>2
<1>5. /\ recovery' \in [Names -> [boot : {0} \cup Boots, complete : BOOLEAN]]
      /\ \A n \in Names : recovery'[n].boot = recovery[n].boot
  <2>1. CASE EndGrace
    BY <1>1, <2>1 DEF EndGrace, BootsInv
  <2>2. CASE \E i \in IDs, f \in Files : OpenPrevious(i, f)
    <3>1. PICK n : recovery' = [recovery EXCEPT ![n] = [boot |-> recovery[n].boot, complete |-> TRUE]]
      BY <2>2 DEF OpenPrevious
    <3>2. \A m \in Names : recovery[m] \in [boot : {0} \cup Boots, complete : BOOLEAN]
      BY <1>1 DEF BootsInv
    <3>3. \A m \in Names : recovery'[m] =
            IF m = n THEN [boot |-> recovery[n].boot, complete |-> TRUE] ELSE recovery[m]
      BY <1>1, <3>1 DEF BootsInv
    <3>4. ASSUME NEW m \in Names
          PROVE  /\ recovery'[m] \in [boot : {0} \cup Boots, complete : BOOLEAN]
                 /\ recovery'[m].boot = recovery[m].boot
      <4>1. CASE m = n
        <5>1. recovery'[m] = [boot |-> recovery[m].boot, complete |-> TRUE]
          BY <3>3, <4>1
        <5>2. QED
          BY <3>2, <5>1, SMTT(20)
      <4>2. CASE m # n
        BY <3>2, <3>3, <4>2
      <4>3. QED
        BY <4>1, <4>2
    <3>5. QED
      BY <1>1, <3>1, <3>4 DEF BootsInv
  <2>3. QED
    BY <2>1, <2>2
<1>6. QED
  BY <1>1, <1>2, <1>3, <1>4, <1>5, IdentitySame, LeaseSame
  DEF ClientInv, clientVars, timerVars, BootsInv, RememberedInv, FirstBootInv, Does

\* A restart: the durable records become the verifier gate.
LEMMA RestartKeeps ==
  ASSUME ClientInv, Restart, UNCHANGED work
  PROVE  ClientInv'
<1> USE ClientConstants
<1>1. IdentityInv /\ LeaseInv /\ BootsInv /\ RememberedInv /\ FirstBootInv
  BY DEF ClientInv
<1>2. /\ clientsByID' = [i \in IDs |-> 0] /\ clientsByName' = [n \in Names |-> 0]
      /\ unconfirmedByName' = [n \in Names |-> 0] /\ confirmed' = {}
      /\ lease' = [k \in Records |-> NoLease] /\ fired' = {} /\ due' = {} /\ opens' = {}
      /\ bootVerifiers' = [n \in Names |-> recovery[n].boot]
      /\ prior' = [n \in Names |-> IF clientsByName[n] = 0 THEN prior[n]
                                   ELSE rec[clientsByName[n]].boot]
      /\ UNCHANGED <<rec, nextRec, recovery, boot, quiet>>
  BY DEF Restart, Forgotten
<1>3. grace'.expected \subseteq Names /\ grace'.reclaimed = {}
  BY DEF Restart, Grace
<1>4. IdentityInv'
  <2>1. ReachedByID' /\ ConfirmedNamed' /\ PendingNamed' /\ ReachedPending' /\ ReachedConfirmed'
    BY <1>2 DEF ReachedByID, ConfirmedNamed, PendingNamed, ReachedPending, ReachedConfirmed
  <2>2. QED
    BY <1>1, <1>2, <2>1 DEF IdentityInv, RecordsTyped, TablesTyped, ConfirmedIDs, OwnIDs, Does
<1>5. \A n \in Names : clientsByName[n] # 0 => Used(clientsByName[n])
  BY <1>1 DEF IdentityInv, ConfirmedNamed, TablesTyped
<1>6. BootsInv'
  BY <1>1, <1>2, <1>3, <1>5, RecordFacts DEF BootsInv, IdentityInv, Used
<1>7. QED
  BY <1>1, <1>2, <1>4, <1>5, <1>6, SMTT(20)
  DEF ClientInv, LeaseInv, NoLease, Does, RememberedInv, FirstBootInv, Used

\* A client reboots.
LEMMA RebootKeeps ==
  ASSUME ClientInv, NEW n \in Names, ClientReboots(n), UNCHANGED work
  PROVE  ClientInv'
<1> USE ClientConstants
<1>1. /\ Does("reboot") /\ boot[n] < MaxBoot
      /\ boot' = [boot EXCEPT ![n] = boot[n] + 1]
      /\ UNCHANGED <<clientVars, timerVars, opens, stableVars, prior, quiet>>
  BY DEF ClientReboots
<1>2. QED
  BY <1>1, IdentitySame, LeaseSame, SMTT(20)
  DEF ClientInv, clientVars, timerVars, BootsInv, Boots, stableVars, RememberedInv,
      FirstBootInv, Does

-----------------------------------------------------------------------------
(* The theorems.                                                           *)

\* Every request, timer, restart and reboot keeps the invariant.
LEMMA ClientInvStep == ClientInv /\ ClientStep => ClientInv'
<1> SUFFICES ASSUME ClientInv, ClientStep PROVE ClientInv'
  OBVIOUS
<1>1. CASE ClientNext40 /\ UNCHANGED work
  <2>1. ASSUME NEW n \in Names, ClientReboots(n) \/ \E b \in 1..boot[n] : SetClientID(n, b)
        PROVE  ClientInv'
    BY <1>1, <2>1, RebootKeeps, SetClientIDKeeps
  <2>2. ASSUME NEW k \in Records, ConfirmClientID(k) \/ TimerFires(k) \/ TimerChecks(k)
        PROVE  ClientInv'
    BY <1>1, <2>2, ConfirmKeeps, TimerKeeps
  <2>3. ASSUME NEW i \in IDs, RenewLease(i) \/ OnLeaseExpired(i) \/ EvictV40Client(i)
        PROVE  ClientInv'
    BY <1>1, <2>3, RenewKeeps, ExpiredKeeps
  <2>4. ASSUME NEW i \in IDs, NEW f \in Files, OpenNull(i, f) \/ OpenPrevious(i, f)
        PROVE  ClientInv'
    BY <1>1, <2>4, OpenNullKeeps, ReclaimKeeps
  <2>5. CASE Tick \/ EndGrace \/ Restart
    BY <1>1, <2>5, TickKeeps, ReclaimKeeps, RestartKeeps
  <2>6. QED
    BY <1>1, <2>1, <2>2, <2>3, <2>4, <2>5 DEF ClientNext40
<1>2. CASE UNCHANGED clientSpecVars
  BY <1>2, IdentitySame, LeaseSame, BootsSame
  DEF clientSpecVars, v40Vars, ClientInv, clientVars, timerVars, BootsInv
<1>3. QED
  BY <1>1, <1>2 DEF ClientStep

\* The inductive invariant of the NFSv4.0 clients, for any numbers of names,
\* records, boots and ticks of the lease.
THEOREM ClientStateInvariant == ClientSpec => []ClientInv
<1>1. ClientInit => ClientInv
  BY ClientInvInit
<1>2. ClientInv /\ [ClientNext40 /\ UNCHANGED work]_<<v40Vars, work>> => ClientInv'
  BY ClientInvStep DEF ClientStep, clientSpecVars
<1>3. QED
  BY <1>1, <1>2, PTL DEF ClientSpec

\* The tables by id and by name agree (SetClientID, ConfirmClientID,
\* onLeaseExpired, EvictV40Client).
THEOREM ClientTablesAgree == ClientSpec => [](ClientTypeOK /\ IdentityAgrees)
<1>1. ClientInv => ClientTypeOK /\ IdentityAgrees
  BY ClientInvImplies
<1>2. QED
  BY <1>1, ClientStateInvariant, PTL

\* The step of a confirmation, for ConfirmsLatest.
LEMMA ConfirmsLatestStep ==
  ASSUME ClientInv, ClientStep
  PROVE  [\A k \in confirmed' \ confirmed :
            \A j \in Records : rec[j].name = rec[k].name => j <= k]_v40Vars
<1> SUFFICES ASSUME NEW k \in confirmed' \ confirmed,
                    NEW j \in Records, rec[j].name = rec[k].name
             PROVE  j <= k
  OBVIOUS
<1>1. k \in Records /\ ConfirmClientID(k)
  <2>1. CASE \E x \in Records : ConfirmClientID(x)
    <3>1. PICK x \in Records : ConfirmClientID(x)
      BY <2>1
    <3>2. QED
      BY <3>1 DEF ConfirmClientID
  <2>2. CASE confirmed' \subseteq confirmed
    BY <2>2
  <2>3. ClientStep => (\E x \in Records : ConfirmClientID(x)) \/ confirmed' \subseteq confirmed
    BY DEF ClientStep, ClientNext40, ClientReboots, SetClientID, TimerFires, TimerChecks,
           RenewLease, OnLeaseExpired, EvictV40Client, RemoveRecord, OpenNull, OpenPrevious,
           Tick, EndGrace, Restart, clientVars, clientSpecVars, v40Vars
  <2>4. QED
    BY <2>1, <2>2, <2>3
<1>2. rec[k].name \in Names /\ unconfirmedByName[rec[k].name] = k /\ k # 0
  BY <1>1, PendingFacts, ClientConstants, SMTT(20) DEF ClientInv, Records, ConfirmClientID
<1>3. j < nextRec
  BY <1>2, ClientConstants, SMTT(20) DEF ClientInv, IdentityInv, RecordsTyped, Unset
<1>4. QED
  BY <1>2, <1>3 DEF ClientInv, IdentityInv, PendingNamed

\* A confirmation promotes the last record of its client only, whatever
\* requests are late or repeated (SetClientID, ConfirmClientID).
THEOREM ConfirmsOnlyLatest == ClientSpec => ConfirmsLatest
<1>1. ClientInv /\ [ClientNext40 /\ UNCHANGED work]_<<v40Vars, work>> =>
        [\A k \in confirmed' \ confirmed :
           \A j \in Records : rec[j].name = rec[k].name => j <= k]_v40Vars
  BY ConfirmsLatestStep DEF ClientStep, clientSpecVars
<1>2. QED
  BY <1>1, ClientStateInvariant, PTL DEF ClientSpec, ConfirmsLatest

\* The step of an expiry, for LeaseHonoured.
LEMMA LeaseHonouredStep ==
  ASSUME ClientInv, ClientStep
  PROVE  [\A i \in due' \ due : Does("reset") \/ quiet[i] >= LeaseTicks]_v40Vars
<1> SUFFICES ASSUME NEW i \in due' \ due, ~Does("reset")
             PROVE  quiet[i] >= LeaseTicks
  OBVIOUS
<1>1. PICK k \in Records : Lapsed(k) /\ i = rec[k].id
  <2>1. (\E x \in Records : TimerChecks(x)) \/ due' \subseteq due
    BY DEF ClientStep, ClientNext40, ClientReboots, SetClientID, ConfirmClientID, TimerFires,
           RenewLease, OnLeaseExpired, EvictV40Client, RemoveRecord, OpenNull, OpenPrevious,
           Tick, EndGrace, Restart, clientVars, timerVars, clientSpecVars, v40Vars
  <2>2. PICK x \in Records : TimerChecks(x)
    BY <2>1
  <2>3. QED
    BY <2>2 DEF TimerChecks
<1>2. QED
  BY <1>1, ClientConstants, SMTT(20)
  DEF ClientInv, IdentityInv, OwnIDs, TablesTyped, Used, LeaseInv, IDs, Lapsed, NoLease

\* A client that renews in time is not expired, whenever its timer fires
\* (RenewLease, NewLeaseState).
THEOREM LeasesHonoured == ClientSpec => LeaseHonoured
<1>1. ClientInv /\ [ClientNext40 /\ UNCHANGED work]_<<v40Vars, work>> =>
        [\A i \in due' \ due : Does("reset") \/ quiet[i] >= LeaseTicks]_v40Vars
  BY LeaseHonouredStep DEF ClientStep, clientSpecVars
<1>2. QED
  BY <1>1, ClientStateInvariant, PTL DEF ClientSpec, LeaseHonoured

\* Evictions and reboots do not come together.
Apart40 == ~Does("evict") \/ ~Does("reboot")

\* The step of a reclaim, for RebootedNeverReclaims.
LEMMA RebootedStep ==
  ASSUME ClientInv, ClientStep, Apart40
  PROVE  [grace.active =>
            \A o \in opens' \ opens : prior[rec[o[1]].name] \in {0, rec[o[1]].boot}]_v40Vars
<1> SUFFICES ASSUME grace.active, NEW o \in opens' \ opens
             PROVE  prior[rec[o[1]].name] \in {0, rec[o[1]].boot}
  OBVIOUS
<1>1. PICK i \in IDs, f \in Files : OpenPrevious(i, f)
  <2>1. (\E x \in IDs, f \in Files : OpenPrevious(x, f)) \/ opens' \subseteq opens
    BY DEF ClientStep, ClientNext40, ClientReboots, SetClientID, ConfirmClientID, TimerFires,
           TimerChecks, RenewLease, OnLeaseExpired, EvictV40Client, RemoveRecord, OpenNull,
           Tick, EndGrace, Restart, clientSpecVars, v40Vars
  <2>2. QED
    BY <2>1
<1>2. PICK r : r = clientsByID[i] /\ r \in confirmed /\ MayReclaim(r) /\ o = <<r, f>>
  BY <1>1 DEF OpenPrevious
<1>3. o[1] = r /\ r \in Records /\ r < nextRec
  BY <1>2 DEF ClientInv, IdentityInv, TablesTyped, Used
<1>4. PICK n \in Names : n = rec[r].name
  BY <1>3, RecordFacts DEF ClientInv, IdentityInv
<1>5. CASE ~Does("evict")
  BY <1>2, <1>3, <1>4, <1>5 DEF ClientInv, RememberedInv, MayReclaim
<1>6. CASE ~Does("reboot")
  BY <1>3, <1>4, <1>6 DEF ClientInv, FirstBootInv
<1>7. QED
  BY <1>5, <1>6 DEF Apart40

\* No incarnation of a client but the one that was confirmed before a restart
\* reclaims its files, through any number of restarts, reboots and expiries
\* (LoadClientRecovery, validateReclaimVerifier), unless clients that reboot
\* are evicted as well: an eviction of a pending record takes the durable record
\* of the confirmed one.
THEOREM RebootedReclaimsNothing == ClientSpec /\ []Apart40 => RebootedNeverReclaims
<1>1. ClientInv /\ Apart40 /\ [ClientNext40 /\ UNCHANGED work]_<<v40Vars, work>> =>
        [grace.active =>
           \A o \in opens' \ opens : prior[rec[o[1]].name] \in {0, rec[o[1]].boot}]_v40Vars
  BY RebootedStep DEF ClientStep, clientSpecVars
<1>2. QED
  BY <1>1, ClientStateInvariant, PTL DEF ClientSpec, RebootedNeverReclaims

-----------------------------------------------------------------------------
(* The backchannel *)

\* What a request goroutine carries from step to step.
RequestStates ==
  {Free} \cup [pc : {"lookup", "bind"}, conn : Conns, session : BackSessions, dir : Dirs]
         \cup [pc : {"check"}, conn : Conns]
         \cup [pc : {"pending", "register", "start"}, conn : Conns, session : BackSessions]
         \cup [pc : {"store"}, conn : Conns, session : BackSessions, replies : Nat]

BindingTyped ==
  /\ connByID \in [Conns -> [session : BackSessions, dir : Dirs] \cup {Unbound}]
  /\ connBySession \in [BackSessions -> SUBSET Bindings]

RequestTyped == request \in [Requests -> RequestStates] /\ made \in Nat

SessionTyped ==
  /\ session \in [BackSessions -> {"new", "live", "gone"}]
  /\ sender \in [BackSessions -> {"none", "running", "stopped", "exited"}]

BackInv == BindingTyped /\ RequestTyped /\ SessionTyped /\ BindingsAgree /\ NoOrphanSender

-----------------------------------------------------------------------------

\* What a request carries, by where it is.
LEMMA Carried ==
  ASSUME NEW q \in RequestStates
  PROVE  /\ q.pc \in {"lookup", "bind"} =>
              q \in [pc : {"lookup", "bind"}, conn : Conns, session : BackSessions, dir : Dirs]
         /\ q.pc = "check" => q \in [pc : {"check"}, conn : Conns]
         /\ q.pc \in {"pending", "register", "start"} =>
              q \in [pc : {"pending", "register", "start"}, conn : Conns, session : BackSessions]
         /\ q.pc = "store" =>
              q \in [pc : {"store"}, conn : Conns, session : BackSessions, replies : Nat]
<1>1. CASE q = Free
  BY <1>1 DEF Free
<1>2. CASE q \in [pc : {"lookup", "bind"}, conn : Conns, session : BackSessions, dir : Dirs]
  BY <1>2
<1>3. CASE q \in [pc : {"check"}, conn : Conns]
  BY <1>3
<1>4. CASE q \in [pc : {"pending", "register", "start"}, conn : Conns, session : BackSessions]
  BY <1>4
<1>5. CASE q \in [pc : {"store"}, conn : Conns, session : BackSessions, replies : Nat]
  BY <1>5
<1>6. QED
  BY <1>1, <1>2, <1>3, <1>4, <1>5 DEF RequestStates

\* A step of a request leaves a request.
LEMMA RequestStep1 ==
  ASSUME BackInv, NEW t \in Requests, RequestStep(t)
  PROVE  RequestTyped'
<1>1. request \in [Requests -> RequestStates] /\ made \in Nat /\ request[t] \in RequestStates
  BY DEF BackInv, RequestTyped
<1>2. CASE LookupSession(t)
  <2>1. request[t] \in [pc : {"lookup", "bind"}, conn : Conns, session : BackSessions, dir : Dirs]
    BY <1>1, <1>2, Carried DEF LookupSession, At
  <2>2. /\ [request[t] EXCEPT !.pc = "bind"] \in RequestStates
        /\ [pc |-> "check", conn |-> request[t].conn] \in RequestStates
    BY <2>1 DEF RequestStates
  <2>3. QED
    BY <1>1, <1>2, <2>2 DEF LookupSession, Goto, RequestTyped, registerVars
<1>3. CASE BindConn(t)
  <2>1. request[t].conn \in Conns
    BY <1>1, <1>3, Carried DEF BindConn, At
  <2>2. QED
    BY <1>1, <1>3, <2>1 DEF BindConn, Goto, RequestTyped, RequestStates
<1>4. CASE CheckBinding(t)
  <2>1. request[t].conn \in Conns
    BY <1>1, <1>4, Carried DEF CheckBinding, At
  <2>2. QED
    BY <1>1, <1>4, <2>1, SMTT(20)
    DEF CheckBinding, Goto, RequestTyped, registerVars, RequestStates, BackInv, BindingTyped,
        Unbound, BackDirs
<1>5. CASE CheckPending(t)
  <2>1. request[t] \in [pc : {"pending", "register", "start"}, conn : Conns, session : BackSessions]
    BY <1>1, <1>5, Carried DEF CheckPending, At
  <2>2. [request[t] EXCEPT !.pc = "register"] \in RequestStates /\ Free \in RequestStates
    BY <2>1 DEF RequestStates
  <2>3. QED
    BY <1>1, <1>5, <2>2 DEF CheckPending, Goto, RequestTyped
<1>6. CASE RegisterConnWriter(t)
  <2>1. request[t].conn \in Conns /\ request[t].session \in BackSessions
    BY <1>1, <1>6, Carried DEF RegisterConnWriter, At
  <2>2. made + 1 \in Nat
    BY <1>1, SMTT(20)
  <2>3. QED
    BY <1>1, <1>6, <2>1, <2>2 DEF RegisterConnWriter, Goto, RequestTyped, RequestStates
<1>7. CASE StorePending(t)
  <2>1. request[t].conn \in Conns /\ request[t].session \in BackSessions
    BY <1>1, <1>7, Carried DEF StorePending, At
  <2>2. QED
    BY <1>1, <1>7, <2>1 DEF StorePending, Goto, RequestTyped, RequestStates, registerVars
<1>8. CASE StartBackchannelSender(t)
  BY <1>1, <1>8 DEF StartBackchannelSender, Goto, RequestTyped, RequestStates, registerVars
<1>9. QED
  BY <1>2, <1>3, <1>4, <1>5, <1>6, <1>7, <1>8 DEF RequestStep

\* A bind moves one connection, in both maps.
LEMMA BindStep ==
  ASSUME BackInv, NEW t \in Requests, BindConn(t)
  PROVE  (BindingTyped /\ BindingsAgree)'
<1> DEFINE c == request[t].conn
           s == request[t].session
           d == request[t].dir
           rest == IF Unbinds(c, s)
                   THEN [connBySession EXCEPT ![connByID[c].session] = {b \in @ : b.conn # c}]
                   ELSE connBySession
<1>1. c \in Conns /\ s \in BackSessions /\ d \in Dirs
  <2>1. request[t] \in RequestStates /\ request[t].pc = "bind"
    BY DEF BackInv, RequestTyped, BindConn, At
  <2>2. request[t] \in [pc : {"lookup", "bind"}, conn : Conns, session : BackSessions, dir : Dirs]
    BY <2>1, Carried
  <2>3. QED
    BY <2>2
<1>2. BindingTyped /\ BindingsAgree
  BY DEF BackInv
<1>3. rest \in [BackSessions -> SUBSET Bindings]
  BY <1>1, <1>2 DEF BindingTyped, Unbinds, Bound
<1>4. \A k \in Conns, q \in BackSessions, e \in Dirs :
        [conn |-> k, dir |-> e] \in rest[q] <=>
           [conn |-> k, dir |-> e] \in connBySession[q] /\ ~ (k = c /\ Unbinds(c, s))
  <2> SUFFICES ASSUME NEW k \in Conns, NEW q \in BackSessions, NEW e \in Dirs
               PROVE  [conn |-> k, dir |-> e] \in rest[q] <=>
                        [conn |-> k, dir |-> e] \in connBySession[q] /\ ~ (k = c /\ Unbinds(c, s))
    OBVIOUS
  <2>1. CASE ~ Unbinds(c, s)
    BY <2>1
  <2>2. CASE Unbinds(c, s)
    BY <1>1, <1>2, <2>2, SMTT(20) DEF BindingTyped, Unbinds, Bound, BindingsAgree
  <2>3. QED
    BY <2>1, <2>2
<1> HIDE DEF rest
<1>5. CASE /\ connByID' = [connByID EXCEPT ![c] = [session |-> s, dir |-> d]]
           /\ connBySession' = [rest EXCEPT ![s] = Others(s, c) \cup {[conn |-> c, dir |-> d]}]
  <2>1. BindingTyped'
    BY <1>1, <1>2, <1>3, <1>5, SMTT(20) DEF BindingTyped, Others, Bindings
  <2>2. ASSUME NEW k \in Conns, NEW q \in BackSessions, NEW e \in Dirs
        PROVE  [conn |-> k, dir |-> e] \in connBySession'[q]
                 <=> connByID'[k] = [session |-> q, dir |-> e]
    <3>1. [conn |-> k, dir |-> e] \in connBySession[q] <=> connByID[k] = [session |-> q, dir |-> e]
      BY <1>2 DEF BindingsAgree
    <3>2. CASE k # c
      BY <1>1, <1>2, <1>3, <1>4, <1>5, <3>1, <3>2 DEF BindingTyped, Others
    <3>3. CASE k = c
      <4>1. connByID'[k] = [session |-> s, dir |-> d]
        BY <1>1, <1>2, <1>5, <3>3 DEF BindingTyped
      <4>2. CASE q = s
        BY <1>1, <1>3, <1>5, <3>3, <4>1, <4>2, SMTT(20) DEF Others
      <4>3. CASE q # s
        <5>1. [conn |-> k, dir |-> e] \notin connBySession'[q]
          <6>1. connByID[c] = [session |-> q, dir |-> e] => Unbinds(c, s)
            BY <4>3, SMTT(20) DEF Unbinds, Bound, Unbound, Dirs
          <6>2. QED
            BY <1>1, <1>3, <1>4, <1>5, <3>1, <3>3, <4>3, <6>1
        <5>2. QED
          BY <4>1, <4>3, <5>1, SMTT(20)
      <4>4. QED
        BY <4>2, <4>3
    <3>4. QED
      BY <3>2, <3>3
  <2>3. QED
    BY <2>1, <2>2 DEF BindingsAgree
<1>6. CASE /\ connByID' = IF Unbinds(c, s) THEN [connByID EXCEPT ![c] = Unbound] ELSE connByID
           /\ connBySession' = rest
  <2>1. ASSUME NEW k \in Conns, NEW q \in BackSessions, NEW e \in Dirs
        PROVE  [conn |-> k, dir |-> e] \in connBySession'[q]
                 <=> connByID'[k] = [session |-> q, dir |-> e]
    <3>1. [conn |-> k, dir |-> e] \in connBySession[q] <=> connByID[k] = [session |-> q, dir |-> e]
      BY <1>2 DEF BindingsAgree
    <3>2. QED
      BY <1>1, <1>2, <1>4, <1>6, <3>1 DEF BindingTyped, Unbound, Dirs
  <2>2. QED
    BY <1>1, <1>2, <1>3, <1>6, <2>1 DEF BindingsAgree, BindingTyped
<1>7. QED
  BY <1>5, <1>6 DEF BindConn, rest

-----------------------------------------------------------------------------

\* Steps that leave the bindings, the sessions and the senders alone.
LEMMA QuietStep ==
  ASSUME BackInv, RequestTyped', UNCHANGED <<session, bindVars, sender>>
  PROVE  BackInv'
  BY DEF BackInv, BindingTyped, SessionTyped, BindingsAgree, NoOrphanSender, LiveSession,
         bindVars

\* A sweep drops the same bindings from both maps.
LEMMA SweepStep ==
  ASSUME BackInv, NEW S, Sweep(S)
  PROVE  (BindingTyped /\ BindingsAgree)'
<1>1. BindingTyped /\ BindingsAgree
  BY DEF BackInv
<1>2. ASSUME NEW k \in Conns, NEW q \in BackSessions, NEW e \in Dirs
      PROVE  [conn |-> k, dir |-> e] \in connBySession'[q]
               <=> connByID'[k] = [session |-> q, dir |-> e]
  <2>1. Unbound # [session |-> q, dir |-> e]
    BY DEF Unbound, Dirs
  <2>2. QED
    BY <1>1, <2>1, SMTT(20) DEF Sweep, BindingsAgree
<1>3. QED
  BY <1>1, <1>2 DEF BindingsAgree, BindingTyped, Sweep

\* DESTROY_SESSION drops the bindings the session lists.
LEMMA DestroyStep ==
  ASSUME BackInv, NEW s \in BackSessions, DestroyBackSession(s)
  PROVE  (BindingTyped /\ BindingsAgree)'
<1>1. BindingTyped /\ BindingsAgree
  BY DEF BackInv
<1>2. ASSUME NEW k \in Conns, NEW q \in BackSessions, NEW e \in Dirs
      PROVE  [conn |-> k, dir |-> e] \in connBySession'[q]
               <=> connByID'[k] = [session |-> q, dir |-> e]
  <2>1. \A p \in BackSessions, x \in Dirs :
          [conn |-> k, dir |-> x] \in connBySession[p] <=> connByID[k] = [session |-> p, dir |-> x]
    BY <1>1 DEF BindingsAgree
  <2>2. CASE \E b \in connBySession[s] : b.conn = k
    <3>1. PICK x \in Dirs : [conn |-> k, dir |-> x] \in connBySession[s]
      <4>1. PICK b \in connBySession[s] : b.conn = k
        BY <2>2
      <4>2. b \in Bindings
        BY <1>1 DEF BindingTyped
      <4>3. QED
        BY <4>1, <4>2 DEF Bindings
    <3>2. connByID[k].session = s
      <4>1. connByID[k] = [session |-> s, dir |-> x]
        BY <2>1, <3>1
      <4>2. QED
        BY <4>1, SMTT(20)
    <3>3. QED
      BY <1>1, <2>1, <2>2, <3>2, SMTT(20) DEF DestroyBackSession, BindingTyped, Unbound, Dirs
  <2>3. CASE ~ \E b \in connBySession[s] : b.conn = k
    BY <1>1, <2>1, <2>3, SMTT(20) DEF DestroyBackSession, BindingTyped
  <2>4. QED
    BY <2>2, <2>3
<1>3. QED
  BY <1>1, <1>2 DEF BindingsAgree, BindingTyped, DestroyBackSession

\* Before a session goes its sender is stopped.
LEMMA EndStep ==
  ASSUME BackInv,
         \/ \E s \in BackSessions : /\ sender' = Stopped({s})
                                    /\ session' = [session EXCEPT ![s] = "gone"]
         \/ sender' = Stopped(BackSessions) /\ session' = Ended
  PROVE  (SessionTyped /\ NoOrphanSender)'
  BY SMTT(20) DEF BackInv, SessionTyped, NoOrphanSender, LiveSession, Stopped, Ended

\* The inductive step.
LEMMA BackStep == BackInv /\ [BackNext]_backVars => BackInv'
<1> SUFFICES ASSUME BackInv, [BackNext]_backVars PROVE BackInv'
  OBVIOUS
<1>1. /\ request \in [Requests -> RequestStates] /\ made \in Nat
      /\ \A c \in Conns, s \in BackSessions, d \in Dirs :
           [pc |-> "lookup", conn |-> c, session |-> s, dir |-> d] \in RequestStates
      /\ \A c \in Conns : [pc |-> "check", conn |-> c] \in RequestStates
      /\ "fore" \in Dirs
  BY DEF BackInv, RequestTyped, RequestStates, Dirs
<1>2. ASSUME NEW t \in Requests, RequestStep(t) PROVE BackInv'
  <2>1. RequestTyped'
    BY <1>2, RequestStep1
  <2>2. CASE BindConn(t)
    BY <2>1, <2>2, BindStep DEF BackInv, BindConn, SessionTyped, NoOrphanSender, LiveSession
  <2>3. CASE StartBackchannelSender(t)
    <3>1. (SessionTyped /\ NoOrphanSender)'
      BY <1>1, <2>3, SMTT(20)
      DEF BackInv, SessionTyped, NoOrphanSender, StartBackchannelSender, MayStart, LiveSession,
          At, RequestStates, Free
    <3>2. QED
      BY <2>1, <2>3, <3>1
      DEF BackInv, BindingTyped, BindingsAgree, StartBackchannelSender, bindVars
  <2>4. CASE \/ LookupSession(t) \/ CheckBinding(t) \/ CheckPending(t)
             \/ RegisterConnWriter(t) \/ StorePending(t)
    BY <2>1, <2>4, QuietStep
    DEF LookupSession, CheckBinding, CheckPending, RegisterConnWriter, StorePending
  <2>5. QED
    BY <1>2, <2>2, <2>3, <2>4 DEF RequestStep
<1>3. ASSUME NEW t \in Requests, NEW c \in Conns,
             OtherCompound(t, c) \/ \E s \in BackSessions, d \in Dirs : BindRequest(t, c, s, d)
      PROVE  BackInv'
  BY <1>1, <1>3, QuietStep, SMTT(20)
  DEF OtherCompound, BindRequest, Goto, RequestTyped, registerVars
<1>4. ASSUME NEW t \in Requests, NEW c \in Conns, NEW s \in BackSessions,
             CreateBackSession(t, c, s)
      PROVE  BackInv'
  <2>1. (SessionTyped /\ NoOrphanSender)'
    BY <1>4 DEF BackInv, SessionTyped, NoOrphanSender, LiveSession, CreateBackSession
  <2>2. QED
    BY <1>1, <1>4, <2>1
    DEF BackInv, BindingTyped, BindingsAgree, CreateBackSession, bindVars, RequestTyped,
        registerVars
<1>5. ASSUME NEW s \in BackSessions, DestroyBackSession(s) PROVE BackInv'
  BY <1>1, <1>5, DestroyStep, EndStep
  DEF BackInv, DestroyBackSession, RequestTyped, registerVars
<1>6. ASSUME NEW s \in BackSessions, EnqueueCallback(s) \/ SenderStep(s) PROVE BackInv'
  BY <1>1, <1>6, QuietStep
  DEF EnqueueCallback, SenderStep, Dequeue, FindConn, WriteCallback, CallbackReply,
      CallbackFails, Backoff, RequestTyped, registerVars
<1>7. ASSUME NEW s \in BackSessions, SenderExits(s) PROVE BackInv'
  BY <1>1, <1>7
  DEF BackInv, BindingTyped, RequestTyped, SessionTyped, BindingsAgree, NoOrphanSender,
      LiveSession, SenderExits, bindVars, registerVars
<1>8. CASE PurgeClient
  BY <1>1, <1>8, EndStep
  DEF PurgeClient, BackInv, BindingTyped, RequestTyped, BindingsAgree, bindVars, registerVars
<1>9. CASE Reap
  BY <1>1, <1>9, SweepStep
  DEF Reap, BackInv, RequestTyped, SessionTyped, NoOrphanSender, LiveSession, registerVars
<1>10. CASE ReapExpired
  BY <1>1, <1>10, SweepStep, EndStep DEF ReapExpired, BackInv, RequestTyped, registerVars
<1>11. ASSUME NEW c \in Conns, Disconnect(c) PROVE BackInv'
  BY <1>1, <1>11, QuietStep DEF Disconnect, RequestTyped, registerVars
<1>12. CASE UNCHANGED backVars
  BY <1>1, <1>12, QuietStep DEF backVars, RequestTyped, registerVars
<1>13. QED
  BY <1>2, <1>3, <1>4, <1>5, <1>6, <1>7, <1>8, <1>9, <1>10, <1>11, <1>12 DEF BackNext

\* Nothing is bound and no session exists.
LEMMA BackInvInit == BackInit => BackInv
<1> SUFFICES ASSUME BackInit PROVE BackInv
  OBVIOUS
<1>1. QED
  BY DEF BackInv, BackInit, BindingTyped, RequestTyped, RequestStates, SessionTyped,
         NoOrphanSender, BindingsAgree, Unbound, Dirs

\* The invariant holds in every run of the back channel.
THEOREM BackInvariant == BackSpec => []BackInv
<1>1. BackInv /\ [BackNext /\ UNCHANGED work]_<<backVars, work>> => BackInv'
  BY BackStep
<1>2. QED
  BY <1>1, BackInvInit, PTL DEF BackSpec

\* Whatever binds, rebinds, destroys, purges and sweeps interleave, connByID and
\* connBySession list the same bindings (manager.go BindConnToSession,
\* destroySessionLocked, reapExpiredSessions).
THEOREM BindingMapsAgree == BackSpec => []BindingsAgree
<1>1. BackInv => BindingsAgree
  BY DEF BackInv
<1>2. QED
  BY <1>1, BackInvariant, PTL

\* However late a request starts the sender of the session it was bound to, none
\* runs without its session (manager.go StartBackchannelSender,
\* stopBackchannelSender).
THEOREM SendersHaveSessions == BackSpec => []NoOrphanSender
<1>1. BackInv => NoOrphanSender
  BY DEF BackInv
<1>2. QED
  BY <1>1, BackInvariant, PTL

-----------------------------------------------------------------------------
(* Delegations *)

Granted == [client : Holders, file : DelegFiles, kind : Kinds]
OpenStates == {Idle} \cup [at : {"checked", "opened", "granting"}, file : DelegFiles,
                           access : Kinds]

HandlerTyped ==
  /\ known \subseteq Holders
  /\ handler \in [Holders -> OpenStates]

\* The tables list delegations that were granted, each under its file unless it
\* was revoked: the part of DelegIndexesAgree that says which.
TableTyped ==
  /\ nextDeleg \in Nat /\ delegByOther \subseteq Delegs /\ revoked \subseteq delegByOther
  /\ deleg \in [Delegs -> Granted \cup {Undefined}]
  /\ \A d \in delegByOther : d < nextDeleg /\ deleg[d] \in Granted
  /\ delegByFile \in [DelegFiles -> SUBSET Delegs]
  /\ \A f \in DelegFiles, d \in Delegs :
       d \in delegByFile[f] <=> d \in delegByOther \ revoked /\ deleg[d].file = f

In(c, steps) == handler[c].at \in steps

\* The open of a client that has yet to decide on a delegation is recorded.
OpenRecorded ==
  \A c \in known : In(c, {"opened", "granting"}) => <<c, handler[c].file>> \in opened

\* A client that was promised a delegation is alone with the file.
AloneToGrant ==
  /\ \A c, e \in known : /\ In(c, {"granting"}) /\ In(e, {"granting"})
                         /\ handler[c].file = handler[e].file
                         => c = e
  /\ \A c \in known, d \in Delegs :
       /\ In(c, {"granting"})
       /\ d \in delegByOther \ revoked /\ deleg[d].file = handler[c].file
       /\ deleg[d].client \in known
       => deleg[d].client = c

\* OneGrantee, stated over the table rather than its per-file index.
OneClient ==
  \A d, e \in delegByOther \ revoked :
    /\ deleg[d].file = deleg[e].file
    /\ deleg[d].client \in known /\ deleg[e].client \in known
    => deleg[d].client = deleg[e].client

DelegInv == HandlerTyped /\ TableTyped /\ OpenRecorded /\ AloneToGrant /\ OneClient

-----------------------------------------------------------------------------

\* Steps that touch neither opens nor the table.
LEMMA RecallStep ==
  ASSUME DelegInv,
         UNCHANGED <<known, opened, handler, deleg, nextDeleg, delegByOther, delegByFile, revoked>>
  PROVE  DelegInv'
  BY SMTT(20) DEF DelegInv, HandlerTyped, TableTyped, OpenRecorded, AloneToGrant, OneClient, In

\* Steps by which delegations leave the table or stop to count, or clients go away.
LEMMA LeaveStep ==
  ASSUME DelegInv, TableTyped', UNCHANGED <<handler, deleg>>,
         known' \subseteq known,
         \A c \in known' : \A f \in DelegFiles : <<c, f>> \in opened => <<c, f>> \in opened',
         \A d \in delegByOther' \ revoked' : d \in delegByOther \ revoked
  PROVE  DelegInv'
  BY SMTT(20)
  DEF DelegInv, HandlerTyped, OpenStates, Idle, OpenRecorded, In, AloneToGrant, OneClient

\* Steps of the OPEN of c, up to the promise of a delegation.
LEMMA OpenStep ==
  ASSUME DelegInv, NEW c \in Holders, NEW h \in OpenStates,
         handler' = [handler EXCEPT ![c] = h],
         UNCHANGED <<known, deleg, nextDeleg, delegByOther, delegByFile, revoked>>,
         opened \subseteq opened',
         h.at \in {"opened", "granting"} => <<c, h.file>> \in opened',
         h.at = "granting" =>
           /\ \A o \in opened : o[2] = h.file => o[1] = c
           /\ delegByFile[h.file] = {}
  PROVE  DelegInv'
<1>1. \A e \in Holders : handler'[e] = IF e = c THEN h ELSE handler[e]
  BY DEF DelegInv, HandlerTyped
<1>2. ASSUME NEW a \in known, NEW e \in known, a = c, e # c, In(a, {"granting"})',
             In(e, {"granting"})', handler'[a].file = handler'[e].file
      PROVE  FALSE
  <2>1. h.at = "granting" /\ In(e, {"granting"}) /\ handler[e].file = h.file
    BY <1>1, <1>2 DEF DelegInv, HandlerTyped, In
  <2>2. QED
    BY <1>2, <2>1 DEF DelegInv, OpenRecorded, In
<1>3. ASSUME NEW a \in known, NEW d \in Delegs, In(a, {"granting"})',
             d \in delegByOther \ revoked, deleg[d].file = handler'[a].file,
             deleg[d].client \in known
      PROVE  deleg[d].client = a
  BY <1>1, <1>3, SMTT(20)
  DEF In, OpenStates, Idle, DelegInv, TableTyped, HandlerTyped, AloneToGrant
<1>4. QED
  BY <1>1, <1>2, <1>3, SMTT(20)
  DEF DelegInv, HandlerTyped, TableTyped, OneClient, OpenRecorded, In, AloneToGrant

\* The grant: its client is alone with the file, so it may have a delegation.
LEMMA GrantStep ==
  ASSUME DelegInv, NEW c \in Holders, GrantDelegation(c)
  PROVE  DelegInv'
<1> DEFINE h == handler[c]
           d == nextDeleg
<1>1. /\ h \in [at : {"checked", "opened", "granting"}, file : DelegFiles, access : Kinds]
      /\ h.at = "granting"
  BY SMTT(20) DEF DelegInv, HandlerTyped, OpenStates, Idle, GrantDelegation
<1>2. /\ handler' = [handler EXCEPT ![c] = Idle]
      /\ UNCHANGED <<known, opened, revoked>>
  BY DEF GrantDelegation
<1>3. \A e \in Holders : handler'[e] = IF e = c THEN Idle ELSE handler[e]
  BY <1>2 DEF DelegInv, HandlerTyped
<1>4. HandlerTyped'
  BY <1>2 DEF DelegInv, HandlerTyped, OpenStates
<1>5. OpenRecorded'
  BY <1>2, <1>3 DEF DelegInv, HandlerTyped, OpenRecorded, In, Idle
<1>6. CASE UNCHANGED <<deleg, nextDeleg, delegByOther, delegByFile>>
  BY <1>2, <1>3, <1>4, <1>5, <1>6, SMTT(20)
  DEF DelegInv, TableTyped, OneClient, HandlerTyped, AloneToGrant, In, Idle
<1>7. CASE /\ d \in Delegs
           /\ deleg' = [deleg EXCEPT ![d] = [client |-> c, file |-> h.file, kind |-> h.access]]
           /\ nextDeleg' = d + 1
           /\ delegByOther' = delegByOther \cup {d}
           /\ delegByFile' = [delegByFile EXCEPT ![h.file] = @ \cup {d}]
  <2>1. /\ d \notin delegByOther /\ d \notin revoked
        /\ \A e \in delegByOther : e < d /\ e \in Nat
    BY DelegConstants, SMTT(20) DEF DelegInv, TableTyped, Delegs
  <2>2. /\ deleg'[d] = [client |-> c, file |-> h.file, kind |-> h.access]
        /\ deleg'[d] \in Granted
        /\ \A e \in Delegs : e # d => deleg'[e] = deleg[e]
    <3>1. [client |-> c, file |-> h.file, kind |-> h.access] \in Granted
      BY <1>1 DEF Granted
    <3>2. deleg \in [Delegs -> Granted \cup {Undefined}]
      BY DEF DelegInv, TableTyped
    <3>3. QED
      BY <1>7, <3>1, <3>2
  <2>3. TableTyped'
    BY <1>1, <1>2, <1>7, <2>1, <2>2, SMTT(20) DEF DelegInv, TableTyped
  <2>4. OneClient'
    BY <1>1, <1>2, <1>7, <2>1, <2>2, SMTT(20)
    DEF DelegInv, OneClient, TableTyped, AloneToGrant, In
  <2>5. ASSUME NEW a \in known, In(a, {"granting"})'
        PROVE  a # c /\ handler'[a] = handler[a] /\ In(a, {"granting"})
               /\ (c \in known => handler[a].file # h.file)
    BY <1>1, <1>3, <2>5, SMTT(20) DEF DelegInv, HandlerTyped, In, Idle, AloneToGrant
  <2>6. AloneToGrant'
    BY <1>2, <1>7, <2>2, <2>5, SMTT(20) DEF DelegInv, AloneToGrant
  <2>7. QED
    BY <1>4, <1>5, <2>3, <2>4, <2>6 DEF DelegInv
<1>8. QED
  BY <1>6, <1>7 DEF GrantDelegation

\* A delegation that is returned or revoked leaves the index of its file.
LEMMA ReturnStep ==
  ASSUME DelegInv, NEW d \in Delegs, d \in delegByOther,
         UNCHANGED <<known, opened, handler, deleg, nextDeleg>>,
         delegByFile' = [delegByFile EXCEPT ![deleg[d].file] = @ \ {d}],
         \/ delegByOther' = delegByOther /\ revoked' = revoked \cup {d}
         \/ delegByOther' = delegByOther \ {d} /\ revoked' = revoked \ {d}
  PROVE  DelegInv'
<1>1. deleg[d].file \in DelegFiles
  BY DEF DelegInv, TableTyped, Granted
<1>2. delegByOther' \ revoked' = (delegByOther \ revoked) \ {d}
  OBVIOUS
<1>3. ASSUME NEW f \in DelegFiles, NEW e \in Delegs
      PROVE  e \in delegByFile'[f] <=> e \in delegByOther' \ revoked' /\ deleg'[e].file = f
  BY <1>1, <1>2, SMTT(20) DEF DelegInv, TableTyped
<1>4. QED
  BY <1>1, <1>2, <1>3, LeaveStep, SMTT(20) DEF TableTyped, DelegInv

\* A client goes away with its delegations.
LEMMA DropStep ==
  ASSUME DelegInv, NEW c \in Holders, NEW timers, DropClient(c, timers)
  PROVE  DelegInv'
<1> DEFINE mine == {d \in delegByOther : deleg[d].client = c}
<1>1. QED
  BY LeaveStep DEF DelegInv, TableTyped, DropClient

\* The inductive step.
LEMMA DelegStep == DelegInv /\ [DelegNext]_delegVars => DelegInv'
<1> SUFFICES ASSUME DelegInv, [DelegNext]_delegVars PROVE DelegInv'
  OBVIOUS
<1>1. handler \in [Holders -> OpenStates]
  BY DEF DelegInv, HandlerTyped
<1>2. ASSUME NEW c \in Holders, NEW f \in DelegFiles, Close(c, f) PROVE DelegInv'
  <2>1. /\ handler[c] = Idle /\ opened' = opened \ {<<c, f>>}
        /\ UNCHANGED <<known, handler, deleg, nextDeleg, delegByOther, delegByFile, revoked>>
    BY <1>2 DEF Close, tableVars
  <2>2. QED
    BY <2>1, SMTT(20)
    DEF DelegInv, HandlerTyped, TableTyped, AloneToGrant, OneClient, In, OpenRecorded, Idle
<1>3. ASSUME NEW c \in Holders, NEW f \in DelegFiles, NEW access \in Accesses,
             CheckDelegationConflict(c, f, access)
      PROVE  DelegInv'
  BY <1>3, RecallStep, OpenStep DEF CheckDelegationConflict, tableVars, OpenStates, Accesses
<1>4. ASSUME NEW c \in Holders, OpenTheFile(c) PROVE DelegInv'
  <2> DEFINE h == [handler[c] EXCEPT !.at = "opened"]
  <2>1. h \in OpenStates /\ h.at = "opened" /\ h.file = handler[c].file
    BY <1>1, <1>4, SMTT(20) DEF OpenStates, OpenTheFile, Idle
  <2>2. /\ handler' = [handler EXCEPT ![c] = h]
        /\ opened' = opened \cup {<<c, handler[c].file>>}
        /\ UNCHANGED <<known, deleg, nextDeleg, delegByOther, delegByFile, revoked>>
    BY <1>4 DEF OpenTheFile, tableVars
  <2> HIDE DEF h
  <2>3. QED
    BY <2>1, <2>2, OpenStep
<1>5. ASSUME NEW c \in Holders, ShouldGrantDelegation(c) PROVE DelegInv'
  <2> DEFINE h == [handler[c] EXCEPT !.at = "granting"]
  <2>1. h \in OpenStates /\ h.at = "granting" /\ h.file = handler[c].file /\ h.file \in DelegFiles
    BY <1>1, <1>5, SMTT(20) DEF OpenStates, ShouldGrantDelegation, Idle
  <2>2. UNCHANGED <<known, opened, deleg, nextDeleg, delegByOther, delegByFile, revoked>>
    BY <1>5 DEF ShouldGrantDelegation, tableVars
  <2>3. CASE Grantable(c, handler[c].file) /\ handler' = [handler EXCEPT ![c] = h]
    <3>1. delegByFile[h.file] = {}
      BY <2>1, <2>3 DEF Grantable, DelegInv, TableTyped
    <3>2. <<c, h.file>> \in opened
      BY <1>5, <2>1, <2>3 DEF Grantable, ShouldGrantDelegation, DelegInv, OpenRecorded, In
    <3> HIDE DEF h
    <3>3. QED
      BY <2>1, <2>2, <2>3, <3>1, <3>2, OpenStep DEF Grantable
  <2>4. CASE handler' = [handler EXCEPT ![c] = Idle]
    BY <2>2, <2>4, OpenStep DEF OpenStates, Idle
  <2>5. QED
    BY <1>5, <2>3, <2>4 DEF ShouldGrantDelegation
<1>6. ASSUME NEW c \in Holders, GrantDelegation(c) PROVE DelegInv'
  BY <1>6, GrantStep
<1>7. ASSUME NEW c \in Holders, LeaseExpires(c) \/ Evict(c) PROVE DelegInv'
  BY <1>7, DropStep DEF LeaseExpires, Evict
<1>8. ASSUME NEW d \in Delegs, RevokeDelegation(d) PROVE DelegInv'
  BY <1>8, ReturnStep, RecallStep DEF RevokeDelegation, openingVars, Revocable, tableVars
<1>9. ASSUME NEW d \in Delegs, ReturnDelegation(d) PROVE DelegInv'
  BY <1>9, ReturnStep DEF ReturnDelegation, openingVars
<1>10. ASSUME NEW d \in Delegs,
              \/ \E src \in {"open", "lm"} : SendRecall(d, src)
              \/ RecallTimerFires(d) \/ OnDelegationRecall(d) \/ LmRemoveDelegation(d)
       PROVE  DelegInv'
  BY <1>10, RecallStep
  DEF SendRecall, RecallTimerFires, OnDelegationRecall, LmRemoveDelegation, openingVars,
      tableVars
<1>11. ASSUME NEW f \in DelegFiles,
              RecalledLongAgo(f) \/ \E access \in Accesses : SmbBreak(f, access)
       PROVE  DelegInv'
  BY <1>11, RecallStep DEF RecalledLongAgo, SmbBreak, openingVars, tableVars
<1>12. CASE UNCHANGED delegVars
  BY <1>12, RecallStep DEF delegVars, openingVars, tableVars
<1>13. QED
  BY <1>2, <1>3, <1>4, <1>5, <1>6, <1>7, <1>8, <1>9, <1>10, <1>11, <1>12
  DEF DelegNext, ServerSteps

\* No opens, no delegations.
LEMMA DelegInvInit == DelegInit => DelegInv
  BY DelegConstants, SMTT(20)
  DEF DelegInit, DelegInv, HandlerTyped, OpenStates, TableTyped, OpenRecorded, AloneToGrant,
      OneClient, In, Idle

\* The invariant holds in every run.
THEOREM DelegInvariant == DelegSpec => []DelegInv
<1>1. DelegInv /\ [DelegNext /\ UNCHANGED work]_<<delegVars, work>> => DelegInv'
  BY DelegStep
<1>2. QED
  BY <1>1, DelegInvInit, PTL DEF DelegSpec

\* Two clients never have delegations of one file, however their OPENs interleave
\* between the decision and the grant, whatever is recalled, returned, revoked or
\* expires meanwhile (ShouldGrantDelegation, GrantDelegation).
THEOREM NoTwoGrantees == DelegSpec => []OneGrantee
<1>1. DelegInv => OneGrantee
  BY SMTT(20) DEF DelegInv, TableTyped, OneClient, OneGrantee
<1>2. QED
  BY <1>1, DelegInvariant, PTL
=============================================================================
