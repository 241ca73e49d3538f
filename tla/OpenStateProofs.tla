--------------------------- MODULE OpenStateProofs --------------------------
(***************************************************************************)
(* Proofs about OpenState for any numbers of owners, opens, lock states,   *)
(* files and sequence ids: the tables of owners, opens and lock states     *)
(* lead to each other, no two opens conflict with each other's deny modes, *)
(* and a retransmission is answered with the reply to that very request.   *)
(***************************************************************************)
EXTENDS OpenState, TLAPS

\* Zenon proves the steps that name no other prover.
USE ZenonT(20)

openSpecVars == <<openStateVars, work>>
OpenStep == [OpenNext /\ UNCHANGED work]_openSpecVars

\* The owners' side of OpenTypeOK: which records there are, and what they name.
OwnersTyped ==
  /\ nextOwner \in 1..(MaxOwners + 1)
  /\ ownerRec = [k \in OwnerRecs |-> ownerRec[k]]
  /\ \A k \in OwnerRecs : ownerRec[k].last \in 0..MaxSeqid /\ ownerRec[k].states \subseteq Opens
  /\ openOwners \in [OpenOwners -> 0..MaxOwners]
  /\ closedOwnerByOther \in [Opens -> 0..MaxOwners]
  /\ openReply = [n \in OpenOwners |-> openReply[n]]

\* An open, while it is there.
IsShare(os) ==
  /\ os.owner \in OwnerRecs /\ os.file \in OpenFiles
  /\ os.access \subseteq Modes /\ os.deny \subseteq Modes /\ os.locks \subseteq LockStates

OpensTyped ==
  /\ nextOpen \in 1..(MaxOpens + 1)
  /\ openStateByOther = [o \in Opens |-> openStateByOther[o]]
  /\ openStateByFile = [f \in OpenFiles |-> openStateByFile[f]]
  /\ \A o \in Opens : Live(o) => IsShare(openStateByOther[o]) /\ o < nextOpen

IsLockState(ls) == ls.owner \in LockOwners /\ ls.open \in Opens /\ ls.file \in OpenFiles

LocksTyped ==
  /\ nextLock \in 1..(MaxLockStates + 1)
  /\ lockOwners = [n \in LockOwners |-> lockOwners[n]]
  /\ lockReply = [n \in LockOwners |-> lockReply[n]]
  /\ lockStateByOther = [l \in LockStates |-> lockStateByOther[l]]
  /\ \A n \in LockOwners : lockOwners[n].last \in 0..MaxSeqid
  /\ \A n \in LockOwners : Known(n) => lockOwners[n].reply # <<"absent">>
  /\ \A l \in LockStates : LiveLock(l) => IsLockState(lockStateByOther[l]) /\ l < nextLock
  /\ held \subseteq LockOwners \X OpenFiles \X Modes

\* The per-file index.
ByFile ==
  \A f \in OpenFiles : \A o \in Opens :
    o \in openStateByFile[f] <=> Live(o) /\ openStateByOther[o].file = f
ByFileOnly == \A f \in OpenFiles : openStateByFile[f] \subseteq Opens

\* The owner table: a record in the table has the name it is found by and knows
\* its opens.
OwnersLinked ==
  \A n \in OpenOwners : openOwners[n] # 0 =>
    /\ ownerRec[openOwners[n]].name = n
    /\ openOwners[n] < nextOwner
    /\ \A o \in Opens : o \in ownerRec[openOwners[n]].states <=>
                          Live(o) /\ openStateByOther[o].owner = openOwners[n]

\* The owner of an open is in the table, and the stateid is not a closed one.
OpensLinked ==
  \A o \in Opens : Live(o) =>
    /\ OwnerOf(o).name \in OpenOwners
    /\ openOwners[OwnerOf(o).name] = openStateByOther[o].owner
    /\ closedOwnerByOther[o] = 0

ClosedLinked ==
  \A o \in Opens : closedOwnerByOther[o] # 0 =>
    /\ o < nextOpen
    /\ closedOwnerByOther[o] < nextOwner
    /\ ownerRec[closedOwnerByOther[o]].name \in OpenOwners

\* A lock state hangs on an open of a client of its lock-owner, and the open
\* knows it.
LocksLinked ==
  \A l \in LockStates : LiveLock(l) =>
    LET ls == lockStateByOther[l] IN
    /\ Live(ls.open)
    /\ l \in openStateByOther[ls.open].locks
    /\ ls.file = openStateByOther[ls.open].file
    /\ Known(ls.owner)
    /\ OwnerClient[ls.owner] = OwnerClient[OwnerOf(ls.open).name]

LocksBack ==
  \A o \in Opens : Live(o) =>
    \A l \in openStateByOther[o].locks : LiveLock(l) /\ lockStateByOther[l].open = o

HeldLinked ==
  \A h \in held : \E l \in LockStates :
    LiveLock(l) /\ lockStateByOther[l].owner = h[1] /\ lockStateByOther[l].file = h[2]

\* While a reply waits to be cached, the record it is meant for has it as its
\* last one; every other record has its last reply cached.
Awaits(k) ==
  LET n == ownerRec[k].name IN openReply[n] # NoReply /\ openOwners[n] \in {0, k}

RepliesInv ==
  ~Does("v41ops") =>
    \A k \in OwnerRecs :
      Reachable(k) /\ (openOwners[ownerRec[k].name] = k \/ OnlyRetained(k)) =>
        IF Awaits(k) THEN ownerRec[k].reply = openReply[ownerRec[k].name]
        ELSE ownerRec[k].result = ownerRec[k].reply

LockRepliesInv ==
  ~Does("v41ops") =>
    \A n \in LockOwners : Known(n) =>
      IF lockReply[n] # NoReply THEN lockOwners[n].reply = lockReply[n]
      ELSE lockOwners[n].result = lockOwners[n].reply

Typed == OwnersTyped /\ OpensTyped /\ LocksTyped
Linked == ByFile /\ ByFileOnly /\ OwnersLinked /\ OpensLinked /\ ClosedLinked
Anchored == LocksLinked /\ LocksBack /\ HeldLinked

OpenInv ==
  Typed /\ Linked /\ Anchored /\ SharesRespected /\ RepliesInv /\ LockRepliesInv

-----------------------------------------------------------------------------
\* The server starts without owners, opens and locks.
LEMMA OpenInvInit == OpenInit => OpenInv
<1> SUFFICES ASSUME OpenInit PROVE OpenInv
  OBVIOUS
<1> USE OpenConstants
<1>1. (\A o \in Opens : ~Live(o)) /\ (\A l \in LockStates : ~LiveLock(l))
  BY DEF OpenInit, Live, LiveLock
<1>2. \A n \in LockOwners : ~Known(n)
  BY DEF OpenInit, Known
<1>3. LocksTyped
  BY <1>1, <1>2, SMTT(20) DEF OpenInit, LocksTyped, NoLockOwner
<1>4. Linked
  BY <1>1 DEF OpenInit, Linked, ByFile, ByFileOnly, OwnersLinked, OpensLinked, ClosedLinked
<1>5. Anchored
  BY <1>1 DEF OpenInit, Anchored, LocksLinked, LocksBack, HeldLinked
<1>6. RepliesInv
  BY SMTT(20) DEF RepliesInv, OpenInit, Reachable, Retained, OwnerRecs
<1>7. LockRepliesInv
  BY <1>2 DEF LockRepliesInv
<1>8. QED
  BY <1>1, <1>3, <1>4, <1>5, <1>6, <1>7, SMTT(20)
  DEF OpenInv, Typed, OpenInit, OwnersTyped, OwnerRecs, NewOwner, OwnerRecord, OpensTyped,
      SharesRespected

\* What the properties take from the invariant.
LEMMA OpenInvImplies ==
  ASSUME OpenInv
  PROVE  OpenTypeOK /\ OpenIndexesAgree /\ LocksAnchored /\ RepliesCurrent
<1> USE OpenConstants
<1>1. OpenIndexesAgree
  <2>1. \A k \in OwnerRecs : \A n \in OpenOwners : openOwners[n] = k =>
          ownerRec[k].states = {o \in Opens : Live(o) /\ openStateByOther[o].owner = k}
    <3> SUFFICES ASSUME NEW n \in OpenOwners, openOwners[n] \in OwnerRecs
                 PROVE  ownerRec[openOwners[n]].states =
                          {o \in Opens : Live(o) /\ openStateByOther[o].owner = openOwners[n]}
      BY SMTT(20)
    <3>1. openOwners[n] # 0
      BY SMTT(20) DEF OwnerRecs
    <3>2. QED
      BY <3>1 DEF OpenInv, Linked, OwnersLinked, Typed, OwnersTyped
  <2>2. \A o \in Opens : Live(o) => openOwners[OwnerOf(o).name] = openStateByOther[o].owner
    BY DEF OpenInv, Linked, OpensLinked
  <2>3. QED
    BY <2>1, <2>2 DEF OpenIndexesAgree, OpenInv, Linked, ByFile, ByFileOnly
<1>2. RepliesCurrent
  BY DEF OpenInv, RepliesInv, LockRepliesInv, RepliesCurrent, Awaits
<1>3. QED
  BY <1>1, <1>2
  DEF OpenInv, Typed, OwnersTyped, OpensTyped, LocksTyped, OpenTypeOK, LocksAnchored, Anchored,
      HeldLinked, LocksLinked, LockStatesOf

-----------------------------------------------------------------------------
(* What the parts of the invariant depend on.                              *)

\* The locks and opens are as before, and so are the names of the owners.
LEMMA AnchoredSame ==
  ASSUME Anchored, Typed,
         UNCHANGED <<openStateByOther, lockStateByOther, held>>,
         \A n \in LockOwners : Known(n) => Known(n)',
         \A o \in Opens : Live(o) => (OwnerOf(o).name)' = OwnerOf(o).name
  PROVE  Anchored'
  BY DEF Anchored, LocksLinked, Typed, LocksTyped, IsLockState, Live, LiveLock, LocksBack,
         HeldLinked

\* The lock-owners and their replies are as before.
LEMMA LocksSame ==
  ASSUME LocksTyped, LockRepliesInv, UNCHANGED <<lockVars, work>>
  PROVE  LocksTyped' /\ LockRepliesInv'
  BY DEF LocksTyped, LockRepliesInv, lockVars, Known, LiveLock, Does

\* The opens are as before.
LEMMA OpensSame ==
  ASSUME OpensTyped, SharesRespected, ByFile, ByFileOnly, UNCHANGED openVars
  PROVE  OpensTyped' /\ SharesRespected' /\ ByFile' /\ ByFileOnly'
  BY DEF OpensTyped, SharesRespected, ByFile, ByFileOnly, openVars, Live

-----------------------------------------------------------------------------
(* Owners.                                                                 *)

\* A record that is not in the table has no opens, and no closed stateid leads
\* to one that is yet to be made.
LEMMA FreshOwner ==
  ASSUME Typed, Linked
  PROVE  /\ \A n \in OpenOwners : openOwners[n] # nextOwner
         /\ \A o \in Opens : closedOwnerByOther[o] # nextOwner
         /\ \A o \in Opens : Live(o) => openStateByOther[o].owner # nextOwner
<1> USE OpenConstants
<1>1. \A n \in OpenOwners : openOwners[n] # nextOwner
  BY SMTT(20) DEF Typed, OwnersTyped, Linked, OwnersLinked
<1>2. ASSUME NEW o \in Opens PROVE closedOwnerByOther[o] # nextOwner
  <2>1. closedOwnerByOther[o] # 0 => closedOwnerByOther[o] < nextOwner
    BY DEF Linked, ClosedLinked
  <2>2. QED
    BY <2>1, SMTT(20) DEF Typed, OwnersTyped
<1>3. QED
  BY <1>1, <1>2 DEF Linked, OpensLinked

\* The record OPEN uses: what the owner table says of it.
LEMMA RecordUsed ==
  ASSUME Typed, Linked, NEW n \in OpenOwners, RecordFor(n) \in OwnerRecs
  PROVE  /\ Owner(n).name = n
         /\ Owner(n).last \in 0..MaxSeqid
         /\ Owner(n).states \subseteq Opens
         /\ \A o \in Opens : o \in Owner(n).states <=>
                               Live(o) /\ openStateByOther[o].owner = RecordFor(n)
         /\ \A m \in OpenOwners : openOwners[m] = RecordFor(n) => m = n
         /\ \A o \in Opens : Live(o) /\ openStateByOther[o].owner = RecordFor(n) =>
                               OwnerOf(o).name = n
         /\ openOwners[n] = 0 => RecordFor(n) = nextOwner
         /\ openOwners[n] # 0 => RecordFor(n) = openOwners[n] /\ Owner(n) = ownerRec[openOwners[n]]
         /\ RecordFor(n) <= nextOwner
<1> USE OpenConstants
<1>1. CASE openOwners[n] = 0
  BY <1>1, FreshOwner, SMTT(20) DEF RecordFor, Owner, NewOwner, OwnerRecord, Typed, OwnersTyped
<1>2. CASE openOwners[n] # 0
  <2>1. RecordFor(n) = openOwners[n] /\ Owner(n) = ownerRec[openOwners[n]]
    BY <1>2 DEF RecordFor, Owner
  <2>2. openOwners[n] <= nextOwner
    BY <1>2, SMTT(20) DEF Typed, OwnersTyped, Linked, OwnersLinked
  <2>3. openOwners[n] \in OwnerRecs
    BY <2>1
  <2>4. Owner(n).name = n /\ Owner(n).last \in 0..MaxSeqid /\ Owner(n).states \subseteq Opens
    BY <1>2, <2>1, <2>3 DEF Typed, OwnersTyped, Linked, OwnersLinked
  <2>5. QED
    BY <1>2, <2>1, <2>2, <2>4, SMTT(20) DEF Linked, OwnersLinked, OwnerOf
<1>3. QED
  BY <1>1, <1>2

\* A record that a repeated request can reach has the name of an owner.
LEMMA ReachableNamed ==
  ASSUME Typed, Linked, NEW k \in OwnerRecs, Reachable(k)
  PROVE  ownerRec[k].name \in OpenOwners
  BY OpenConstants, SMTT(20)
  DEF Linked, OwnersLinked, ClosedLinked, Reachable, Retained, OwnerRecs

\* OPEN stores r in the record it uses.
Stored(n, r) ==
  /\ Registered(n)
  /\ ownerRec' = [ownerRec EXCEPT ![RecordFor(n)] = r]
  /\ r.name = n /\ r.last \in 0..MaxSeqid /\ r.states \subseteq Opens

\* Then the other records and their names stay.
LEMMA RegisteredEffect ==
  ASSUME Typed, Linked, NEW n \in OpenOwners, NEW r, Stored(n, r)
  PROVE  /\ RecordFor(n) \in OwnerRecs
         /\ nextOwner' \in 1..(MaxOwners + 1) /\ nextOwner <= nextOwner'
         /\ RecordFor(n) < nextOwner'
         /\ ownerRec' = [k \in OwnerRecs |-> ownerRec'[k]]
         /\ \A k \in OwnerRecs : ownerRec'[k] = IF k = RecordFor(n) THEN r ELSE ownerRec[k]
         /\ openOwners' \in [OpenOwners -> 0..MaxOwners]
         /\ \A m \in OpenOwners : openOwners'[m] = IF m = n THEN RecordFor(n) ELSE openOwners[m]
         /\ \A k \in OwnerRecs : Reachable(k) => ownerRec'[k].name = ownerRec[k].name
         /\ \A o \in Opens : Live(o) => ownerRec'[openStateByOther[o].owner].name = OwnerOf(o).name
<1> USE OpenConstants
<1> USE DEF Stored
<1> DEFINE k == RecordFor(n)
<1>1. k \in OwnerRecs
  BY DEF Registered
<1>2. k <= nextOwner /\ (openOwners[n] = 0 => k = nextOwner)
      /\ (openOwners[n] # 0 => k = openOwners[n] /\ k < nextOwner)
  BY <1>1, RecordUsed, SMTT(20) DEF Linked, OwnersLinked
<1>3. nextOwner' \in 1..(MaxOwners + 1) /\ nextOwner <= nextOwner' /\ k < nextOwner'
  BY <1>1, <1>2, SMTT(20) DEF Registered, Typed, OwnersTyped, OwnerRecs
<1>4. /\ ownerRec' = [j \in OwnerRecs |-> ownerRec'[j]]
      /\ \A j \in OwnerRecs : ownerRec'[j] = IF j = k THEN r ELSE ownerRec[j]
  BY <1>1 DEF Typed, OwnersTyped
<1>5. /\ openOwners' \in [OpenOwners -> 0..MaxOwners]
      /\ \A m \in OpenOwners : openOwners'[m] = IF m = n THEN k ELSE openOwners[m]
  BY <1>1, SMTT(20) DEF OwnerRecs, Registered, Typed, OwnersTyped
<1>6. \A j \in OwnerRecs : Reachable(j) => ownerRec'[j].name = ownerRec[j].name
  <2> SUFFICES ASSUME Reachable(k) PROVE ownerRec[k].name = n
    BY <1>1, <1>4
  <2>1. QED
    BY <1>1, <1>2, FreshOwner DEF Linked, OwnersLinked, Reachable, Retained
<1>7. ASSUME NEW o \in Opens, Live(o)
      PROVE  ownerRec'[openStateByOther[o].owner].name = OwnerOf(o).name
  BY <1>6, <1>7 DEF Typed, OpensTyped, IsShare, Linked, OpensLinked, Reachable, OwnerOf
<1>8. QED
  BY <1>1, <1>3, <1>4, <1>5, <1>6, <1>7

\* The cached replies after OPEN stored r: r has its reply cached, or waits for it.
LEMMA RegisteredReplies ==
  ASSUME Typed, Linked, RepliesInv, NEW n \in OpenOwners, NEW r, Stored(n, r),
         UNCHANGED <<work, closedOwnerByOther>>, openReply[n] = NoReply,
         \A m \in OpenOwners \ {n} : openReply'[m] = openReply[m],
         ~Does("v41ops") =>
           IF openReply'[n] = NoReply THEN r.result = r.reply ELSE r.reply = openReply'[n]
  PROVE  RepliesInv'
<1> USE OpenConstants
<1> DEFINE k == RecordFor(n)
<1>1. /\ k \in OwnerRecs
      /\ \A j \in OwnerRecs : ownerRec'[j] = IF j = k THEN r ELSE ownerRec[j]
      /\ \A m \in OpenOwners : openOwners'[m] = IF m = n THEN k ELSE openOwners[m]
      /\ \A j \in OwnerRecs : Reachable(j) => ownerRec'[j].name = ownerRec[j].name
  BY RegisteredEffect
<1> SUFFICES ASSUME ~Does("v41ops"), NEW j \in OwnerRecs, Reachable(j)',
                    (openOwners[ownerRec[j].name] = j \/ OnlyRetained(j))'
             PROVE  IF Awaits(j)' THEN ownerRec'[j].reply = openReply'[ownerRec'[j].name]
                    ELSE ownerRec'[j].result = ownerRec'[j].reply
  BY DEF RepliesInv, Does
<1>2. k # 0
  BY <1>1, SMTT(20) DEF OwnerRecs
<1>3. CASE j = k
  BY <1>1, <1>2, <1>3, SMTT(20) DEF Awaits, Stored
<1>4. CASE j # k
  BY <1>1, <1>2, <1>4, ReachableNamed, SMTT(20)
  DEF Reachable, Retained, OnlyRetained, RepliesInv, Awaits
<1>5. QED
  BY <1>3, <1>4

-----------------------------------------------------------------------------
(* OPEN.                                                                   *)

\* OpenFile answers NFS4ERR_SHARE_DENIED: at most a new record is in the table.
LEMMA OpenDeniedKeeps ==
  ASSUME OpenInv, NEW n \in OpenOwners, NEW q, NEW f, NEW access, NEW deny,
         OpenDenied(n, q, f, access, deny), UNCHANGED work
  PROVE  OpenInv'
<1> USE OpenConstants
<1> DEFINE k == RecordFor(n)
<1>1. Typed /\ Linked /\ Anchored /\ RepliesInv
  BY DEF OpenInv
<1>2. Registered(n) /\ ownerRec' = [ownerRec EXCEPT ![k] = Owner(n)]
      /\ UNCHANGED <<closedOwnerByOther, openVars, lockVars, openReply>>
  BY DEF OpenDenied
<1>3. k \in OwnerRecs
  BY <1>2 DEF Registered
<1>4. /\ Owner(n).name = n /\ Owner(n).last \in 0..MaxSeqid /\ Owner(n).states \subseteq Opens
      /\ \A o \in Opens : o \in Owner(n).states <=> Live(o) /\ openStateByOther[o].owner = k
  BY <1>1, <1>3, RecordUsed
<1>5. Stored(n, Owner(n))
  BY <1>2, <1>4 DEF Stored
<1>6. /\ nextOwner' \in 1..(MaxOwners + 1) /\ nextOwner <= nextOwner' /\ k < nextOwner'
      /\ ownerRec' = [j \in OwnerRecs |-> ownerRec'[j]]
      /\ \A j \in OwnerRecs : ownerRec'[j] = IF j = k THEN Owner(n) ELSE ownerRec[j]
      /\ openOwners' \in [OpenOwners -> 0..MaxOwners]
      /\ \A m \in OpenOwners : openOwners'[m] = IF m = n THEN k ELSE openOwners[m]
      /\ \A j \in OwnerRecs : Reachable(j) => ownerRec'[j].name = ownerRec[j].name
      /\ \A o \in Opens : Live(o) => ownerRec'[openStateByOther[o].owner].name = OwnerOf(o).name
  BY <1>1, <1>5, RegisteredEffect
<1>7. OwnersTyped'
  BY <1>1, <1>2, <1>4, <1>6 DEF Typed, OwnersTyped
<1>8. OpensTyped' /\ SharesRespected' /\ ByFile' /\ ByFileOnly'
  BY <1>2, OpensSame DEF OpenInv, Typed, Linked
<1>9. LocksTyped' /\ LockRepliesInv'
  BY <1>2, LocksSame DEF OpenInv, Typed
<1>10. OwnersLinked'
  <2> SUFFICES ASSUME NEW m \in OpenOwners, openOwners'[m] # 0
               PROVE  /\ ownerRec'[openOwners'[m]].name = m
                      /\ openOwners'[m] < nextOwner'
                      /\ \A o \in Opens : o \in ownerRec'[openOwners'[m]].states <=>
                           Live(o)' /\ openStateByOther'[o].owner = openOwners'[m]
    BY DEF OwnersLinked
  <2>1. CASE m = n
    BY <1>2, <1>3, <1>4, <1>6, <2>1 DEF openVars, Live
  <2>2. CASE m # n
    <3>1. openOwners[m] = openOwners'[m] /\ openOwners[m] # k
      BY <1>1, <1>3, <1>6, <2>2, RecordUsed
    <3>2. openOwners[m] \in OwnerRecs
      BY <1>1, <3>1, SMTT(20) DEF Typed, OwnersTyped, OwnerRecs
    <3>3. openOwners[m] < nextOwner'
      <4>1. openOwners[m] < nextOwner
        BY <1>1, <3>1 DEF Linked, OwnersLinked
      <4>2. QED
        BY <1>1, <1>6, <3>2, <4>1, SMTT(20) DEF Typed, OwnersTyped, OwnerRecs
    <3>4. QED
      BY <1>1, <1>2, <1>6, <3>1, <3>2, <3>3, SMTT(20) DEF Linked, OwnersLinked, openVars, Live
  <2>3. QED
    BY <2>1, <2>2
<1>11. OpensLinked'
  <2> SUFFICES ASSUME NEW o \in Opens, Live(o)
               PROVE  /\ (OwnerOf(o).name)' \in OpenOwners
                      /\ openOwners'[(OwnerOf(o).name)'] = openStateByOther'[o].owner
                      /\ closedOwnerByOther'[o] = 0
    BY <1>2 DEF OpensLinked, openVars, Live
  <2>1. (OwnerOf(o).name)' = OwnerOf(o).name
    BY <1>2, <1>6 DEF openVars, OwnerOf
  <2>2. QED
    BY <1>1, <1>2, <1>6, <2>1, SMTT(20)
    DEF Linked, OpensLinked, openVars, RecordFor, Typed, OpensTyped, IsShare, OwnerRecs
<1>12. ClosedLinked'
  <2> SUFFICES ASSUME NEW o \in Opens, closedOwnerByOther[o] # 0
               PROVE  /\ o < nextOpen
                      /\ closedOwnerByOther[o] < nextOwner'
                      /\ ownerRec'[closedOwnerByOther[o]].name \in OpenOwners
    BY <1>2 DEF ClosedLinked, openVars
  <2>1. closedOwnerByOther[o] \in OwnerRecs /\ Reachable(closedOwnerByOther[o])
    BY <1>1, SMTT(20) DEF Typed, OwnersTyped, OwnerRecs, Reachable, Retained
  <2>2. o < nextOpen /\ closedOwnerByOther[o] < nextOwner
        /\ ownerRec[closedOwnerByOther[o]].name \in OpenOwners
    BY <1>1 DEF Linked, ClosedLinked
  <2>3. QED
    BY <1>1, <1>6, <2>1, <2>2, SMTT(20) DEF Typed, OwnersTyped, OwnerRecs
<1>13. Anchored'
  BY <1>1, <1>2, <1>6, AnchoredSame DEF lockVars, Known, openVars, OwnerOf
<1>14. RepliesInv'
  <2>1. openReply[n] = NoReply
    BY DEF OpenDenied, Admitted, Ready
  <2>2. ~Does("v41ops") => Owner(n).result = Owner(n).reply
    <3>1. CASE openOwners[n] = 0
      BY <3>1 DEF Owner, NewOwner, OwnerRecord
    <3>2. CASE openOwners[n] # 0
      BY <1>1, <1>3, <1>4, <2>1, <3>2, RecordUsed, SMTT(20) DEF Reachable, RepliesInv, Awaits
    <3>3. QED
      BY <3>1, <3>2
  <2>3. QED
    BY <1>1, <1>2, <1>5, <2>1, <2>2, RegisteredReplies
<1>15. QED
  BY <1>7, <1>8, <1>9, <1>10, <1>11, <1>12, <1>13, <1>14 DEF OpenInv, Typed, Linked

\* What a granted OPEN does to the opens: one of them, the owner's on this file
\* or a new one, has the modes added.
Opened(n, q, f, access, deny, o, os) ==
  /\ IsShare(os) /\ os.owner = RecordFor(n) /\ os.file = f
  /\ Live(o) => /\ openStateByOther[o].owner = RecordFor(n)
                /\ openStateByOther[o].file = f
                /\ os.access = openStateByOther[o].access \cup access
                /\ os.deny = openStateByOther[o].deny \cup deny
                /\ os.locks = openStateByOther[o].locks
  /\ ~Live(o) => /\ os.access = access /\ os.deny = deny /\ os.locks = {}
                 /\ closedOwnerByOther[o] = 0
  /\ nextOpen' \in 1..(MaxOpens + 1) /\ nextOpen <= nextOpen' /\ o < nextOpen'
  /\ openStateByOther' = [openStateByOther EXCEPT ![o] = os]
  /\ openStateByFile' = [openStateByFile EXCEPT ![f] = @ \cup {o}]
  /\ ownerRec' = [ownerRec EXCEPT ![RecordFor(n)] =
       Advanced(Owner(n), q, q = 0, Owner(n).states \cup {o}, <<"OPEN", o, q>>)]
  /\ Answer(n, q, <<"OPEN", o, q>>)

\* OpenFile does that to one open.
LEMMA OpenFileEffect ==
  ASSUME OpenInv, NEW n \in OpenOwners, NEW q, NEW f \in OpenFiles,
         NEW access \in SUBSET Modes, NEW deny \in SUBSET Modes,
         OpenFile(n, q, f, access, deny)
  PROVE  \E o \in Opens : \E os : Opened(n, q, f, access, deny, o, os)
<1> USE OpenConstants
<1> DEFINE k == RecordFor(n)
           same == {o \in Owner(n).states : openStateByOther[o].file = f}
           o == IF same = {} THEN nextOpen ELSE CHOOSE x \in same : TRUE
           old == openStateByOther[o]
           os == IF same = {}
                 THEN Share(k, f, access, deny, {})
                 ELSE Share(old.owner, f, old.access \cup access, old.deny \cup deny, old.locks)
<1>1. /\ o \in Opens /\ Registered(n)
      /\ nextOpen' = IF same = {} THEN nextOpen + 1 ELSE nextOpen
      /\ openStateByOther' = [openStateByOther EXCEPT ![o] = os]
      /\ openStateByFile' = [openStateByFile EXCEPT ![f] = @ \cup {o}]
      /\ ownerRec' = [ownerRec EXCEPT ![k] =
           Advanced(Owner(n), q, q = 0, Owner(n).states \cup {o}, <<"OPEN", o, q>>)]
      /\ Answer(n, q, <<"OPEN", o, q>>)
  BY DEF OpenFile
<1>2. k \in OwnerRecs
  BY <1>1 DEF Registered
<1> HIDE DEF same, o, old, os
<1>3. Typed /\ Linked
  BY DEF OpenInv
<1>4. CASE same = {}
  <2>1. o = nextOpen /\ os = Share(k, f, access, deny, {}) /\ nextOpen' = nextOpen + 1
    BY <1>1, <1>4 DEF o, os
  <2>2. nextOpen \in 1..MaxOpens
    BY <1>1, <2>1 DEF Opens
  <2>3. ~Live(o) /\ closedOwnerByOther[o] = 0
    BY <1>1, <1>3, <2>1, <2>2, SMTT(20) DEF Typed, OpensTyped, Linked, ClosedLinked
  <2>4. nextOpen' \in 1..(MaxOpens + 1) /\ nextOpen <= nextOpen' /\ o < nextOpen'
    BY <2>1, <2>2, SMTT(20)
  <2>5. QED
    BY <1>1, <1>2, <2>1, <2>3, <2>4 DEF Opened, IsShare, Share
<1>5. CASE same # {}
  <2>1. o \in same
    BY <1>5 DEF o
  <2>2. /\ os = Share(old.owner, f, old.access \cup access, old.deny \cup deny, old.locks)
        /\ nextOpen' = nextOpen
    BY <1>1, <1>5 DEF os
  <2>3. Live(o) /\ old.owner = k /\ old.file = f
    BY <1>1, <1>2, <1>3, <2>1, RecordUsed DEF same, old
  <2>4. IsShare(old) /\ o < nextOpen /\ nextOpen \in 1..(MaxOpens + 1)
    BY <1>1, <1>3, <2>3 DEF Typed, OpensTyped, old
  <2>5. nextOpen' \in 1..(MaxOpens + 1) /\ nextOpen <= nextOpen' /\ o < nextOpen'
    BY <2>2, <2>4, SMTT(20)
  <2>6. QED
    BY <1>1, <2>2, <2>3, <2>4, <2>5 DEF old, Opened, IsShare, Share
<1>6. QED
  BY <1>4, <1>5

\* Without NFSv4.1 a request has a seqid, so its reply waits to be cached.
LEMMA SeqidGiven ==
  ASSUME ~Does("v41ops"), NEW q, q \in Seqids
  PROVE  q # 0
  BY OpenConstants, SMTT(20) DEF Seqids

\* OpenFile succeeds.
LEMMA OpenFileKeeps ==
  ASSUME OpenInv, NEW n \in OpenOwners, NEW q \in 0..MaxSeqid, NEW f \in OpenFiles,
         NEW access \in SUBSET Modes, NEW deny \in SUBSET Modes,
         OpenFile(n, q, f, access, deny), UNCHANGED work
  PROVE  OpenInv'
<1> USE OpenConstants
<1> DEFINE k == RecordFor(n)
<1>1. Typed /\ Linked /\ Anchored /\ RepliesInv /\ SharesRespected
  BY DEF OpenInv
<1>2. /\ Registered(n) /\ Admitted(n, q) /\ ~ShareConflict(k, f, access, deny)
      /\ UNCHANGED <<closedOwnerByOther, lockVars>>
  BY DEF OpenFile
<1>3. k \in OwnerRecs
  BY <1>2 DEF Registered
<1>4. PICK o \in Opens : \E os : Opened(n, q, f, access, deny, o, os)
  BY OpenFileEffect
<1>5. PICK os : Opened(n, q, f, access, deny, o, os)
  BY <1>4
<1>6. /\ IsShare(os) /\ os.owner = k /\ os.file = f
      /\ Live(o) => /\ openStateByOther[o].owner = k
                    /\ openStateByOther[o].file = f
                    /\ os.access = openStateByOther[o].access \cup access
                    /\ os.deny = openStateByOther[o].deny \cup deny
                    /\ os.locks = openStateByOther[o].locks
      /\ ~Live(o) => /\ os.access = access /\ os.deny = deny /\ os.locks = {}
                     /\ closedOwnerByOther[o] = 0
      /\ nextOpen' \in 1..(MaxOpens + 1) /\ nextOpen <= nextOpen' /\ o < nextOpen'
      /\ openStateByOther' = [openStateByOther EXCEPT ![o] = os]
      /\ openStateByFile' = [openStateByFile EXCEPT ![f] = @ \cup {o}]
  BY <1>5 DEF Opened
<1> DEFINE reply == <<"OPEN", o, q>>
<1>7. PICK r : r = Advanced(Owner(n), q, q = 0, Owner(n).states \cup {o}, reply)
  OBVIOUS
<1>8. /\ Owner(n).name = n /\ Owner(n).states \subseteq Opens
      /\ \A x \in Opens : x \in Owner(n).states <=> Live(x) /\ openStateByOther[x].owner = k
  BY <1>1, <1>3, RecordUsed
<1>9. /\ r.name = n /\ r.last = q /\ r.states = Owner(n).states \cup {o}
      /\ r.reply = reply /\ r.result = Owner(n).result
  BY <1>7, <1>8 DEF Advanced, OwnerRecord
<1>10. ownerRec' = [ownerRec EXCEPT ![k] = r] /\ Answer(n, q, reply)
  BY <1>5, <1>7 DEF Opened
<1>11. r.last \in 0..MaxSeqid /\ r.states \subseteq Opens
  BY <1>8, <1>9
<1>12. Stored(n, r)
  BY <1>2, <1>9, <1>10, <1>11 DEF Stored
<1>13. /\ nextOwner' \in 1..(MaxOwners + 1) /\ nextOwner <= nextOwner' /\ k < nextOwner'
       /\ ownerRec' = [j \in OwnerRecs |-> ownerRec'[j]]
       /\ \A j \in OwnerRecs : ownerRec'[j] = IF j = k THEN r ELSE ownerRec[j]
       /\ openOwners' \in [OpenOwners -> 0..MaxOwners]
       /\ \A m \in OpenOwners : openOwners'[m] = IF m = n THEN k ELSE openOwners[m]
       /\ \A j \in OwnerRecs : Reachable(j) => ownerRec'[j].name = ownerRec[j].name
       /\ \A x \in Opens : Live(x) => ownerRec'[openStateByOther[x].owner].name = OwnerOf(x).name
  BY <1>1, <1>12, RegisteredEffect
<1>14. /\ openStateByOther' = [x \in Opens |-> openStateByOther'[x]]
       /\ openStateByOther'[o] = os
       /\ \A x \in Opens : x # o => openStateByOther'[x] = openStateByOther[x]
  BY <1>1, <1>6 DEF Typed, OpensTyped
<1>15. \A x \in Opens : Live(x)' <=> x = o \/ Live(x)
  BY <1>3, <1>6, <1>14, SMTT(20) DEF Gone, OwnerRecs, Live
<1>16. /\ openReply' = [m \in OpenOwners |-> openReply'[m]]
       /\ openReply'[n] = IF q = 0 THEN NoReply ELSE reply
       /\ \A m \in OpenOwners \ {n} : openReply'[m] = openReply[m]
  BY <1>1, <1>10 DEF Typed, OwnersTyped, Answer
<1>17. OwnersTyped'
  BY <1>1, <1>2, <1>11, <1>13, <1>16 DEF Typed, OwnersTyped
<1>18. OpensTyped'
  <2>1. openStateByFile' = [g \in OpenFiles |-> openStateByFile'[g]]
    BY <1>1, <1>6 DEF Typed, OpensTyped
  <2>2. QED
    BY <1>1, <1>6, <1>14, <1>15, <2>1, SMTT(20) DEF OpensTyped, IsShare, Typed, Opens
<1>19. LocksTyped' /\ LockRepliesInv'
  BY <1>2, LocksSame DEF OpenInv, Typed
<1>20. ByFile' /\ ByFileOnly'
  <2>1. \A g \in OpenFiles : openStateByFile'[g] =
          IF g = f THEN openStateByFile[g] \cup {o} ELSE openStateByFile[g]
    BY <1>1, <1>6 DEF Typed, OpensTyped
  <2>2. ByFile'
    <3> SUFFICES ASSUME NEW g \in OpenFiles, NEW x \in Opens
                 PROVE  x \in openStateByFile'[g] <=> Live(x)' /\ openStateByOther'[x].file = g
      BY DEF ByFile
    <3>1. x \in openStateByFile[g] <=> Live(x) /\ openStateByOther[x].file = g
      BY <1>1 DEF Linked, ByFile
    <3>2. CASE x = o
      BY <1>6, <1>14, <1>15, <2>1, <3>1, <3>2, SMTT(20)
    <3>3. CASE x # o
      BY <1>14, <1>15, <2>1, <3>1, <3>3
    <3>4. QED
      BY <3>2, <3>3
  <2>3. QED
    BY <1>1, <2>1, <2>2 DEF Linked, ByFileOnly
<1>21. OwnersLinked'
  <2> SUFFICES ASSUME NEW m \in OpenOwners, openOwners'[m] # 0
               PROVE  /\ ownerRec'[openOwners'[m]].name = m
                      /\ openOwners'[m] < nextOwner'
                      /\ \A x \in Opens : x \in ownerRec'[openOwners'[m]].states <=>
                           Live(x)' /\ openStateByOther'[x].owner = openOwners'[m]
    BY DEF OwnersLinked
  <2>1. CASE m = n
    <3>1. \A x \in Opens : x \in r.states <=> Live(x)' /\ openStateByOther'[x].owner = k
      BY <1>6, <1>8, <1>9, <1>14, <1>15
    <3>2. QED
      BY <1>3, <1>9, <1>13, <2>1, <3>1, SMTT(20)
  <2>2. CASE m # n
    <3>1. openOwners[m] = openOwners'[m] /\ openOwners[m] # k
      BY <1>1, <1>3, <1>13, <2>2, RecordUsed
    <3>2. openOwners[m] \in OwnerRecs
      BY <1>1, <3>1, SMTT(20) DEF Typed, OwnersTyped, OwnerRecs
    <3>3. openOwners[m] < nextOwner'
      <4>1. openOwners[m] < nextOwner
        BY <1>1, <3>1 DEF Linked, OwnersLinked
      <4>2. QED
        BY <1>1, <1>13, <3>2, <4>1, SMTT(20) DEF Typed, OwnersTyped, OwnerRecs
    <3>4. ownerRec'[openOwners[m]] = ownerRec[openOwners[m]]
      BY <1>13, <3>1, <3>2
    <3>5. QED
      BY <1>1, <1>6, <1>14, <1>15, <3>1, <3>3, <3>4, SMTT(20) DEF Linked, OwnersLinked
  <2>3. QED
    BY <2>1, <2>2
<1>22. \A x \in Opens : Live(x) => (OwnerOf(x).name)' = OwnerOf(x).name
  BY <1>6, <1>13, <1>14, SMTT(20) DEF OwnerOf
<1>23. OpensLinked'
  <2> SUFFICES ASSUME NEW x \in Opens, Live(x)'
               PROVE  /\ (OwnerOf(x).name)' \in OpenOwners
                      /\ openOwners'[(OwnerOf(x).name)'] = openStateByOther'[x].owner
                      /\ closedOwnerByOther'[x] = 0
    BY DEF OpensLinked
  <2>1. CASE x = o
    <3>1. (OwnerOf(x).name)' = n /\ openStateByOther'[x].owner = k
      BY <1>3, <1>6, <1>9, <1>13, <1>14, <2>1, SMTT(20) DEF OwnerOf
    <3>2. QED
      BY <1>1, <1>2, <1>6, <1>13, <2>1, <3>1 DEF Linked, OpensLinked
  <2>2. CASE x # o
    BY <1>1, <1>2, <1>13, <1>14, <1>15, <1>22, <2>2, SMTT(20)
    DEF Typed, OpensTyped, IsShare, OwnerRecs, Linked, OpensLinked, RecordFor
  <2>3. QED
    BY <2>1, <2>2
<1>24. ClosedLinked'
  <2> SUFFICES ASSUME NEW x \in Opens, closedOwnerByOther[x] # 0
               PROVE  /\ x < nextOpen'
                      /\ closedOwnerByOther[x] < nextOwner'
                      /\ ownerRec'[closedOwnerByOther[x]].name \in OpenOwners
    BY <1>2 DEF ClosedLinked
  <2>1. closedOwnerByOther[x] \in OwnerRecs /\ Reachable(closedOwnerByOther[x])
    BY <1>1, SMTT(20) DEF Typed, OwnersTyped, OwnerRecs, Reachable, Retained
  <2>2. x < nextOpen /\ closedOwnerByOther[x] < nextOwner
        /\ ownerRec[closedOwnerByOther[x]].name \in OpenOwners
    BY <1>1 DEF Linked, ClosedLinked
  <2>3. x < nextOpen'
    BY <1>1, <1>6, <2>2, SMTT(20) DEF Typed, OpensTyped, Opens
  <2>4. QED
    BY <1>1, <1>13, <2>1, <2>2, <2>3, SMTT(20) DEF Typed, OwnersTyped, OwnerRecs
<1>25. Anchored'
  <2>1. LocksLinked'
    <3> SUFFICES ASSUME NEW l \in LockStates, LiveLock(l),
                        NEW x, x = lockStateByOther[l].open
                 PROVE  /\ Live(x)'
                        /\ l \in openStateByOther'[x].locks
                        /\ lockStateByOther[l].file = openStateByOther'[x].file
                        /\ Known(lockStateByOther[l].owner)
                        /\ OwnerClient[lockStateByOther[l].owner] = OwnerClient[(OwnerOf(x).name)']
      BY <1>2 DEF LocksLinked, lockVars, LiveLock, Known
    <3>1. /\ Live(x) /\ l \in openStateByOther[x].locks
          /\ lockStateByOther[l].file = openStateByOther[x].file
          /\ Known(lockStateByOther[l].owner)
          /\ OwnerClient[lockStateByOther[l].owner] = OwnerClient[OwnerOf(x).name]
      BY <1>1 DEF Anchored, LocksLinked
    <3>2. QED
      BY <1>1, <1>6, <1>14, <1>15, <1>22, <3>1 DEF Typed, LocksTyped, IsLockState
  <2>2. QED
    BY <1>1, <1>2, <1>6, <1>14, <1>15, <2>1, SMTT(20)
    DEF Anchored, LocksBack, LiveLock, HeldLinked, lockVars, Known
<1>26. SharesRespected'
  <2>1. ASSUME NEW x \in Opens, NEW y \in Opens, Live(x)', Live(y)',
               openStateByOther'[x].file = openStateByOther'[y].file,
               openStateByOther'[x].owner # openStateByOther'[y].owner
        PROVE  openStateByOther'[x].access \cap openStateByOther'[y].deny = {}
    <3>1. ASSUME NEW z \in Opens, Live(z), openStateByOther[z].file = f,
                 openStateByOther[z].owner # k
          PROVE  /\ openStateByOther[z].access \cap deny = {}
                 /\ access \cap openStateByOther[z].deny = {}
      BY <1>1, <1>2, <3>1 DEF ShareConflict, Linked, ByFile
    <3>2. CASE x = o
      <4>1. y # o /\ Live(y) /\ openStateByOther'[y] = openStateByOther[y]
            /\ openStateByOther[y].file = f /\ openStateByOther[y].owner # k
        BY <1>6, <1>14, <1>15, <2>1, <3>2
      <4>2. Live(o) => openStateByOther[o].access \cap openStateByOther[y].deny = {}
        BY <1>1, <1>6, <4>1 DEF SharesRespected
      <4>3. QED
        BY <1>6, <1>14, <3>1, <3>2, <4>1, <4>2
    <3>3. CASE x # o /\ y = o
      <4>1. Live(x) /\ openStateByOther'[x] = openStateByOther[x]
            /\ openStateByOther[x].file = f /\ openStateByOther[x].owner # k
        BY <1>6, <1>14, <1>15, <2>1, <3>3
      <4>2. Live(o) => openStateByOther[x].access \cap openStateByOther[o].deny = {}
        BY <1>1, <1>6, <4>1 DEF SharesRespected
      <4>3. QED
        BY <1>6, <1>14, <3>1, <3>3, <4>1, <4>2
    <3>4. CASE x # o /\ y # o
      BY <1>1, <1>14, <1>15, <2>1, <3>4 DEF SharesRespected
    <3>5. QED
      BY <3>2, <3>3, <3>4
  <2>2. QED
    BY <2>1 DEF SharesRespected
<1>27. RepliesInv'
  <2>1. openReply[n] = NoReply /\ q \in Seqids
    BY <1>2 DEF Admitted, Ready
  <2>2. ~Does("v41ops") => openReply'[n] = reply /\ reply # NoReply
    BY <1>16, <2>1, SeqidGiven DEF NoReply
  <2>3. QED
    BY <1>1, <1>2, <1>9, <1>12, <1>16, <2>1, <2>2, RegisteredReplies
<1>28. QED
  BY <1>17, <1>18, <1>19, <1>20, <1>21, <1>23, <1>24, <1>25, <1>26, <1>27
  DEF OpenInv, Typed, Linked

-----------------------------------------------------------------------------
(* OPEN_CONFIRM, OPEN_DOWNGRADE and CLOSE.                                 *)

\* The owner of an open is in the table under its name.
LEMMA OwnerOfOpen ==
  ASSUME Typed, Linked, NEW o \in Opens, Live(o)
  PROVE  /\ openStateByOther[o].owner \in OwnerRecs
         /\ openStateByOther[o].owner < nextOwner
         /\ OwnerOf(o).name \in OpenOwners
         /\ openOwners[OwnerOf(o).name] = openStateByOther[o].owner
         /\ OwnerOf(o) = ownerRec[openStateByOther[o].owner]
         /\ \A n \in OpenOwners : openOwners[n] = openStateByOther[o].owner => n = OwnerOf(o).name
         /\ IsShare(openStateByOther[o])
  BY OpenConstants, SMTT(20)
  DEF Linked, OwnersLinked, OwnerOf, Typed, OpensTyped, IsShare, OwnerRecs, OpensLinked

\* Owners keep their names and opens, opens their owners and files, and no open
\* gains a mode.
OwnersKept ==
  /\ ownerRec' = [k \in OwnerRecs |-> ownerRec'[k]]
  /\ \A k \in OwnerRecs : /\ ownerRec'[k].name = ownerRec[k].name
                           /\ ownerRec'[k].states = ownerRec[k].states
                           /\ ownerRec'[k].last \in 0..MaxSeqid
  /\ UNCHANGED <<nextOwner, openOwners, closedOwnerByOther, openStateByFile, nextOpen>>
  /\ openReply' = [m \in OpenOwners |-> openReply'[m]]

SharesKept ==
  /\ openStateByOther' = [o \in Opens |-> openStateByOther'[o]]
  /\ \A o \in Opens : Live(o)' <=> Live(o)
  /\ \A o \in Opens : Live(o) =>
       /\ IsShare(openStateByOther'[o])
       /\ openStateByOther'[o].owner = openStateByOther[o].owner
       /\ openStateByOther'[o].file = openStateByOther[o].file
       /\ openStateByOther'[o].access \subseteq openStateByOther[o].access
       /\ openStateByOther'[o].deny \subseteq openStateByOther[o].deny

\* The tables still agree then, and the shares are respected.
LEMMA OpensKept ==
  ASSUME Typed, Linked, SharesRespected, OwnersKept, SharesKept
  PROVE  /\ OwnersTyped' /\ OpensTyped' /\ Linked' /\ SharesRespected'
         /\ \A o \in Opens : Live(o) => (OwnerOf(o).name)' = OwnerOf(o).name
<1> USE OpenConstants
<1>1. OwnersLinked'
  <2> SUFFICES ASSUME NEW m \in OpenOwners, openOwners[m] # 0
               PROVE  /\ ownerRec'[openOwners[m]].name = m
                      /\ openOwners[m] < nextOwner
                      /\ \A x \in Opens : x \in ownerRec'[openOwners[m]].states <=>
                           Live(x)' /\ openStateByOther'[x].owner = openOwners[m]
    BY DEF OwnersLinked, OwnersKept
  <2>1. openOwners[m] \in OwnerRecs
    BY SMTT(20) DEF Typed, OwnersTyped, OwnerRecs
  <2>2. QED
    BY <2>1, SMTT(20) DEF Linked, OwnersLinked, OwnersKept, SharesKept
<1>2. ASSUME NEW o \in Opens, Live(o) PROVE (OwnerOf(o).name)' = OwnerOf(o).name
  BY <1>2, OwnerOfOpen DEF OwnerOf, OwnersKept, SharesKept
<1>3. OpensLinked'
  BY <1>2 DEF Linked, OpensLinked, OwnersKept, SharesKept
<1>4. ClosedLinked'
  <2>1. \A x \in Opens : closedOwnerByOther[x] # 0 => closedOwnerByOther[x] \in OwnerRecs
    BY SMTT(20) DEF Typed, OwnersTyped, OwnerRecs
  <2>2. QED
    BY <2>1 DEF Linked, ClosedLinked, OwnersKept
<1>5. SharesRespected'
  <2>1. ASSUME NEW x \in Opens, NEW y \in Opens, Live(x)', Live(y)',
               openStateByOther'[x].file = openStateByOther'[y].file,
               openStateByOther'[x].owner # openStateByOther'[y].owner
        PROVE  openStateByOther'[x].access \cap openStateByOther'[y].deny = {}
    <3>1. Live(x) /\ Live(y) /\ openStateByOther[x].file = openStateByOther[y].file
          /\ openStateByOther[x].owner # openStateByOther[y].owner
      BY <2>1 DEF SharesKept
    <3>2. QED
      BY <3>1 DEF SharesKept, SharesRespected
  <2>2. QED
    BY <2>1 DEF SharesRespected
<1>6. QED
  BY <1>1, <1>2, <1>3, <1>4, <1>5
  DEF Linked, Typed, OwnersTyped, OwnersKept, OpensTyped, SharesKept, ByFile, ByFileOnly

\* The lock states are as before and so are the locks of every open.
LEMMA AnchoredKept ==
  ASSUME Typed, Linked, Anchored, OwnersKept, SharesKept,
         UNCHANGED <<lockStateByOther, held>>,
         \A n \in LockOwners : Known(n) => Known(n)',
         \A o \in Opens : Live(o) => openStateByOther'[o].locks = openStateByOther[o].locks
  PROVE  Anchored'
<1>1. \A o \in Opens : Live(o) => (OwnerOf(o).name)' = OwnerOf(o).name
  BY OwnerOfOpen DEF OwnerOf, OwnersKept, SharesKept
<1>2. LocksBack'
  BY DEF Anchored, LocksBack, LiveLock, SharesKept
<1>3. QED
  BY <1>1, <1>2, SMTT(20)
  DEF Anchored, LocksLinked, LiveLock, Typed, LocksTyped, IsLockState, SharesKept, HeldLinked

\* The cached replies after a request was answered that its owner, in the table
\* until then, may leave the table with.
LEMMA AnsweredReplies ==
  ASSUME Typed, Linked, RepliesInv, UNCHANGED work,
         NEW k \in OwnerRecs, NEW n \in OpenOwners, NEW reply,
         openOwners[n] = k, openReply[n] = NoReply,
         \A j \in OwnerRecs \ {k} : ownerRec'[j] = ownerRec[j] /\ (Retained(j)' <=> Retained(j)),
         ownerRec'[k].name = n, ownerRec'[k].reply = reply,
         ~Does("v41ops") => openReply'[n] = reply /\ reply # NoReply,
         \A m \in OpenOwners \ {n} : openReply'[m] = openReply[m] /\ openOwners'[m] = openOwners[m],
         openOwners'[n] = k \/ (openOwners'[n] = 0 /\ Retained(k)'),
         Retained(k) => Retained(k)'
  PROVE  RepliesInv'
<1> USE OpenConstants
<1>1. k # 0 /\ ownerRec[k].name = n
  BY SMTT(20) DEF OwnerRecs, Linked, OwnersLinked
<1> SUFFICES ASSUME ~Does("v41ops"), NEW j \in OwnerRecs, Reachable(j)',
                    (openOwners[ownerRec[j].name] = j \/ OnlyRetained(j))'
             PROVE  IF Awaits(j)' THEN ownerRec'[j].reply = openReply'[ownerRec'[j].name]
                    ELSE ownerRec'[j].result = ownerRec'[j].reply
  BY DEF RepliesInv, Does
<1>2. CASE j = k
  BY <1>1, <1>2 DEF Awaits
<1>3. CASE j # k
  BY <1>1, <1>3, ReachableNamed, SMTT(20)
  DEF OwnerRecs, Reachable, OnlyRetained, RepliesInv, Awaits
<1>4. QED
  BY <1>2, <1>3

\* OPEN_CONFIRM and OPEN_DOWNGRADE: an open loses modes, its owner is answered.
LEMMA RestampedKeeps ==
  ASSUME OpenInv, NEW o \in Opens, NEW q \in 0..MaxSeqid, NEW op, NEW access, NEW deny,
         access \subseteq openStateByOther[o].access, deny \subseteq openStateByOther[o].deny,
         Accepted(o, q), Restamped(o, q, op, access, deny), UNCHANGED work
  PROVE  OpenInv'
<1> USE OpenConstants
<1>1. Typed /\ Linked /\ Anchored /\ RepliesInv /\ SharesRespected
  BY DEF OpenInv
<1>2. Live(o) /\ Ready(OwnerOf(o).name, q)
  BY DEF Accepted
<1>3. PICK k \in OwnerRecs, n \in OpenOwners :
        /\ k = openStateByOther[o].owner /\ n = OwnerOf(o).name /\ ownerRec[k].name = n
        /\ openOwners[n] = k
  BY <1>1, <1>2, OwnerOfOpen
<1> DEFINE old == openStateByOther[o]
<1>4. PICK os : os = Share(k, old.file, access, deny, old.locks)
  OBVIOUS
<1>5. PICK r : r = Advanced(ownerRec[k], q, op = "OPEN_CONFIRM", ownerRec[k].states, <<op, o, q>>)
  OBVIOUS
<1>6. /\ r.name = n /\ r.last = q /\ r.states = ownerRec[k].states /\ r.reply = <<op, o, q>>
  BY <1>3, <1>5 DEF Advanced, OwnerRecord
<1>7. /\ openStateByOther' = [openStateByOther EXCEPT ![o] = os]
      /\ ownerRec' = [ownerRec EXCEPT ![k] = r]
      /\ Answer(n, q, <<op, o, q>>)
      /\ UNCHANGED <<nextOwner, openOwners, closedOwnerByOther, openStateByFile, nextOpen, lockVars>>
  BY <1>3, <1>4, <1>5 DEF Restamped
<1>8. /\ ownerRec' = [j \in OwnerRecs |-> ownerRec'[j]]
      /\ \A j \in OwnerRecs : ownerRec'[j] = IF j = k THEN r ELSE ownerRec[j]
  BY <1>1, <1>7 DEF Typed, OwnersTyped
<1>9. /\ openReply' = [m \in OpenOwners |-> openReply'[m]]
      /\ openReply'[n] = IF q = 0 THEN NoReply ELSE <<op, o, q>>
      /\ \A m \in OpenOwners \ {n} : openReply'[m] = openReply[m]
  BY <1>1, <1>7 DEF Typed, OwnersTyped, Answer
<1>10. OwnersKept
  BY <1>1, <1>3, <1>6, <1>7, <1>8, <1>9 DEF OwnersKept, Typed, OwnersTyped
<1>11. SharesKept /\ (\A x \in Opens : openStateByOther'[x].locks = openStateByOther[x].locks)
  BY <1>1, <1>2, <1>3, <1>4, <1>7, OwnerOfOpen
  DEF SharesKept, Typed, OpensTyped, Gone, OwnerRecs, Live, IsShare, Share
<1>12. RepliesInv'
  <2>1. openReply[n] = NoReply /\ q \in Seqids
    BY <1>2, <1>3 DEF Ready
  <2>2. ~Does("v41ops") => openReply'[n] = <<op, o, q>> /\ <<op, o, q>> # NoReply
    BY <1>9, <2>1, SeqidGiven DEF NoReply
  <2>3. \A j \in OwnerRecs : Retained(j)' <=> Retained(j)
    BY <1>7 DEF Retained
  <2>4. QED
    BY <1>1, <1>3, <1>6, <1>7, <1>8, <1>9, <2>1, <2>2, <2>3, AnsweredReplies, SMTT(20)
<1>13. QED
  BY <1>1, <1>7, <1>10, <1>11, <1>12, OpensKept, LocksSame, AnchoredKept
  DEF OpenInv, Typed, lockVars, Known

\* CLOSE and FREE_STATEID of an open: it leaves the three tables; its owner, now
\* r, has the same name and the other opens.
Dropped(o, r) ==
  /\ Live(o) /\ openStateByOther[o].locks = {} /\ DropOpen(o)
  /\ r.name = OwnerOf(o).name /\ r.last \in 0..MaxSeqid /\ r.states = OwnerOf(o).states \ {o}
  /\ ownerRec' = [ownerRec EXCEPT ![openStateByOther[o].owner] = r]
  /\ UNCHANGED <<nextOwner, nextOpen, lockVars, work>>
  /\ \/ UNCHANGED closedOwnerByOther
     \/ closedOwnerByOther' = [closedOwnerByOther EXCEPT ![o] = openStateByOther[o].owner]
  /\ openReply' = [m \in OpenOwners |-> openReply'[m]]

\* The tables still agree then.
LEMMA DropKeeps ==
  ASSUME OpenInv, NEW o \in Opens, NEW r, Dropped(o, r)
  PROVE  /\ Typed' /\ Linked' /\ Anchored' /\ SharesRespected' /\ LockRepliesInv'
         /\ \A j \in OwnerRecs \ {openStateByOther[o].owner} : ownerRec'[j] = ownerRec[j]
         /\ ownerRec'[openStateByOther[o].owner] = r
         /\ \A m \in OpenOwners : openOwners'[m] = openOwners[m]
              \/ (openOwners'[m] = 0 /\ openOwners[m] = openStateByOther[o].owner)
<1> USE OpenConstants
<1>1. /\ Live(o) /\ openStateByOther[o].locks = {} /\ DropOpen(o)
      /\ r.name = OwnerOf(o).name /\ r.last \in 0..MaxSeqid /\ r.states = OwnerOf(o).states \ {o}
      /\ ownerRec' = [ownerRec EXCEPT ![openStateByOther[o].owner] = r]
      /\ UNCHANGED <<nextOwner, nextOpen, lockVars, work>>
      /\ \/ UNCHANGED closedOwnerByOther
         \/ closedOwnerByOther' = [closedOwnerByOther EXCEPT ![o] = openStateByOther[o].owner]
      /\ openReply' = [m \in OpenOwners |-> openReply'[m]]
  BY DEF Dropped
<1>2. Typed /\ Linked /\ Anchored /\ SharesRespected
  BY DEF OpenInv
<1>3. PICK k \in OwnerRecs, n \in OpenOwners :
        /\ k = openStateByOther[o].owner /\ n = OwnerOf(o).name /\ ownerRec[k] = OwnerOf(o)
        /\ openOwners[n] = k /\ k < nextOwner /\ k # 0
        /\ \A m \in OpenOwners : openOwners[m] = k => m = n
  BY <1>1, <1>2, OwnerOfOpen, SMTT(20) DEF OwnerRecs
<1>4. openStateByOther[o].file \in OpenFiles /\ o < nextOpen
  BY <1>1, <1>2 DEF Typed, OpensTyped, IsShare
<1>5. /\ openStateByOther' = [x \in Opens |-> openStateByOther'[x]]
      /\ \A x \in Opens : x # o => openStateByOther'[x] = openStateByOther[x]
      /\ openStateByOther'[o] = Gone
  BY <1>1, <1>2 DEF Typed, OpensTyped, DropOpen
<1>6. \A x \in Opens : Live(x)' <=> Live(x) /\ x # o
  BY <1>5 DEF Live
<1>7. /\ openStateByFile' = [f \in OpenFiles |-> openStateByFile'[f]]
      /\ \A f \in OpenFiles : openStateByFile'[f] =
           IF f = openStateByOther[o].file THEN openStateByFile[f] \ {o} ELSE openStateByFile[f]
  BY <1>1, <1>2, <1>4 DEF Typed, OpensTyped, DropOpen
<1>8. /\ ownerRec' = [j \in OwnerRecs |-> ownerRec'[j]]
      /\ \A j \in OwnerRecs : ownerRec'[j] = IF j = k THEN r ELSE ownerRec[j]
  BY <1>1, <1>2, <1>3 DEF Typed, OwnersTyped
<1>9. /\ \A j \in OwnerRecs : ownerRec'[j].name = ownerRec[j].name
      /\ \A j \in OwnerRecs : ownerRec'[j].states = IF j = k THEN ownerRec[j].states \ {o}
                                                     ELSE ownerRec[j].states
  BY <1>1, <1>3, <1>8
<1>10. \A m \in OpenOwners : openOwners'[m] =
         IF openOwners[m] = k /\ ownerRec[k].states \subseteq {o} THEN 0 ELSE openOwners[m]
  BY <1>1, <1>3 DEF DropOpen, OwnerLeft
<1>11. openOwners' \in [OpenOwners -> 0..MaxOwners]
  BY <1>1, <1>2, <1>3, SMTT(20) DEF DropOpen, OwnerLeft, Typed, OwnersTyped
<1>12. /\ closedOwnerByOther' \in [Opens -> 0..MaxOwners]
       /\ \A x \in Opens : x # o => closedOwnerByOther'[x] = closedOwnerByOther[x]
       /\ closedOwnerByOther'[o] \in {0, k}
  BY <1>1, <1>2, <1>3, SMTT(20) DEF OwnerRecs, Linked, OpensLinked, Typed, OwnersTyped
<1>13. OwnersTyped'
  <2>1. \A j \in OwnerRecs : ownerRec'[j].states \subseteq Opens
    BY <1>2, <1>9 DEF Typed, OwnersTyped
  <2>2. QED
    BY <1>1, <1>2, <1>8, <1>11, <1>12, <2>1 DEF Typed, OwnersTyped
<1>14. OpensTyped'
  BY <1>1, <1>2, <1>5, <1>6, <1>7 DEF Typed, OpensTyped
<1>15. LocksTyped' /\ LockRepliesInv'
  BY <1>1, LocksSame DEF OpenInv, Typed
<1>16. ByFile' /\ ByFileOnly'
  BY <1>2, <1>5, <1>6, <1>7, SMTT(20) DEF Linked, ByFile, ByFileOnly
<1>17. OwnersLinked'
  <2> SUFFICES ASSUME NEW m \in OpenOwners, openOwners'[m] # 0
               PROVE  /\ ownerRec'[openOwners'[m]].name = m
                      /\ openOwners'[m] < nextOwner
                      /\ \A x \in Opens : x \in ownerRec'[openOwners'[m]].states <=>
                           Live(x)' /\ openStateByOther'[x].owner = openOwners'[m]
    BY <1>1 DEF OwnersLinked
  <2>1. openOwners'[m] = openOwners[m] /\ openOwners[m] # 0
    BY <1>10
  <2>2. openOwners[m] \in OwnerRecs
    BY <1>2, <2>1, SMTT(20) DEF Typed, OwnersTyped, OwnerRecs
  <2>3. /\ ownerRec[openOwners[m]].name = m
        /\ openOwners[m] < nextOwner
        /\ \A x \in Opens : x \in ownerRec[openOwners[m]].states <=>
             Live(x) /\ openStateByOther[x].owner = openOwners[m]
    BY <1>2, <2>1 DEF Linked, OwnersLinked
  <2>4. \A x \in Opens : x \in ownerRec'[openOwners[m]].states <=>
             Live(x)' /\ openStateByOther'[x].owner = openOwners[m]
    <3> SUFFICES ASSUME NEW x \in Opens
                 PROVE  x \in ownerRec'[openOwners[m]].states <=>
                          Live(x)' /\ openStateByOther'[x].owner = openOwners[m]
      OBVIOUS
    <3>1. CASE x = o
      BY <1>3, <1>6, <1>9, <2>2, <2>3, <3>1
    <3>2. CASE x # o
      BY <1>5, <1>6, <1>9, <2>2, <2>3, <3>2, ZenonT(40)
    <3>3. QED
      BY <3>1, <3>2
  <2>5. QED
    BY <1>9, <2>1, <2>2, <2>3, <2>4
<1>18. \A x \in Opens : Live(x)' => (OwnerOf(x).name)' = OwnerOf(x).name
  BY <1>2, <1>5, <1>6, <1>9, OwnerOfOpen DEF OwnerOf
<1>19. OpensLinked'
  BY <1>2, <1>3, <1>5, <1>6, <1>10, <1>12, <1>18, SMTT(20) DEF OpensLinked, Linked, OwnersLinked
<1>20. ClosedLinked'
  <2> SUFFICES ASSUME NEW x \in Opens, closedOwnerByOther'[x] # 0
               PROVE  /\ x < nextOpen
                      /\ closedOwnerByOther'[x] < nextOwner
                      /\ ownerRec'[closedOwnerByOther'[x]].name \in OpenOwners
    BY <1>1 DEF ClosedLinked
  <2>1. CASE x = o
    BY <1>3, <1>4, <1>9, <1>12, <2>1, SMTT(20)
  <2>2. CASE x # o
    <3>1. closedOwnerByOther'[x] = closedOwnerByOther[x] /\ closedOwnerByOther[x] \in OwnerRecs
      BY <1>2, <1>12, <2>2, SMTT(20) DEF Typed, OwnersTyped, OwnerRecs
    <3>2. QED
      BY <1>2, <1>9, <3>1 DEF Linked, ClosedLinked
  <2>3. QED
    BY <2>1, <2>2
<1>21. Anchored'
  <2>1. LocksBack'
    BY <1>1, <1>2, <1>5, <1>6, SMTT(20) DEF Anchored, LocksBack, LiveLock, lockVars
  <2>2. HeldLinked'
    BY <1>1, <1>2 DEF Anchored, HeldLinked, LiveLock, lockVars
  <2>3. QED
    BY <1>1, <1>2, <1>5, <1>6, <1>18, <2>1, <2>2, SMTT(20)
    DEF Anchored, LocksLinked, lockVars, LiveLock, Known, Typed, LocksTyped, IsLockState
<1>22. SharesRespected'
  BY <1>2, <1>5, <1>6 DEF SharesRespected
<1>23. QED
  BY <1>3, <1>8, <1>10, <1>13, <1>14, <1>15, <1>16, <1>17, <1>19, <1>20, <1>21, <1>22
  DEF Typed, Linked

\* CloseFile.
LEMMA CloseFileKeeps ==
  ASSUME OpenInv, NEW o \in Opens, NEW q \in 0..MaxSeqid, CloseFile(o, q), UNCHANGED work
  PROVE  OpenInv'
<1> USE OpenConstants
<1>1. Typed /\ Linked /\ RepliesInv
  BY DEF OpenInv
<1>2. /\ Live(o) /\ Ready(OwnerOf(o).name, q) /\ openStateByOther[o].locks = {} /\ DropOpen(o)
      /\ UNCHANGED <<nextOwner, nextOpen, lockVars>>
  BY DEF CloseFile, Accepted
<1>3. PICK k \in OwnerRecs, n \in OpenOwners :
        /\ k = openStateByOther[o].owner /\ n = OwnerOf(o).name /\ ownerRec[k] = OwnerOf(o)
        /\ openOwners[n] = k /\ k # 0
        /\ \A m \in OpenOwners : openOwners[m] = k => m = n
  BY <1>1, <1>2, OwnerOfOpen, SMTT(20) DEF OwnerRecs
<1>4. PICK r : r = Advanced(ownerRec[k], q, FALSE, ownerRec[k].states \ {o}, <<"CLOSE">>)
  OBVIOUS
<1>5. r.name = n /\ r.last = q /\ r.states = OwnerOf(o).states \ {o} /\ r.reply = <<"CLOSE">>
  BY <1>3, <1>4 DEF Advanced, OwnerRecord
<1>6. /\ ownerRec' = [ownerRec EXCEPT ![k] = r]
      /\ closedOwnerByOther' = [closedOwnerByOther EXCEPT ![o] = k]
      /\ Answer(n, q, <<"CLOSE">>)
  BY <1>3, <1>4 DEF CloseFile
<1>7. /\ openReply' = [m \in OpenOwners |-> openReply'[m]]
      /\ openReply'[n] = IF q = 0 THEN NoReply ELSE <<"CLOSE">>
      /\ \A m \in OpenOwners \ {n} : openReply'[m] = openReply[m]
  BY <1>1, <1>6 DEF Typed, OwnersTyped, Answer
<1>8. Dropped(o, r)
  BY <1>2, <1>3, <1>5, <1>6, <1>7 DEF Dropped
<1>9. /\ Typed' /\ Linked' /\ Anchored' /\ SharesRespected' /\ LockRepliesInv'
      /\ \A j \in OwnerRecs \ {k} : ownerRec'[j] = ownerRec[j]
      /\ ownerRec'[k] = r
      /\ \A m \in OpenOwners : openOwners'[m] = openOwners[m]
              \/ (openOwners'[m] = 0 /\ openOwners[m] = k)
  BY <1>3, <1>8, DropKeeps, SMTT(20)
<1>10. RepliesInv'
  <2>1. openReply[n] = NoReply /\ q \in Seqids
    BY <1>2, <1>3 DEF Ready
  <2>2. ~Does("v41ops") => openReply'[n] = <<"CLOSE">> /\ <<"CLOSE">> # NoReply
    BY <1>7, <2>1, SeqidGiven DEF NoReply
  <2>3. Retained(k)' /\ (\A j \in OwnerRecs \ {k} : Retained(j)' <=> Retained(j))
    BY <1>1, <1>2, <1>6, SMTT(20)
    DEF Retained, OwnerRecs, Typed, OwnersTyped, Linked, OpensLinked
  <2>4. \A m \in OpenOwners \ {n} : openOwners'[m] = openOwners[m]
    BY <1>3, <1>9
  <2>5. openOwners'[n] = k \/ openOwners'[n] = 0
    BY <1>3, <1>9
  <2>6. QED
    BY <1>1, <1>3, <1>5, <1>7, <1>9, <2>1, <2>2, <2>3, <2>4, <2>5, AnsweredReplies, SMTT(20)
<1>11. QED
  BY <1>9, <1>10 DEF OpenInv

\* FREE_STATEID of an open, which NFSv4.1 alone has.
LEMMA FreeOpenKeeps ==
  ASSUME OpenInv, NEW o \in Opens, FreeOpenStateid(o), UNCHANGED work
  PROVE  OpenInv'
<1>1. Typed /\ Linked
  BY DEF OpenInv
<1>2. /\ Does("v41ops") /\ Live(o) /\ openStateByOther[o].locks = {} /\ DropOpen(o)
      /\ UNCHANGED <<nextOwner, nextOpen, closedOwnerByOther, lockVars, openReply>>
  BY DEF FreeOpenStateid
<1>3. PICK k \in OwnerRecs : k = openStateByOther[o].owner /\ ownerRec[k] = OwnerOf(o)
  BY <1>1, <1>2, OwnerOfOpen
<1> DEFINE old == ownerRec[k]
<1>4. PICK r : r = OwnerRecord(old.name, old.last, old.confirmed, old.states \ {o},
                               old.result, old.reply)
  OBVIOUS
<1>5. r.name = OwnerOf(o).name /\ r.last = old.last /\ r.states = OwnerOf(o).states \ {o}
  BY <1>3, <1>4 DEF OwnerRecord
<1>6. ownerRec' = [ownerRec EXCEPT ![k] = r] /\ r.last \in 0..MaxSeqid
      /\ openReply' = [m \in OpenOwners |-> openReply'[m]]
  BY <1>1, <1>2, <1>3, <1>4, <1>5 DEF FreeOpenStateid, Typed, OwnersTyped
<1>7. QED
  BY <1>2, <1>3, <1>5, <1>6, DropKeeps DEF OpenInv, Dropped, RepliesInv, Does

-----------------------------------------------------------------------------
(* Caching a reply.                                                        *)

\* CacheOpenOwnerResult.
LEMMA CacheOpenKeeps ==
  ASSUME OpenInv, NEW n \in OpenOwners, CacheOpenOwnerResult(n), UNCHANGED work
  PROVE  OpenInv'
<1> USE OpenConstants
<1>1. Typed /\ Linked /\ Anchored /\ RepliesInv /\ SharesRespected
  BY DEF OpenInv
<1>2. /\ openReply[n] # NoReply
      /\ openReply' = [openReply EXCEPT ![n] = NoReply]
      /\ UNCHANGED <<nextOwner, openOwners, closedOwnerByOther, openVars, lockVars>>
  BY DEF CacheOpenOwnerResult
<1>3. CacheTargets(n) \subseteq OwnerRecs
  BY <1>1, SMTT(20) DEF CacheTargets, Typed, OwnersTyped, OwnerRecs
<1>4. PICK T \in SUBSET OwnerRecs :
        /\ T \subseteq CacheTargets(n)
        /\ CacheTargets(n) # {} => T # {}
        /\ ownerRec' = [k \in OwnerRecs |-> IF k \in T THEN Cached(ownerRec[k], openReply[n])
                                            ELSE ownerRec[k]]
  <2>1. CASE CacheTargets(n) = {}
    BY <1>1, <2>1 DEF CacheOpenOwnerResult, Typed, OwnersTyped
  <2>2. CASE CacheTargets(n) # {}
    <3>1. PICK k \in CacheTargets(n) : ownerRec' = [ownerRec EXCEPT ![k] = Cached(@, openReply[n])]
      BY <2>2 DEF CacheOpenOwnerResult
    <3>2. ownerRec' = [j \in OwnerRecs |-> IF j \in {k} THEN Cached(ownerRec[j], openReply[n])
                                            ELSE ownerRec[j]]
      BY <1>1, <1>3, <3>1 DEF Typed, OwnersTyped
    <3>3. QED
      BY <1>3, <3>1, <3>2
  <2>3. QED
    BY <2>1, <2>2
<1>5. \A k \in OwnerRecs : /\ ownerRec'[k].name = ownerRec[k].name
                           /\ ownerRec'[k].states = ownerRec[k].states
                           /\ ownerRec'[k].last = ownerRec[k].last
                           /\ ownerRec'[k].reply = ownerRec[k].reply
                           /\ ownerRec'[k].result = IF k \in T THEN openReply[n] ELSE ownerRec[k].result
  BY <1>4 DEF Cached, OwnerRecord
<1>6. /\ openReply' = [m \in OpenOwners |-> openReply'[m]]
      /\ \A m \in OpenOwners : openReply'[m] = IF m = n THEN NoReply ELSE openReply[m]
  BY <1>1, <1>2 DEF Typed, OwnersTyped
<1>7. OwnersKept
  BY <1>1, <1>2, <1>4, <1>5, <1>6 DEF OwnersKept, Typed, OwnersTyped, openVars
<1>8. RepliesInv'
  <2> SUFFICES ASSUME ~Does("v41ops"), NEW j \in OwnerRecs, Reachable(j),
                      openOwners[ownerRec[j].name] = j \/ OnlyRetained(j)
               PROVE  IF Awaits(j)' THEN ownerRec'[j].reply = openReply'[ownerRec'[j].name]
                      ELSE ownerRec'[j].result = ownerRec'[j].reply
    BY <1>2, <1>5, SMTT(20) DEF RepliesInv, Does, Reachable, Retained, OnlyRetained
  <2>1. IF Awaits(j) THEN ownerRec[j].reply = openReply[ownerRec[j].name]
        ELSE ownerRec[j].result = ownerRec[j].reply
    BY <1>1 DEF RepliesInv
  <2>2. ASSUME NEW k \in T PROVE ownerRec[k].name = n
    BY <1>1, <1>4 DEF CacheTargets, Linked, OwnersLinked
  <2>3. CASE ownerRec[j].name # n
    BY <1>1, <1>2, <1>5, <1>6, <2>1, <2>2, <2>3, ReachableNamed DEF Awaits
  <2>4. CASE ownerRec[j].name = n
    <3>1. ~Awaits(j)'
      BY <1>5, <1>6, <2>4 DEF Awaits
    <3>2. CASE openOwners[n] = j
      <4>1. T = {j}
        BY <1>4, <3>2, SMTT(20) DEF CacheTargets, OwnerRecs
      <4>2. QED
        BY <1>2, <1>5, <2>1, <2>4, <3>1, <3>2, <4>1 DEF Awaits
    <3>3. CASE openOwners[n] = 0
      <4>1. Retained(j) /\ OnlyRetained(j)
        BY <1>1, <2>4, <3>3, SMTT(20) DEF Reachable, Linked, OwnersLinked, OwnerRecs
      <4>2. CacheTargets(n) = {j}
        BY <2>4, <3>3, <4>1, SMTT(20) DEF CacheTargets, OnlyRetained, Retained
      <4>3. T = {j} /\ Awaits(j)
        BY <1>2, <1>4, <2>4, <3>3, <4>2 DEF Awaits
      <4>4. QED
        BY <1>5, <2>1, <2>4, <3>1, <4>3
    <3>4. CASE openOwners[n] # 0 /\ openOwners[n] # j
      BY <1>4, <1>5, <2>1, <2>4, <3>1, <3>4 DEF CacheTargets, Awaits
    <3>5. QED
      BY <3>2, <3>3, <3>4
  <2>5. QED
    BY <2>3, <2>4
<1>9. SharesKept
  BY <1>1, <1>2 DEF SharesKept, Typed, OpensTyped, openVars, Live
<1>10. OwnersTyped' /\ OpensTyped' /\ Linked' /\ SharesRespected'
  BY <1>1, <1>7, <1>9, OpensKept
<1>11. LocksTyped' /\ LockRepliesInv'
  BY <1>2, LocksSame DEF OpenInv, Typed
<1>12. \A m \in LockOwners : Known(m) => Known(m)'
  BY <1>2 DEF lockVars, Known
<1>13. Anchored'
  BY <1>1, <1>2, <1>7, <1>9, <1>12, AnchoredKept DEF lockVars, openVars
<1>14. QED
  BY <1>8, <1>10, <1>11, <1>13 DEF OpenInv, Typed

\* The owners and the replies kept for them are as before.
LEMMA RepliesSame ==
  ASSUME RepliesInv, UNCHANGED <<openOwners, closedOwnerByOther, openReply, work>>,
         \A k \in OwnerRecs : /\ ownerRec'[k].name = ownerRec[k].name
                              /\ ownerRec'[k].result = ownerRec[k].result
                              /\ ownerRec'[k].reply = ownerRec[k].reply
  PROVE  RepliesInv'
  BY SMTT(20) DEF RepliesInv, Does, Reachable, Retained, OnlyRetained, Awaits

\* The owners and the opens are as before.
LEMMA OwnersSame ==
  ASSUME OpenInv, UNCHANGED <<ownerVars, openVars, openReply, work>>
  PROVE  OwnersKept /\ SharesKept /\ OwnersTyped' /\ OpensTyped' /\ Linked' /\ SharesRespected'
         /\ RepliesInv'
  BY OpensKept, RepliesSame
  DEF OpenInv, Typed, OwnersTyped, OwnersKept, ownerVars, openVars, OpensTyped, SharesKept, Live

\* CacheLockOwnerResult.
LEMMA CacheLockKeeps ==
  ASSUME OpenInv, NEW n \in LockOwners, CacheLockOwnerResult(n), UNCHANGED work
  PROVE  OpenInv'
<1>1. Typed /\ Linked /\ Anchored /\ LockRepliesInv
  BY DEF OpenInv
<1>2. /\ lockReply[n] # NoReply
      /\ lockReply' = [lockReply EXCEPT ![n] = NoReply]
      /\ UNCHANGED <<ownerVars, openVars, lockStateByOther, nextLock, held, openReply>>
  BY DEF CacheLockOwnerResult
<1>3. /\ lockOwners' = [m \in LockOwners |-> lockOwners'[m]]
      /\ \A m \in LockOwners \ {n} : lockOwners'[m] = lockOwners[m]
      /\ ~Known(n) => lockOwners'[n] = lockOwners[n]
      /\ Known(n) => lockOwners'[n] = [last |-> lockOwners[n].last, result |-> lockReply[n],
                                       reply |-> lockOwners[n].reply]
  BY <1>1 DEF CacheLockOwnerResult, Typed, LocksTyped
<1>4. /\ Known(n) => /\ lockOwners'[n].last = lockOwners[n].last
                     /\ lockOwners'[n].reply = lockOwners[n].reply
                     /\ lockOwners'[n].result = lockReply[n]
      /\ Known(n)' <=> Known(n)
  BY <1>1, <1>3, SMTT(20) DEF Typed, LocksTyped, Known, NoLockOwner
<1>5. \A m \in LockOwners : Known(m)' <=> Known(m)
  BY <1>3, <1>4 DEF Known
<1>6. /\ lockReply' = [m \in LockOwners |-> lockReply'[m]]
      /\ \A m \in LockOwners : lockReply'[m] = IF m = n THEN NoReply ELSE lockReply[m]
  BY <1>1, <1>2 DEF Typed, LocksTyped
<1>7. LocksTyped'
  <2>1. \A m \in LockOwners : Known(m)' => lockOwners'[m].reply # <<"absent">>
    BY <1>1, <1>3, <1>4, <1>5 DEF Typed, LocksTyped
  <2>2. QED
    BY <1>1, <1>2, <1>3, <1>4, <1>6, <2>1 DEF Typed, LocksTyped, LiveLock
<1>8. LockRepliesInv'
  BY <1>1, <1>2, <1>3, <1>4, <1>5, <1>6, SMTT(20) DEF LockRepliesInv, Does
<1>9. QED
  BY <1>1, <1>2, <1>5, <1>7, <1>8, AnchoredKept, OwnersSame DEF OpenInv, Typed, openVars

-----------------------------------------------------------------------------
(* LOCK, LOCKU, RELEASE_LOCKOWNER and FREE_STATEID of a lock.              *)

\* The lock-owner n has become r and is answered this.
LockAnswered(n, q, r, reply) ==
  /\ lockOwners' = [lockOwners EXCEPT ![n] = r]
  /\ r.last \in 0..MaxSeqid /\ r.reply = reply
  /\ reply # NoReply /\ reply # <<"absent">>
  /\ q \in Seqids /\ AnswerLock(n, q, reply)

\* Then n is known and its reply waits to be cached.
LEMMA LockAnsweredEffect ==
  ASSUME LocksTyped, LockRepliesInv, NEW n \in LockOwners, NEW q, NEW r, NEW reply,
         LockAnswered(n, q, r, reply), UNCHANGED work
  PROVE  /\ lockOwners' = [m \in LockOwners |-> lockOwners'[m]]
         /\ lockReply' = [m \in LockOwners |-> lockReply'[m]]
         /\ \A m \in LockOwners : lockOwners'[m].last \in 0..MaxSeqid
         /\ \A m \in LockOwners : Known(m)' => lockOwners'[m].reply # <<"absent">>
         /\ \A m \in LockOwners : Known(m)' <=> Known(m) \/ m = n
         /\ LockRepliesInv'
<1>1. /\ lockOwners' = [m \in LockOwners |-> lockOwners'[m]]
      /\ \A m \in LockOwners : lockOwners'[m] = IF m = n THEN r ELSE lockOwners[m]
  BY DEF LocksTyped, LockAnswered
<1>2. \A m \in LockOwners : Known(m)' <=> Known(m) \/ m = n
  BY <1>1, SMTT(20) DEF Known, LockAnswered, NoLockOwner
<1>3. QED
  BY <1>1, <1>2, SeqidGiven DEF LocksTyped, LockAnswered, LockRepliesInv, Does, AnswerLock

\* LOCK and LOCKU with a lock stateid: locks come only for its owner and file.
LEMMA RestampedLockKeeps ==
  ASSUME OpenInv, NEW l \in LockStates, NEW q \in 0..MaxSeqid, NEW reply, LockAccepted(l, q),
         RestampedLock(l, q, reply), reply # NoReply, reply # <<"absent">>, UNCHANGED work,
         held' \subseteq LockOwners \X OpenFiles \X Modes,
         \A h \in held' : h \in held
           \/ (h[1] = lockStateByOther[l].owner /\ h[2] = lockStateByOther[l].file)
  PROVE  OpenInv'
<1>1. Typed /\ Linked /\ Anchored /\ LockRepliesInv
  BY DEF OpenInv
<1>2. LiveLock(l) /\ LockReady(lockStateByOther[l].owner, q)
  BY DEF LockAccepted
<1>3. PICK n \in LockOwners : n = lockStateByOther[l].owner
  BY <1>1, <1>2 DEF Typed, LocksTyped, IsLockState
<1>4. UNCHANGED <<ownerVars, openVars, lockStateByOther, nextLock, openReply>>
  BY DEF RestampedLock
<1>5. PICK r : r = AdvancedLock(lockOwners[n], q, reply)
  OBVIOUS
<1>6. /\ lockOwners' = [m \in LockOwners |-> lockOwners'[m]]
      /\ lockReply' = [m \in LockOwners |-> lockReply'[m]]
      /\ \A m \in LockOwners : lockOwners'[m].last \in 0..MaxSeqid
      /\ \A m \in LockOwners : Known(m)' => lockOwners'[m].reply # <<"absent">>
      /\ \A m \in LockOwners : Known(m)' <=> Known(m) \/ m = n
      /\ LockRepliesInv'
  BY <1>1, <1>2, <1>3, <1>5, LockAnsweredEffect
  DEF Typed, AdvancedLock, LockReady, RestampedLock, LockAnswered
<1>7. Anchored'
  <2>1. LocksBack'
    BY <1>1, <1>4 DEF Anchored, LocksBack, Live, LiveLock, openVars
  <2>2. QED
    BY <1>1, <1>2, <1>4, <1>6, <2>1
    DEF Anchored, LocksLinked, LiveLock, Typed, LocksTyped, IsLockState, Live, OwnerOf,
        ownerVars, openVars, HeldLinked
<1>8. QED
  BY <1>1, <1>4, <1>6, <1>7, OwnersSame DEF OpenInv, Typed, LocksTyped, LiveLock

\* LOCK with a lock stateid.
LEMMA LockExistingKeeps ==
  ASSUME OpenInv, NEW l \in LockStates, NEW q \in 0..MaxSeqid, NEW mode \in Modes,
         LockExisting(l, q, mode), UNCHANGED work
  PROVE  OpenInv'
<1>1. /\ LockAccepted(l, q) /\ held \subseteq LockOwners \X OpenFiles \X Modes
      /\ lockStateByOther[l].owner \in LockOwners /\ lockStateByOther[l].file \in OpenFiles
  BY DEF LockExisting, LockAccepted, OpenInv, Typed, LocksTyped, IsLockState
<1>2. CASE /\ held' = Acquired(lockStateByOther[l].owner, lockStateByOther[l].file, mode)
           /\ RestampedLock(l, q, <<"LOCK", l, q>>)
  BY <1>1, <1>2, RestampedLockKeeps, SMTT(20) DEF Acquired, NoReply
<1>3. CASE RestampedLock(l, q, <<"DENIED">>) /\ UNCHANGED held
  BY <1>1, <1>3, RestampedLockKeeps DEF NoReply
<1>4. QED
  BY <1>2, <1>3 DEF LockExisting

\* LOCKU.
LEMMA UnlockFileKeeps ==
  ASSUME OpenInv, NEW l \in LockStates, NEW q \in 0..MaxSeqid, UnlockFile(l, q), UNCHANGED work
  PROVE  OpenInv'
  BY RestampedLockKeeps DEF UnlockFile, OpenInv, Typed, LocksTyped, NoReply

\* The lock state that LockNew uses: the lock-owner's on this open, or a new one.
LEMMA LockStateUsed ==
  ASSUME Typed, Anchored, NEW n \in LockOwners, NEW o \in Opens, Live(o),
         NEW l \in LockStates, l = LockStateFor(n, o)
  PROVE  \/ l = nextLock /\ ~LiveLock(l)
         \/ /\ l < nextLock /\ LiveLock(l) /\ lockStateByOther[l].owner = n
            /\ lockStateByOther[l].open = o
            /\ lockStateByOther[l].file = openStateByOther[o].file
<1> DEFINE same == {x \in openStateByOther[o].locks : lockStateByOther[x].owner = n}
<1>1. CASE same = {}
  BY <1>1, OpenConstants, SMTT(20) DEF LockStateFor, Typed, LocksTyped
<1>2. CASE same # {}
  <2>1. l \in same
    BY <1>2 DEF LockStateFor
  <2>2. LiveLock(l) /\ lockStateByOther[l].open = o
    BY <2>1 DEF Anchored, LocksBack
  <2>3. QED
    BY <2>1, <2>2 DEF Typed, LocksTyped, Anchored, LocksLinked
<1>3. QED
  BY <1>1, <1>2

\* LockNew: granted, denied, or given up.
LEMMA LockNewKeeps ==
  ASSUME OpenInv, NEW n \in LockOwners, NEW o \in Opens, NEW lq \in 0..MaxSeqid,
         NEW oq \in 0..MaxSeqid, NEW mode \in Modes, LockNew(n, lq, o, oq, mode), UNCHANGED work
  PROVE  OpenInv'
<1> USE OpenConstants
<1>1. Typed /\ Linked /\ Anchored /\ RepliesInv /\ LockRepliesInv /\ SharesRespected
  BY DEF OpenInv
<1> DEFINE old == openStateByOther[o]
<1>2. PICK l \in LockStates : l = LockStateFor(n, o)
  BY DEF LockNew
<1>3. /\ Live(o) /\ lq \in Seqids /\ OwnerClient[n] = OwnerClient[OwnerOf(o).name]
      /\ openStateByOther' = [openStateByOther EXCEPT ![o] =
           Share(old.owner, old.file, old.access, old.deny, old.locks \cup {l})]
      /\ lockStateByOther' = [lockStateByOther EXCEPT ![l] =
           [owner |-> n, open |-> o, file |-> old.file]]
      /\ nextLock' = IF l = nextLock THEN nextLock + 1 ELSE nextLock
      /\ UNCHANGED <<nextOwner, openOwners, closedOwnerByOther, openStateByFile, nextOpen, openReply>>
  BY <1>2 DEF LockNew, LockReady
<1>4. \/ l = nextLock /\ ~LiveLock(l)
      \/ /\ l < nextLock /\ LiveLock(l) /\ lockStateByOther[l].owner = n
         /\ lockStateByOther[l].open = o
         /\ lockStateByOther[l].file = openStateByOther[o].file
  BY <1>1, <1>2, <1>3, LockStateUsed, SMTT(20)
<1>5. PICK k \in OwnerRecs : k = old.owner /\ IsShare(old)
  BY <1>1, <1>3, OwnerOfOpen
<1>6. PICK os : os = Share(old.owner, old.file, old.access, old.deny, old.locks \cup {l})
  OBVIOUS
<1>7. /\ IsShare(os) /\ os.owner = old.owner /\ os.file = old.file /\ os.access = old.access
      /\ os.deny = old.deny /\ os.locks = old.locks \cup {l}
  BY <1>5, <1>6 DEF IsShare, Share
<1>8. /\ openStateByOther' = [x \in Opens |-> openStateByOther'[x]]
      /\ openStateByOther'[o] = os
      /\ \A x \in Opens : x # o => openStateByOther'[x] = openStateByOther[x]
  BY <1>1, <1>3, <1>6 DEF Typed, OpensTyped
<1>9. \A x \in Opens : Live(x)' <=> Live(x)
  BY <1>3, <1>5, <1>7, <1>8, SMTT(20) DEF Gone, OwnerRecs, Live
<1>10. SharesKept
  BY <1>1, <1>7, <1>8, <1>9 DEF SharesKept, Typed, OpensTyped
<1>11. \/ UNCHANGED ownerRec
       \/ ownerRec' = [ownerRec EXCEPT ![k] =
            Advanced(ownerRec[k], oq, FALSE, ownerRec[k].states, ownerRec[k].reply)]
  BY <1>5 DEF LockNew
<1>12. /\ ownerRec' = [j \in OwnerRecs |-> ownerRec'[j]]
       /\ \A j \in OwnerRecs : /\ ownerRec'[j].name = ownerRec[j].name
                               /\ ownerRec'[j].states = ownerRec[j].states
                               /\ ownerRec'[j].result = ownerRec[j].result
                               /\ ownerRec'[j].reply = ownerRec[j].reply
                               /\ ownerRec'[j].last \in 0..MaxSeqid
  BY <1>1, <1>11, SMTT(20) DEF Typed, OwnersTyped, Advanced, OwnerRecord
<1>13. /\ OwnersTyped' /\ OpensTyped' /\ Linked' /\ SharesRespected'
       /\ \A x \in Opens : Live(x) => (OwnerOf(x).name)' = OwnerOf(x).name
  BY <1>1, <1>3, <1>10, <1>12, OpensKept DEF OwnersKept, Typed, OwnersTyped
<1>14. RepliesInv'
  BY <1>1, <1>3, <1>12, RepliesSame
<1>15. PICK ls : ls = [owner |-> n, open |-> o, file |-> old.file]
  OBVIOUS
<1>16. ls.owner = n /\ ls.open = o /\ ls.file = old.file /\ IsLockState(ls) /\ ls # Gone
  BY <1>5, <1>15 DEF Gone, IsLockState, IsShare
<1>17. /\ lockStateByOther' = [x \in LockStates |-> lockStateByOther'[x]]
       /\ \A x \in LockStates : lockStateByOther'[x] = IF x = l THEN ls ELSE lockStateByOther[x]
       /\ \A x \in LockStates : LiveLock(x)' <=> LiveLock(x) \/ x = l
  BY <1>1, <1>3, <1>15, <1>16 DEF Typed, LocksTyped, LiveLock
<1>18. nextLock' \in 1..(MaxLockStates + 1) /\ nextLock <= nextLock' /\ l < nextLock'
  BY <1>1, <1>3, <1>4, SMTT(20) DEF Typed, LocksTyped, LockStates
<1>19. /\ lockOwners' = [m \in LockOwners |-> lockOwners'[m]]
       /\ lockReply' = [m \in LockOwners |-> lockReply'[m]]
       /\ \A m \in LockOwners : lockOwners'[m].last \in 0..MaxSeqid
       /\ \A m \in LockOwners : Known(m)' => lockOwners'[m].reply # <<"absent">>
       /\ \A m \in LockOwners : Known(m)' <=> Known(m) \/ m = n
       /\ LockRepliesInv'
  <2>1. ASSUME NEW reply, reply # NoReply, reply # <<"absent">>, AnswerLock(n, lq, reply),
               lockOwners' = [lockOwners EXCEPT ![n] = AdvancedLock(LockOwner(n), lq, reply)]
        PROVE  \E r : LockAnswered(n, lq, r, reply)
    <3>1. PICK r : r = AdvancedLock(LockOwner(n), lq, reply)
      OBVIOUS
    <3>2. r.last = lq /\ r.reply = reply
      BY <3>1 DEF AdvancedLock
    <3>3. QED
      BY <1>3, <2>1, <3>1, <3>2 DEF LockAnswered
  <2>2. CASE /\ lockOwners' = [lockOwners EXCEPT ![n] =
                                 AdvancedLock(LockOwner(n), lq, <<"LOCK", l, lq>>)]
             /\ AnswerLock(n, lq, <<"LOCK", l, lq>>)
    BY <1>1, <2>1, <2>2, LockAnsweredEffect DEF NoReply, Typed
  <2>3. CASE /\ lockOwners' = [lockOwners EXCEPT ![n] =
                                 AdvancedLock(LockOwner(n), lq, <<"DENIED">>)]
             /\ AnswerLock(n, lq, <<"DENIED">>)
    BY <1>1, <2>1, <2>3, LockAnsweredEffect DEF NoReply, Typed
  <2>4. CASE lockOwners' = [lockOwners EXCEPT ![n] = LockOwner(n)] /\ UNCHANGED lockReply
    <3>1. /\ LockOwner(n).last \in 0..MaxSeqid /\ LockOwner(n).reply # <<"absent">>
          /\ LockOwner(n) # NoLockOwner
          /\ Known(n) => LockOwner(n) = lockOwners[n]
          /\ ~Known(n) => LockOwner(n).result = LockOwner(n).reply
      BY <1>1, SMTT(20)
      DEF LockOwner, NewLockOwner, NoLockOwner, NoReply, Known, Typed, LocksTyped
    <3>2. /\ lockOwners' = [m \in LockOwners |-> lockOwners'[m]]
          /\ \A m \in LockOwners : lockOwners'[m] = IF m = n THEN LockOwner(n) ELSE lockOwners[m]
      BY <1>1, <2>4 DEF Typed, LocksTyped
    <3>3. \A m \in LockOwners : Known(m)' <=> Known(m) \/ m = n
      BY <3>1, <3>2 DEF Known
    <3>4. lockReply[n] = NoReply
      BY DEF LockNew, LockReady
    <3>5. LockRepliesInv'
      BY <1>1, <2>4, <3>1, <3>2, <3>3, <3>4, SMTT(20) DEF LockRepliesInv, Does
    <3>6. QED
      BY <1>1, <2>4, <3>1, <3>2, <3>3, <3>5 DEF Typed, LocksTyped
  <2>5. QED
    BY <1>2, <2>2, <2>3, <2>4 DEF LockNew
<1>20. /\ held' \subseteq LockOwners \X OpenFiles \X Modes
       /\ \A h \in held' : h \in held \/ (h[1] = n /\ h[2] = old.file)
  <2>1. held' = held \/ held' = Acquired(n, old.file, mode)
    BY DEF LockNew
  <2>2. QED
    BY <1>1, <1>5, <2>1, SMTT(20) DEF Acquired, Typed, LocksTyped, IsShare
<1>21. LocksTyped'
  <2>1. \A x \in LockStates : LiveLock(x)' => IsLockState(lockStateByOther'[x]) /\ x < nextLock'
    BY <1>1, <1>16, <1>17, <1>18, SMTT(20) DEF Typed, LocksTyped, LockStates
  <2>2. QED
    BY <1>17, <1>18, <1>19, <1>20, <2>1 DEF LocksTyped
<1>22. LocksLinked'
  <2> SUFFICES ASSUME NEW x \in LockStates, LiveLock(x)',
                      NEW m, m = lockStateByOther'[x].owner,
                      NEW p, p = lockStateByOther'[x].open
               PROVE  /\ Live(p)'
                      /\ x \in openStateByOther'[p].locks
                      /\ lockStateByOther'[x].file = openStateByOther'[p].file
                      /\ Known(m)'
                      /\ OwnerClient[m] = OwnerClient[(OwnerOf(p).name)']
    BY SMTT(20) DEF LocksLinked
  <2>1. CASE x = l
    <3>1. m = n /\ p = o /\ lockStateByOther'[x].file = old.file
      BY <1>16, <1>17, <2>1
    <3>2. QED
      BY <1>3, <1>7, <1>8, <1>9, <1>13, <1>19, <2>1, <3>1, ZenonT(40)
  <2>2. CASE x # l
    <3>1. LiveLock(x) /\ lockStateByOther'[x] = lockStateByOther[x]
      BY <1>17, <2>2
    <3>2. /\ Live(p) /\ x \in openStateByOther[p].locks
          /\ lockStateByOther[x].file = openStateByOther[p].file
          /\ Known(m) /\ OwnerClient[m] = OwnerClient[OwnerOf(p).name]
      BY <1>1, <3>1 DEF Anchored, LocksLinked
    <3>3. QED
      BY <1>1, <1>7, <1>8, <1>9, <1>13, <1>19, <3>1, <3>2 DEF Typed, LocksTyped, IsLockState
  <2>3. QED
    BY <2>1, <2>2
<1>23. LocksBack'
  <2> SUFFICES ASSUME NEW p \in Opens, Live(p), NEW x \in openStateByOther'[p].locks
               PROVE  LiveLock(x)' /\ lockStateByOther'[x].open = p
    BY <1>9 DEF LocksBack
  <2>1. CASE x = l /\ p = o
    BY <1>16, <1>17, <2>1
  <2>2. CASE x \in openStateByOther[p].locks
    <3>1. LiveLock(x) /\ lockStateByOther[x].open = p
      BY <1>1, <2>2 DEF Anchored, LocksBack
    <3>2. QED
      BY <1>4, <1>10, <1>16, <1>17, <3>1 DEF SharesKept, IsShare
  <2>3. QED
    BY <1>7, <1>8, <2>1, <2>2
<1>24. HeldLinked'
  <2> SUFFICES ASSUME NEW h \in held'
               PROVE  \E x \in LockStates : LiveLock(x)' /\ lockStateByOther'[x].owner = h[1]
                                            /\ lockStateByOther'[x].file = h[2]
    BY DEF HeldLinked
  <2>1. CASE h[1] = n /\ h[2] = old.file
    BY <1>16, <1>17, <2>1
  <2>2. CASE h \in held
    <3>1. PICK x \in LockStates :
            LiveLock(x) /\ lockStateByOther[x].owner = h[1] /\ lockStateByOther[x].file = h[2]
      BY <1>1, <2>2 DEF Anchored, HeldLinked
    <3>2. lockStateByOther'[x].owner = h[1] /\ lockStateByOther'[x].file = h[2]
      BY <1>4, <1>16, <1>17, <3>1
    <3>3. QED
      BY <1>17, <3>1, <3>2
  <2>3. QED
    BY <1>20, <2>1, <2>2
<1>25. QED
  BY <1>13, <1>14, <1>19, <1>21, <1>22, <1>23, <1>24 DEF OpenInv, Typed, Anchored

\* Some lock states go, with the locks and the lock-owners that have no other.
LocksDropped(gone) ==
  /\ gone \subseteq LockStates
  /\ WithoutLocks(gone)
  /\ lockOwners' = [m \in LockOwners |-> lockOwners'[m]]
  /\ \A m \in LockOwners : lockOwners'[m] \in {lockOwners[m], NoLockOwner}
  /\ \A l \in LockStates \ gone : LiveLock(l) => Known(lockStateByOther[l].owner)'
  /\ held' \subseteq held
  /\ \A h \in held' : \E l \in LockStates \ gone :
       LiveLock(l) /\ lockStateByOther[l].owner = h[1] /\ lockStateByOther[l].file = h[2]
  /\ UNCHANGED <<ownerVars, openStateByFile, nextOpen, nextLock, lockReply, openReply, work>>

\* The other lock states and locks are anchored as before.
LEMMA LocksDroppedKeeps ==
  ASSUME OpenInv, NEW gone, LocksDropped(gone)
  PROVE  OpenInv'
<1>1. Typed /\ Linked /\ Anchored /\ RepliesInv /\ LockRepliesInv /\ SharesRespected
  BY DEF OpenInv
<1>2. /\ lockOwners' = [m \in LockOwners |-> lockOwners'[m]]
      /\ \A m \in LockOwners : lockOwners'[m] \in {lockOwners[m], NoLockOwner}
      /\ \A l \in LockStates \ gone : LiveLock(l) => Known(lockStateByOther[l].owner)'
      /\ held' \subseteq held
      /\ \A h \in held' : \E l \in LockStates \ gone :
           LiveLock(l) /\ lockStateByOther[l].owner = h[1] /\ lockStateByOther[l].file = h[2]
      /\ UNCHANGED <<ownerVars, openStateByFile, nextOpen, nextLock, lockReply, openReply, work>>
  BY DEF LocksDropped
<1>3. /\ lockStateByOther' = [l \in LockStates |-> lockStateByOther'[l]]
      /\ \A l \in LockStates : lockStateByOther'[l] = IF l \in gone THEN Gone ELSE lockStateByOther[l]
      /\ \A l \in LockStates : LiveLock(l)' <=> LiveLock(l) /\ l \notin gone
  BY DEF LocksDropped, WithoutLocks, LiveLock
<1>4. /\ openStateByOther' = [o \in Opens |-> openStateByOther'[o]]
      /\ \A o \in Opens : ~Live(o) => openStateByOther'[o] = Gone
      /\ \A o \in Opens : Live(o) =>
           openStateByOther'[o] = Share(openStateByOther[o].owner, openStateByOther[o].file,
                                        openStateByOther[o].access, openStateByOther[o].deny,
                                        openStateByOther[o].locks \ gone)
  BY DEF LocksDropped, WithoutLocks
<1>5. ASSUME NEW o \in Opens, Live(o)
      PROVE  /\ Live(o)' /\ IsShare(openStateByOther'[o])
             /\ openStateByOther'[o].owner = openStateByOther[o].owner
             /\ openStateByOther'[o].file = openStateByOther[o].file
             /\ openStateByOther'[o].access = openStateByOther[o].access
             /\ openStateByOther'[o].deny = openStateByOther[o].deny
             /\ openStateByOther'[o].locks = openStateByOther[o].locks \ gone
  BY <1>1, <1>4, <1>5, OpenConstants, SMTT(20)
  DEF Typed, OpensTyped, Share, Gone, IsShare, OwnerRecs, Live
<1>6. SharesKept
  BY <1>4, <1>5 DEF SharesKept, Live
<1>7. /\ OwnersTyped' /\ OpensTyped' /\ Linked' /\ SharesRespected'
      /\ \A o \in Opens : Live(o) => (OwnerOf(o).name)' = OwnerOf(o).name
  BY <1>1, <1>2, <1>6, OpensKept DEF OwnersKept, ownerVars, Typed, OwnersTyped
<1>8. RepliesInv'
  BY <1>1, <1>2, RepliesSame DEF ownerVars
<1>9. \A m \in LockOwners : Known(m)' => lockOwners'[m] = lockOwners[m] /\ Known(m)
  BY <1>2 DEF Known
<1>10. LockRepliesInv'
  BY <1>1, <1>2, <1>9 DEF LockRepliesInv, Does
<1>11. LocksTyped'
  BY <1>1, <1>2, <1>3, <1>9, OpenConstants, SMTT(20) DEF Typed, LocksTyped, NoLockOwner
<1>12. LocksLinked'
  BY <1>1, <1>2, <1>3, <1>5, <1>7, SMTT(20)
  DEF LocksLinked, Anchored, Typed, LocksTyped, IsLockState
<1>13. LocksBack'
  <2> SUFFICES ASSUME NEW p \in Opens, Live(p)', NEW x \in openStateByOther'[p].locks
               PROVE  LiveLock(x)' /\ lockStateByOther'[x].open = p
    BY DEF LocksBack
  <2>1. Live(p)
    BY <1>6 DEF SharesKept
  <2>2. x \in openStateByOther[p].locks /\ x \notin gone /\ x \in LockStates
    BY <1>5, <2>1 DEF IsShare
  <2>3. QED
    BY <1>1, <1>3, <2>1, <2>2 DEF Anchored, LocksBack
<1>14. HeldLinked'
  BY <1>2, <1>3, SMTT(20) DEF HeldLinked
<1>15. QED
  BY <1>7, <1>8, <1>10, <1>11, <1>12, <1>13, <1>14 DEF OpenInv, Typed, Anchored

\* ReleaseLockOwner: nothing is held.
LEMMA ReleaseLockOwnerKeeps ==
  ASSUME OpenInv, NEW n \in LockOwners, ReleaseLockOwner(n), UNCHANGED work
  PROVE  OpenInv'
<1>1. /\ lockOwners' = [lockOwners EXCEPT ![n] = NoLockOwner] /\ ~LocksHeld(n)
      /\ WithoutLocks(LockStatesOf(n))
      /\ UNCHANGED <<ownerVars, openStateByFile, nextOpen, nextLock, held, lockReply, openReply>>
  BY DEF ReleaseLockOwner
<1>2. Typed /\ Anchored
  BY DEF OpenInv
<1>3. /\ lockOwners' = [m \in LockOwners |-> lockOwners'[m]]
      /\ \A m \in LockOwners : lockOwners'[m] = IF m = n THEN NoLockOwner ELSE lockOwners[m]
  BY <1>1, <1>2 DEF Typed, LocksTyped
<1>4. ASSUME NEW l \in LockStates \ LockStatesOf(n), LiveLock(l)
      PROVE  Known(lockStateByOther[l].owner)'
  BY <1>1, <1>2, <1>3, <1>4
  DEF Typed, LocksTyped, IsLockState, LockStatesOf, Anchored, LocksLinked, Known, WithoutLocks
<1>5. ASSUME NEW h \in held'
      PROVE  \E l \in LockStates \ LockStatesOf(n) :
               LiveLock(l) /\ lockStateByOther[l].owner = h[1] /\ lockStateByOther[l].file = h[2]
  <2>1. PICK l \in LockStates :
          LiveLock(l) /\ lockStateByOther[l].owner = h[1] /\ lockStateByOther[l].file = h[2]
    BY <1>1, <1>2 DEF Anchored, HeldLinked
  <2>2. QED
    BY <1>1, <2>1 DEF LocksHeld, LockStatesOf, HeldBy
<1>6. QED
  BY <1>1, <1>3, <1>4, <1>5, LocksDroppedKeeps DEF LocksDropped, LockStatesOf

\* freeLockStateidLocked.
LEMMA FreeLockKeeps ==
  ASSUME OpenInv, NEW l \in LockStates, FreeLockStateid(l), UNCHANGED work
  PROVE  OpenInv'
<1>1. /\ LiveLock(l) /\ WithoutLocks({l})
      /\ held' = held \ HeldBy(lockStateByOther[l].owner, lockStateByOther[l].file)
      /\ lockOwners' = IF LockStatesOf(lockStateByOther[l].owner) = {l}
                       THEN [lockOwners EXCEPT ![lockStateByOther[l].owner] = NoLockOwner]
                       ELSE lockOwners
      /\ UNCHANGED <<ownerVars, openStateByFile, nextOpen, nextLock, lockReply, openReply>>
  BY DEF FreeLockStateid
<1>2. Typed /\ Anchored
  BY DEF OpenInv
<1>3. PICK n \in LockOwners : n = lockStateByOther[l].owner
  BY <1>1, <1>2 DEF Typed, LocksTyped, IsLockState
<1>4. /\ lockOwners' = [m \in LockOwners |-> lockOwners'[m]]
      /\ \A m \in LockOwners : lockOwners'[m] =
           IF m = n /\ LockStatesOf(n) = {l} THEN NoLockOwner ELSE lockOwners[m]
  BY <1>1, <1>2, <1>3 DEF Typed, LocksTyped
<1>5. ASSUME NEW x \in LockStates \ {l}, LiveLock(x)
      PROVE  Known(lockStateByOther[x].owner)'
  BY <1>1, <1>2, <1>4, <1>5
  DEF Typed, LocksTyped, IsLockState, Anchored, LocksLinked, LockStatesOf, Known, WithoutLocks
<1>6. ASSUME NEW h \in held'
      PROVE  \E x \in LockStates \ {l} :
               LiveLock(x) /\ lockStateByOther[x].owner = h[1] /\ lockStateByOther[x].file = h[2]
  BY <1>1, <1>2, <1>3 DEF HeldBy, Anchored, HeldLinked
<1>7. QED
  BY <1>1, <1>4, <1>5, <1>6, LocksDroppedKeeps DEF LocksDropped

-----------------------------------------------------------------------------
(* A lease that ends.                                                      *)

OwnersOfClient(c) ==
  {k \in OwnerRecs : \E n \in OpenOwners : OwnerClient[n] = c /\ openOwners[n] = k}

\* The open and lock part of onLeaseExpired takes what belongs to the client,
\* and nothing else.
LEMMA ReleaseClientKeeps ==
  ASSUME OpenInv, NEW c, ReleaseClientState(c), UNCHANGED work
  PROVE  OpenInv'
<1>1. Typed /\ Linked /\ Anchored /\ RepliesInv /\ LockRepliesInv /\ SharesRespected
  BY DEF OpenInv
<1>2. PICK owners : owners = OwnersOfClient(c)
  OBVIOUS
<1>3. PICK gone : gone = UNION {ownerRec[k].states : k \in owners}
  OBVIOUS
<1>4. PICK locks : locks = UNION {openStateByOther[o].locks : o \in gone}
  OBVIOUS
<1>5. PICK lockers : lockers = {lockStateByOther[l].owner : l \in locks}
  OBVIOUS
<1>6. /\ openStateByOther' = [o \in Opens |-> IF o \in gone THEN Gone ELSE openStateByOther[o]]
      /\ openStateByFile' = [f \in OpenFiles |-> openStateByFile[f] \ gone]
      /\ openOwners' = [n \in OpenOwners |-> IF openOwners[n] \in owners THEN 0 ELSE openOwners[n]]
      /\ closedOwnerByOther' = [o \in Opens |->
           IF closedOwnerByOther[o] # 0 /\ OwnerClient[ownerRec[closedOwnerByOther[o]].name] = c
           THEN 0 ELSE closedOwnerByOther[o]]
      /\ lockStateByOther' = [l \in LockStates |-> IF l \in locks THEN Gone ELSE lockStateByOther[l]]
      /\ lockOwners' = [n \in LockOwners |-> IF n \in lockers THEN NoLockOwner ELSE lockOwners[n]]
      /\ held' = {h \in held : ~\E l \in locks : h \in HeldBy(lockStateByOther[l].owner,
                                                             lockStateByOther[l].file)}
      /\ UNCHANGED <<ownerRec, nextOwner, nextOpen, nextLock, openReply, lockReply>>
  BY <1>2, <1>3, <1>4, <1>5 DEF ReleaseClientState, OwnersOfClient
<1>7. \A k \in owners : k \in OwnerRecs /\ \E n \in OpenOwners : OwnerClient[n] = c /\ openOwners[n] = k
  BY <1>2 DEF OwnersOfClient
<1>8. \A n \in OpenOwners : openOwners[n] # 0 =>
        openOwners[n] \in OwnerRecs /\ ownerRec[openOwners[n]].name = n
  <2>1. \A n \in OpenOwners : openOwners[n] \in 0..MaxOwners
    BY <1>1 DEF Typed, OwnersTyped
  <2>2. QED
    BY <1>1, <2>1, OpenConstants, SMTT(20) DEF OwnerRecs, Linked, OwnersLinked
<1>9. \A n \in OpenOwners : openOwners[n] \in owners <=> openOwners[n] # 0 /\ OwnerClient[n] = c
  BY <1>2, <1>7, <1>8, OpenConstants, SMTT(20) DEF OwnerRecs, OwnersOfClient
<1>10. /\ gone \subseteq Opens
       /\ \A o \in Opens : o \in gone <=> Live(o) /\ openStateByOther[o].owner \in owners
  <2>1. ASSUME NEW k \in owners
        PROVE  /\ ownerRec[k].states \subseteq Opens
               /\ \A o \in Opens : o \in ownerRec[k].states <=> Live(o) /\ openStateByOther[o].owner = k
    <3>1. PICK n \in OpenOwners : openOwners[n] = k /\ k \in OwnerRecs
      BY <1>7
    <3>2. k # 0
      BY <3>1, OpenConstants, SMTT(20) DEF OwnerRecs
    <3>3. QED
      BY <1>1, <3>1, <3>2 DEF Typed, OwnersTyped, Linked, OwnersLinked
  <2>2. QED
    BY <1>3, <2>1, SMTT(20)
<1>11. \A o \in Opens : Live(o) =>
         /\ OwnerOf(o).name \in OpenOwners
         /\ openOwners[OwnerOf(o).name] = openStateByOther[o].owner /\ openStateByOther[o].owner # 0
  BY <1>1, OwnerOfOpen, OpenConstants, SMTT(20) DEF OwnerRecs
<1>12. \A o \in Opens : Live(o) => (o \in gone <=> OwnerClient[OwnerOf(o).name] = c)
  BY <1>9, <1>10, <1>11
<1>13. /\ locks \subseteq LockStates
       /\ \A l \in LockStates : l \in locks <=> LiveLock(l) /\ lockStateByOther[l].open \in gone
  BY <1>1, <1>4, <1>10, SMTT(20)
  DEF Typed, OpensTyped, IsShare, Anchored, LocksBack, LocksLinked
<1>14. ASSUME NEW l \in LockStates, LiveLock(l)
       PROVE  /\ l \in locks <=> OwnerClient[lockStateByOther[l].owner] = c
              /\ l \notin locks => lockStateByOther[l].owner \notin lockers
  <2>1. ASSUME NEW x \in LockStates, LiveLock(x)
        PROVE  x \in locks <=> OwnerClient[lockStateByOther[x].owner] = c
    BY <1>1, <1>12, <1>13, <2>1 DEF Typed, LocksTyped, IsLockState, Anchored, LocksLinked
  <2>2. QED
    BY <1>5, <1>13, <1>14, <2>1
<1>15. /\ \A o \in Opens : Live(o)' <=> Live(o) /\ o \notin gone
       /\ \A o \in Opens : Live(o)' => openStateByOther'[o] = openStateByOther[o]
       /\ \A l \in LockStates : LiveLock(l)' <=> LiveLock(l) /\ l \notin locks
       /\ \A l \in LockStates : LiveLock(l)' => lockStateByOther'[l] = lockStateByOther[l]
       /\ \A m \in LockOwners : Known(m)' <=> Known(m) /\ m \notin lockers
       /\ \A m \in LockOwners : Known(m)' => lockOwners'[m] = lockOwners[m]
  BY <1>6 DEF Live, LiveLock, Known
<1>16. OwnersTyped'
  BY <1>1, <1>6, OpenConstants, SMTT(20) DEF Typed, OwnersTyped
<1>17. OpensTyped'
  BY <1>1, <1>6, <1>15 DEF Typed, OpensTyped
<1>18. LocksTyped'
  BY <1>1, <1>6, <1>15, OpenConstants, SMTT(20) DEF Typed, LocksTyped, NoLockOwner
<1>19. ByFile' /\ ByFileOnly'
  BY <1>1, <1>6, <1>10, <1>15 DEF Linked, ByFile, ByFileOnly
<1>20. OwnersLinked'
  BY <1>1, <1>6, <1>10, <1>15 DEF OwnersLinked, Linked
<1>21. OpensLinked'
  BY <1>1, <1>6, <1>9, <1>11, <1>12, <1>15 DEF OpensLinked, OwnerOf, Linked
<1>22. ClosedLinked'
  BY <1>1, <1>6 DEF Linked, ClosedLinked
<1>23. LocksLinked'
  BY <1>1, <1>6, <1>13, <1>14, <1>15
  DEF LocksLinked, Anchored, Typed, LocksTyped, IsLockState, OwnerOf
<1>24. LocksBack'
  <2> SUFFICES ASSUME NEW p \in Opens, Live(p)', NEW x \in openStateByOther'[p].locks
               PROVE  LiveLock(x)' /\ lockStateByOther'[x].open = p
    BY DEF LocksBack
  <2>1. Live(p) /\ p \notin gone /\ x \in openStateByOther[p].locks
    BY <1>15
  <2>2. LiveLock(x) /\ lockStateByOther[x].open = p /\ x \in LockStates
    BY <1>1, <2>1 DEF Anchored, LocksBack, Typed, OpensTyped, IsShare
  <2>3. QED
    BY <1>13, <1>15, <2>1, <2>2
<1>25. HeldLinked'
  BY <1>1, <1>6, <1>15 DEF HeldLinked, Anchored, HeldBy
<1>26. SharesRespected'
  BY <1>1, <1>15, SMTT(20) DEF SharesRespected
<1>27. LockRepliesInv'
  BY <1>1, <1>6, <1>15 DEF LockRepliesInv, Does
<1>28. RepliesInv'
  <2> SUFFICES ASSUME ~Does("v41ops"), NEW k \in OwnerRecs, Reachable(k)',
                      openOwners'[ownerRec'[k].name] = k \/ OnlyRetained(k)'
               PROVE  IF Awaits(k)' THEN ownerRec'[k].reply = openReply'[ownerRec'[k].name]
                      ELSE ownerRec'[k].result = ownerRec'[k].reply
    BY DEF RepliesInv, Does
  <2>1. PICK n : n = ownerRec[k].name
    OBVIOUS
  <2>2. Reachable(k) /\ OwnerClient[n] # c
    BY <1>6, <1>8, <1>9, <2>1, OpenConstants, SMTT(20) DEF Reachable, Retained, OwnerRecs
  <2>3. OnlyRetained(k)' => OnlyRetained(k)
    BY <1>6, <2>1, <2>2 DEF Retained, OnlyRetained
  <2>4. QED
    BY <1>1, <1>6, <1>9, <2>1, <2>2, <2>3, ReachableNamed DEF RepliesInv, Awaits
<1>29. QED
  BY <1>16, <1>17, <1>18, <1>19, <1>20, <1>21, <1>22, <1>23, <1>24, <1>25, <1>26, <1>27, <1>28
  DEF OpenInv, Typed, Linked, Anchored

-----------------------------------------------------------------------------
(* The theorems.                                                           *)

\* Nothing moves.
LEMMA OpenStutter ==
  ASSUME OpenInv, UNCHANGED openSpecVars
  PROVE  OpenInv'
  BY OwnersSame, LocksSame, AnchoredSame
  DEF OpenInv, Typed, ownerVars, openVars, lockVars, Known, OwnerOf, openSpecVars, openStateVars

\* The requests on opens keep the invariant.
LEMMA OpenOpsKeep ==
  ASSUME OpenInv, OpenOps, UNCHANGED work
  PROVE  OpenInv'
<1>1. PICK n \in OpenOwners, q \in 0..MaxSeqid :
        \/ \E f \in OpenFiles,
              access \in IF Does("share") THEN SUBSET Modes \ {{}} ELSE {Modes},
              deny \in IF Does("share") THEN SUBSET Modes ELSE {{}} :
             \/ OpenDenied(n, q, f, access, deny)
             \/ OpenFile(n, q, f, access, deny)
        \/ \E o \in Opens :
             /\ Live(o) /\ OwnerOf(o).name = n
             /\ \/ CloseFile(o, q)
                \/ /\ Does("share")
                   /\ \/ ConfirmOpen(o, q)
                      \/ \E access, deny \in SUBSET Modes : DowngradeOpen(o, q, access, deny)
  BY DEF OpenOps
<1>2. CASE \E f \in OpenFiles,
              access \in IF Does("share") THEN SUBSET Modes \ {{}} ELSE {Modes},
              deny \in IF Does("share") THEN SUBSET Modes ELSE {{}} :
             \/ OpenDenied(n, q, f, access, deny)
             \/ OpenFile(n, q, f, access, deny)
  BY <1>2, OpenDeniedKeeps, OpenFileKeeps
<1>3. ASSUME NEW o \in Opens, CloseFile(o, q)
      PROVE  OpenInv'
  BY <1>3, CloseFileKeeps
<1>4. ASSUME NEW o \in Opens, ConfirmOpen(o, q)
      PROVE  OpenInv'
  BY <1>4, RestampedKeeps DEF ConfirmOpen
<1>5. ASSUME NEW o \in Opens, NEW access, NEW deny, DowngradeOpen(o, q, access, deny)
      PROVE  OpenInv'
  BY <1>5, RestampedKeeps DEF DowngradeOpen
<1>6. QED
  BY <1>1, <1>2, <1>3, <1>4, <1>5

\* The requests on locks keep the invariant.
LEMMA LockOpsKeep ==
  ASSUME OpenInv, LockOps, UNCHANGED work
  PROVE  OpenInv'
<1>1. ASSUME NEW n \in LockOwners, NEW o \in Opens, NEW lq \in 0..MaxSeqid,
             NEW oq \in 0..MaxSeqid, NEW mode \in Modes, LockNew(n, lq, o, oq, mode)
      PROVE  OpenInv'
  BY <1>1, LockNewKeeps
<1>2. ASSUME NEW l \in LockStates, NEW q \in 0..MaxSeqid, UnlockFile(l, q)
      PROVE  OpenInv'
  BY <1>2, UnlockFileKeeps
<1>3. ASSUME NEW l \in LockStates, NEW q \in 0..MaxSeqid, NEW mode \in Modes,
             LockExisting(l, q, mode)
      PROVE  OpenInv'
  BY <1>3, LockExistingKeeps
<1>4. ASSUME NEW n \in LockOwners, ReleaseLockOwner(n)
      PROVE  OpenInv'
  BY <1>4, ReleaseLockOwnerKeeps
<1>5. ASSUME NEW l \in LockStates, FreeLockStateid(l)
      PROVE  OpenInv'
  BY <1>5, FreeLockKeeps
<1>6. QED
  BY <1>1, <1>2, <1>3, <1>4, <1>5 DEF LockOps

\* Every request and every lease that ends keeps the invariant.
LEMMA OpenInvStep == OpenInv /\ OpenStep => OpenInv'
<1> SUFFICES ASSUME OpenInv, OpenStep PROVE OpenInv'
  OBVIOUS
<1>1. CASE OpenNext /\ UNCHANGED work
  BY <1>1, OpenOpsKeep, LockOpsKeep, FreeOpenKeeps, ReleaseClientKeeps, CacheOpenKeeps,
     CacheLockKeeps
  DEF OpenNext
<1>2. CASE UNCHANGED openSpecVars
  BY <1>2, OpenStutter
<1>3. QED
  BY <1>1, <1>2 DEF OpenStep

\* The inductive invariant of the open and lock state of the NFSv4 manager, for
\* any numbers of owners, opens, lock states, files, clients and seqids.
THEOREM OpenStateInvariant == OpenSpec => []OpenInv
<1>1. OpenInit => OpenInv
  BY OpenInvInit
<1>2. OpenInv /\ [OpenNext /\ UNCHANGED work]_<<openStateVars, work>> => OpenInv'
  BY OpenInvStep DEF OpenStep, openSpecVars
<1>3. QED
  BY <1>1, <1>2, PTL DEF OpenSpec

\* No two owners ever share a file against what one of them denies, whatever
\* the order of OPENs that add modes, downgrades, closes and leases that end
\* (OpenFile, DowngradeOpen, CloseFile, onLeaseExpired).
THEOREM SharesAlwaysRespected == OpenSpec => []SharesRespected
<1>1. OpenInv => SharesRespected
  BY DEF OpenInv
<1>2. QED
  BY <1>1, OpenStateInvariant, PTL

\* Once a reply is cached it is the one a repetition gets, in the record the
\* owner table leads to and in the only one a closed stateid leads to
\* (CacheOpenOwnerResult, CacheLockOwnerResult).
THEOREM CachedRepliesCurrent == OpenSpec => []RepliesCurrent
<1>1. OpenInv => RepliesCurrent
  BY OpenInvImplies
<1>2. QED
  BY <1>1, OpenStateInvariant, PTL

\* The indexes of the opens agree and no byte-range lock outlives the lock
\* state, lock-owner and open that can release it (ReleaseLockOwner,
\* freeLockStateidLocked, CloseFile, onLeaseExpired).
THEOREM OpenTablesAgree == OpenSpec => [](OpenTypeOK /\ OpenIndexesAgree /\ LocksAnchored)
<1>1. OpenInv => OpenTypeOK /\ OpenIndexesAgree /\ LocksAnchored
  BY OpenInvImplies
<1>2. QED
  BY <1>1, OpenStateInvariant, PTL
=============================================================================
