----------------------------- MODULE Delegations ----------------------------
(***************************************************************************)
(* NFSv4.0 file delegations (v4/state/delegation.go, manager.go,           *)
(* nfs_break_handler.go, handlers/open.go) and their twins in the lock     *)
(* manager (pkg/metadata/lock/manager.go), through which SMB breaks them.  *)
(*                                                                         *)
(* An OPEN is four critical sections of sm.mu: the conflict check, which   *)
(* recalls what is in the way, OpenFile, the decision to delegate and the  *)
(* grant.  A recall is sent by a goroutine of its own that arms a timer;   *)
(* the timer's callback revokes.  The lock manager's copy is removed after *)
(* sm.mu is released.  A client has one OPEN outstanding, and a workload   *)
(* names the clients that take part in it.  Share modes and seqids are in  *)
(* OpenState.                                                              *)
(***************************************************************************)
EXTENDS Naturals, FiniteSets, Workload

CONSTANTS Holders,         \* the NFSv4.0 clients
          DelegFiles,
          MaxDelegs,       \* bound on the delegation stateids generated
          MaxDelegations   \* sm.maxDelegations

VARIABLES known, cbPathUp,   \* clients with a record; those that can be called back
          opened,            \* <<client, file>>: open state
          handler,           \* each client's OPEN
          deleg, nextDeleg,  \* the DelegationStates, and the next one
          delegByOther, delegByFile,
          revoked, revokedDelegCount,
          recallSent, recalling,     \* RecallSent; the sendRecall goroutines
          recallTimer, expiring,     \* armed timers; callbacks that have started
          recentlyRecalled,
          lmDelegs, lmBreaking,      \* the lock manager's copies
          delegStateidMap,           \* those it can be told by
          lmRecall, lmRemove         \* calls on their way to and from it

openingVars == <<known, cbPathUp, opened, handler>>
tableVars == <<delegByOther, delegByFile, revoked, revokedDelegCount, recentlyRecalled>>
recallVars == <<recallSent, recalling, recallTimer, expiring>>
lmVars == <<lmDelegs, lmBreaking, delegStateidMap, lmRecall, lmRemove>>
delegVars == <<openingVars, deleg, nextDeleg, tableVars, recallVars, lmVars>>

Delegs == 1..MaxDelegs
Kinds == {"read", "write"}
Accesses == {a \in Kinds : Does(a)}
Idle == [at |-> "idle"]
Undefined == [client |-> "none", file |-> "none", kind |-> "none"]

ASSUME DelegConstants == MaxDelegs \in Nat /\ MaxDelegations \in Nat

DelegInit ==
  /\ known = Holders /\ cbPathUp = Holders
  /\ opened = {}
  /\ handler = [c \in Holders |-> Idle]
  /\ deleg = [d \in Delegs |-> Undefined] /\ nextDeleg = 1
  /\ delegByOther = {} /\ delegByFile = [f \in DelegFiles |-> {}]
  /\ revoked = {} /\ revokedDelegCount = [c \in Holders |-> 0]
  /\ recallSent = {} /\ recalling = {} /\ recallTimer = {} /\ expiring = {}
  /\ recentlyRecalled = {}
  /\ lmDelegs = {} /\ lmBreaking = {} /\ delegStateidMap = {}
  /\ lmRecall = {} /\ lmRemove = {}

-----------------------------------------------------------------------------
(* OPEN.                                                                   *)

\* The delegations of others that an open with this access has to wait for.
Conflicting(c, f, access) ==
  {d \in delegByFile[f] :
     /\ deleg[d].client # c /\ d \notin revoked
     /\ "write" \in {deleg[d].kind, access}}

\* CheckDelegationConflict: NFS4ERR_DELAY while there are any, and a recall for
\* each the first time.
CheckDelegationConflict(c, f, access) ==
  LET conflict == Conflicting(c, f, access) IN
  /\ Does(c) /\ handler[c] = Idle /\ c \in known
  /\ recallSent' = recallSent \cup conflict
  /\ recalling' = recalling \cup {<<d, "open">> : d \in conflict \ recallSent}
  /\ handler' = IF conflict # {} THEN handler
                ELSE [handler EXCEPT ![c] = [at |-> "checked", file |-> f, access |-> access]]
  /\ UNCHANGED <<known, cbPathUp, opened, deleg, nextDeleg, tableVars, recallTimer, expiring, lmVars>>

OpenTheFile(c) ==
  /\ handler[c].at = "checked"
  /\ opened' = opened \cup {<<c, handler[c].file>>}
  /\ handler' = [handler EXCEPT ![c].at = "opened"]
  /\ UNCHANGED <<known, cbPathUp, deleg, nextDeleg, tableVars, recallVars, lmVars>>

\* Mutant: opens of other clients do not matter.
GrantableAlways(c, f) ==
  /\ c \in known /\ c \in cbPathUp /\ f \notin recentlyRecalled
  /\ delegByFile[f] \subseteq revoked

\* ShouldGrantDelegation.
Grantable(c, f) ==
  /\ c \in known /\ c \in cbPathUp /\ f \notin recentlyRecalled
  /\ ~\E o \in opened : o[1] # c /\ o[2] = f
  /\ delegByFile[f] \subseteq revoked

ShouldGrantDelegation(c) ==
  /\ handler[c].at = "opened"
  /\ handler' = IF Grantable(c, handler[c].file)
                THEN [handler EXCEPT ![c].at = "granting"]
                ELSE [handler EXCEPT ![c] = Idle]
  /\ UNCHANGED <<known, cbPathUp, opened, deleg, nextDeleg, tableVars, recallVars, lmVars>>

\* GrantDelegation; the lock manager refuses its copy when it has a
\* conflicting lease, and the delegation goes ahead without.
GrantDelegation(c) ==
  LET h == handler[c]
      d == nextDeleg
  IN
  /\ h.at = "granting"
  /\ handler' = [handler EXCEPT ![c] = Idle]
  /\ UNCHANGED <<known, cbPathUp, opened, revoked, revokedDelegCount, recentlyRecalled,
                 recallVars, lmBreaking, lmRecall, lmRemove>>
  /\ IF Cardinality(delegByOther \ revoked) >= MaxDelegations \/ d \notin Delegs
     THEN UNCHANGED <<deleg, nextDeleg, delegByOther, delegByFile, lmDelegs, delegStateidMap>>
     ELSE
       /\ deleg' = [deleg EXCEPT ![d] = [client |-> c, file |-> h.file, kind |-> h.access]]
       /\ nextDeleg' = d + 1
       /\ delegByOther' = delegByOther \cup {d}
       /\ delegByFile' = [delegByFile EXCEPT ![h.file] = @ \cup {d}]
       /\ \/ /\ lmDelegs' = lmDelegs \cup {d}
             /\ delegStateidMap' = delegStateidMap \cup {d}
          \/ Does("lease") /\ UNCHANGED <<lmDelegs, delegStateidMap>>

Close(c, f) ==
  /\ <<c, f>> \in opened /\ handler[c] = Idle
  /\ opened' = opened \ {<<c, f>>}
  /\ UNCHANGED <<known, cbPathUp, handler, deleg, nextDeleg, tableVars, recallVars, lmVars>>

-----------------------------------------------------------------------------
(* Recall and revocation.                                                  *)

\* Mutant: a recall that could not be sent arms no timer.
TimerArmed(d, delivered) == IF delivered THEN recallTimer \cup {d} ELSE recallTimer

\* Every outcome of sendRecall arms the timer, for the lease time when the
\* call went through and briefly otherwise.
TimerStarted(d, delivered) == recallTimer \cup {d}

\* sendRecallV40: without a client record, or without an answer, the callback
\* path counts as down.
SendRecall(d, src) ==
  LET c == deleg[d].client IN
  /\ <<d, src>> \in recalling
  /\ recalling' = recalling \ {<<d, src>>}
  /\ \E delivered \in BOOLEAN :
       /\ delivered => c \in known
       /\ recallTimer' = TimerStarted(d, delivered)
       /\ cbPathUp' = IF delivered \/ c \notin known THEN cbPathUp ELSE cbPathUp \ {c}
  /\ UNCHANGED <<known, opened, handler, deleg, nextDeleg, tableVars, recallSent, expiring, lmVars>>

\* The timer fires; Stop no longer helps.
RecallTimerFires(d) ==
  /\ d \in recallTimer
  /\ recallTimer' = recallTimer \ {d}
  /\ expiring' = expiring \cup {d}
  /\ UNCHANGED <<openingVars, deleg, nextDeleg, tableVars, recallSent, recalling, lmVars>>

\* The counter of a revoked delegation that leaves the table.
Uncounted(d) ==
  IF d \in revoked THEN [revokedDelegCount EXCEPT ![deleg[d].client] = @ - 1]
  ELSE revokedDelegCount

\* Mutant: a delegation that was returned is revoked all the same.
RevocableAlways(d) == d \notin revoked

Revocable(d) == d \in delegByOther /\ d \notin revoked

\* RevokeDelegation, from the timer's callback.
RevokeDelegation(d) ==
  /\ d \in expiring
  /\ expiring' = expiring \ {d}
  /\ IF ~Revocable(d)
     THEN UNCHANGED <<tableVars, lmVars>>
     ELSE
       /\ revoked' = revoked \cup {d}
       /\ revokedDelegCount' = [revokedDelegCount EXCEPT ![deleg[d].client] = @ + 1]
       /\ delegByFile' = [delegByFile EXCEPT ![deleg[d].file] = @ \ {d}]
       /\ recentlyRecalled' = recentlyRecalled \cup {deleg[d].file}
       /\ delegStateidMap' = delegStateidMap \ {d}
       /\ lmRemove' = IF d \in delegStateidMap THEN lmRemove \cup {d} ELSE lmRemove
       /\ UNCHANGED <<delegByOther, lmDelegs, lmBreaking, lmRecall>>
  /\ UNCHANGED <<openingVars, deleg, nextDeleg, recallSent, recalling, recallTimer>>

\* ReturnDelegation; a copy of a DELEGRETURN finds nothing and succeeds.
ReturnDelegation(d) ==
  /\ d \in delegByOther
  /\ recallTimer' = recallTimer \ {d}
  /\ delegByOther' = delegByOther \ {d}
  /\ revokedDelegCount' = Uncounted(d)
  /\ revoked' = revoked \ {d}
  /\ delegByFile' = [delegByFile EXCEPT ![deleg[d].file] = @ \ {d}]
  /\ delegStateidMap' = delegStateidMap \ {d}
  /\ lmRemove' = IF d \in delegStateidMap THEN lmRemove \cup {d} ELSE lmRemove
  /\ UNCHANGED <<openingVars, deleg, nextDeleg, recentlyRecalled, recallSent, recalling,
                 expiring, lmDelegs, lmBreaking, lmRecall>>

\* The recently-recalled entry of a file gets older than its TTL.
RecalledLongAgo(f) ==
  /\ f \in recentlyRecalled
  /\ recentlyRecalled' = recentlyRecalled \ {f}
  /\ UNCHANGED <<openingVars, deleg, nextDeleg, delegByOther, delegByFile, revoked,
                 revokedDelegCount, recallVars, lmVars>>

\* The delegations of a client that goes away (onLeaseExpired, EvictV40Client).
DropClient(c, timers) ==
  LET mine == {d \in delegByOther : deleg[d].client = c} IN
  /\ c \in known
  /\ known' = known \ {c}
  /\ cbPathUp' = cbPathUp \ {c}
  /\ opened' = {o \in opened : o[1] # c}
  /\ delegByOther' = delegByOther \ mine
  /\ revoked' = revoked \ mine
  /\ revokedDelegCount' = [revokedDelegCount EXCEPT ![c] = 0]
  /\ delegByFile' = [f \in DelegFiles |-> delegByFile[f] \ mine]
  /\ recallTimer' = recallTimer \ (IF timers THEN mine ELSE {})
  /\ UNCHANGED <<handler, deleg, nextDeleg, recentlyRecalled, recallSent, recalling,
                 expiring, lmVars>>

LeaseExpires(c) == Does("expire") /\ DropClient(c, FALSE)
Evict(c) == Does("expire") /\ DropClient(c, TRUE)

-----------------------------------------------------------------------------
(* The lock manager's side.                                                *)

\* breakDelegations, for an SMB open or write.
SmbBreak(f, access) ==
  LET broken == {d \in lmDelegs \ lmBreaking :
                   deleg[d].file = f /\ "write" \in {deleg[d].kind, access}} IN
  /\ Does("smb") /\ broken # {}
  /\ lmBreaking' = lmBreaking \cup broken
  /\ lmRecall' = lmRecall \cup broken
  /\ UNCHANGED <<openingVars, deleg, nextDeleg, tableVars, recallVars, lmDelegs,
                 delegStateidMap, lmRemove>>

\* NFSBreakHandler.OnDelegationRecall.
OnDelegationRecall(d) ==
  /\ d \in lmRecall
  /\ lmRecall' = lmRecall \ {d}
  /\ IF d \in delegStateidMap /\ d \in delegByOther
     THEN /\ recallSent' = recallSent \cup {d}
          /\ recalling' = recalling \cup {<<d, "lm">>}
     ELSE UNCHANGED <<recallSent, recalling>>
  /\ UNCHANGED <<openingVars, deleg, nextDeleg, tableVars, recallTimer, expiring,
                 lmDelegs, lmBreaking, delegStateidMap, lmRemove>>

\* ReturnDelegation and RevokeDelegation of the lock manager; both wake the
\* opens that wait for the break.
LmRemoveDelegation(d) ==
  /\ d \in lmRemove
  /\ lmRemove' = lmRemove \ {d}
  /\ lmDelegs' = lmDelegs \ {d}
  /\ lmBreaking' = lmBreaking \ {d}
  /\ UNCHANGED <<openingVars, deleg, nextDeleg, tableVars, recallVars, delegStateidMap, lmRecall>>

-----------------------------------------------------------------------------

ServerSteps(d) ==
  \/ \E src \in {"open", "lm"} : SendRecall(d, src)
  \/ RecallTimerFires(d)
  \/ RevokeDelegation(d)
  \/ OnDelegationRecall(d)
  \/ LmRemoveDelegation(d)

DelegNext ==
  \/ \E c \in Holders :
       \/ \E f \in DelegFiles :
            \/ Close(c, f)
            \/ \E access \in Accesses : CheckDelegationConflict(c, f, access)
       \/ OpenTheFile(c)
       \/ ShouldGrantDelegation(c)
       \/ GrantDelegation(c)
       \/ LeaseExpires(c)
       \/ Evict(c)
  \/ \E d \in Delegs : ServerSteps(d) \/ ReturnDelegation(d)
  \/ \E f \in DelegFiles : RecalledLongAgo(f) \/ \E access \in Accesses : SmbBreak(f, access)

DelegSpec ==
  DelegInit /\ work \in Workloads /\ [][DelegNext /\ UNCHANGED work]_<<delegVars, work>>

\* Goroutines run, timers fire and calls return.
DelegFairness == \A d \in Delegs : WF_delegVars(ServerSteps(d))

-----------------------------------------------------------------------------
(* Properties.                                                             *)

\* The delegation tables are well formed.
DelegTypeOK ==
  /\ known \subseteq Holders /\ cbPathUp \subseteq Holders
  /\ nextDeleg \in 1..(MaxDelegs + 1)
  /\ delegByOther \subseteq 1..(nextDeleg - 1)
  /\ revokedDelegCount \in [Holders -> 0..MaxDelegs]
  /\ recallTimer \cup expiring \cup lmRecall \cup lmRemove \subseteq Delegs

\* "The index can never drift" (delegation.go): whatever order a recall, a
\* late return, a revocation and the end of a client come in, the per-file
\* index lists the delegations that are in force, and the counter that turns
\* on SEQ4_STATUS_RECALLABLE_STATE_REVOKED counts the revoked ones.
DelegIndexesAgree ==
  /\ \A f \in DelegFiles : delegByFile[f] = {d \in delegByOther \ revoked : deleg[d].file = f}
  /\ revoked \subseteq delegByOther
  /\ \A c \in Holders : revokedDelegCount[c] = Cardinality({d \in revoked : deleg[d].client = c})

\* Two clients never have delegations of one file, although deciding on one
\* and granting it are two critical sections: an open is recorded before the
\* decision, so of two concurrent OPENs one sees the other
\* (ShouldGrantDelegation, GrantDelegation).
OneGrantee ==
  \A f \in DelegFiles, d, e \in Delegs :
    /\ {d, e} \subseteq delegByFile[f]
    /\ {deleg[d].client, deleg[e].client} \subseteq known
    => deleg[d].client = deleg[e].client

\* The lock manager knows of no delegation that the state manager has given
\* up, but for removals on their way: "Used for cleanup when the NFS delegation
\* is returned or revoked" (delegation.go, LockManagerDelegID).
LmBacked == \A d \in lmDelegs : d \in delegByOther \ revoked \/ d \in lmRemove

\* It holds for every return and revocation, as long as no client goes away
\* with its delegations.
LmFollows == Does("expire") \/ LmBacked

\* A recall comes to an end: the delegation an OPEN was answered NFS4ERR_DELAY
\* for, or that SMB broke, is returned or revoked, whether the callback got
\* through or not (sendRecall, RevokeDelegation).
RecallEnds == \A d \in Delegs : d \in recallSent ~> d \notin delegByOther \ revoked

\* An SMB open that waits for a delegation to be broken is woken: the lock
\* manager's copy goes away (OnDelegationRecall, RevokeDelegation).
BreakEnds == \A d \in Delegs : d \in lmBreaking ~> d \notin lmDelegs
=============================================================================
