------------------------------- MODULE Leases -------------------------------
(***************************************************************************)
(* SMB2 lease caching on one file: pkg/metadata/lock/leases.go, the break  *)
(* half of manager.go and oplock.go.                                       *)
(*                                                                         *)
(* Clients open the file under a lease key and are granted a caching state *)
(* (Read, Write, Handle).  An open, a write, a delete or a byte-range lock *)
(* of somebody else breaks the lease; the holder answers with an ACK, or   *)
(* closes, or is forced to None when a waiter CREATE times out.           *)
(*                                                                         *)
(* lm.mu makes every step below atomic.  It is released around the         *)
(* notification (dispatchOpLockBreak), so RequestLease is two steps when   *)
(* it dispatches; what the second half reads may have changed.  The second *)
(* half of AcknowledgeLeaseBreak and the wait channel only wake parked     *)
(* CREATEs, which is left out: a CREATE is here the deadline it brings.    *)
(*                                                                         *)
(* Lease epochs are left out: the handlers acknowledge with epoch 0, which *)
(* turns the staleness test off.  Directory leases are left out as well.   *)
(***************************************************************************)
EXTENDS Naturals, Sequences, FiniteSets, Workload

CONSTANTS
    LeaseKeys,  \* lease keys; the ones of a run take part when its work names them
    TradKeys,   \* the synthetic keys of traditional oplocks
    Openers     \* goroutines in RequestLease

ASSUME LeaseConstants == TradKeys \subseteq LeaseKeys

VARIABLES
    leases,     \* lm.unifiedLocks of the file: a sequence of lease records
    opening     \* what each opener will ask for once its dispatch returns

leaseVars == <<leases, opening>>

ActiveKeys == {k \in LeaseKeys : Does(k)}

(***************************************************************************)
(* Caching states: sets of the bits R, W, H.  W and H need R.              *)
(***************************************************************************)
CachingBits == {"R", "W", "H"}
LeaseStates == {s \in SUBSET CachingBits : s = {} \/ "R" \in s}

(***************************************************************************)
(* A record.  breakTo is the target of the notification in flight,         *)
(* required the cumulative one of everybody who broke the lease meanwhile. *)
(* asked is history: what those operations, taken together, leave the      *)
(* holder.                                                                 *)
(***************************************************************************)
OpLock ==
    [key : LeaseKeys, state : LeaseStates, breaking : BOOLEAN,
     breakTo : LeaseStates, required : LeaseStates, timedOut : BOOLEAN,
     asked : LeaseStates]

NewLease(k, s) ==
    [key |-> k, state |-> s, breaking |-> FALSE, breakTo |-> {},
     required |-> {}, timedOut |-> FALSE, asked |-> s]

NotOpening == [key |-> "none", want |-> {}]

Records(s) == {s[i] : i \in DOMAIN s}
OtherLeases(ls, k) == {l \in Records(ls) : l.key # k}
FirstOf(S) == CHOOSE i \in S : \A j \in S : i <= j
LeaseAt(k) == {i \in DOMAIN leases : leases[i].key = k}

(* What a holder will be left with: the view every conflict test takes. *)
EffectiveState(l) == IF l.breaking THEN l.required ELSE l.state

OpLocksConflict(l, k, s) ==
    LET e == EffectiveState(l)
    IN  /\ l.key # k
        /\ \/ "W" \in e /\ s \cap {"R", "W"} # {}
           \/ "W" \in s /\ e \cap {"R", "W"} # {}

(***************************************************************************)
(* bestGrantableState: the first of the downgrades of the request that no  *)
(* other key's lease conflicts with.                                       *)
(***************************************************************************)
downgradeCandidates(s) == <<s, s \ {"W"}, s \ {"H"}, {"R"}>>

Stripped(ls, k) ==
    LET trad == k \in TradKeys
        active == \E l \in OtherLeases(ls, k) : ~l.timedOut
    IN  (IF active THEN {"W"} ELSE {})
          \cup (IF active /\ trad THEN {"H"} ELSE {})
          \cup (IF ~trad /\ (\E l \in OtherLeases(ls, k) : l.key \in TradKeys) THEN {"H"} ELSE {})

(* Mutant: the request is granted as it is. *)
grantRequested(ls, k, s) == s

bestGrantableState(ls, k, s) ==
    LET strip == Stripped(ls, k)
        cs == downgradeCandidates(s)
        fit == {i \in DOMAIN cs :
                  \A l \in OtherLeases(ls, k) : ~OpLocksConflict(l, k, cs[i] \ strip)}
    IN  IF \/ k \in TradKeys /\ (\E l \in OtherLeases(ls, k) : "H" \in EffectiveState(l))
           \/ fit = {}
        THEN {} ELSE cs[FirstOf(fit)] \ strip

WithGrant(ls, k, s) ==
    LET g == bestGrantableState(ls, k, s)
    IN  IF g = {} THEN ls ELSE Append(ls, NewLease(k, g))

-----------------------------------------------------------------------------
(***************************************************************************)
(* RequestLease, same key: a record that is not breaking is upgraded to a  *)
(* strict superset nobody else's lease conflicts with.  Every other        *)
(* same-key request changes nothing.                                       *)
(***************************************************************************)
Upgrade(k, s) ==
    /\ Does("upgrade")
    /\ LeaseAt(k) # {}
    /\ LET i == FirstOf(LeaseAt(k))
       IN  /\ ~leases[i].breaking
           /\ leases[i].state # s /\ leases[i].state \subseteq s
           /\ \A l \in OtherLeases(leases, k) : ~OpLocksConflict(l, k, s)
           /\ leases' = [leases EXCEPT ![i] = [leases[i] EXCEPT !.state = s, !.asked = s]]
    /\ UNCHANGED <<opening, work>>

Conflicts(k, s) == {i \in DOMAIN leases : OpLocksConflict(leases[i], k, s)}

(* A further demand on a lease that is breaking. *)
Tighten(l, target) == [l EXCEPT !.required = @ \cap target, !.asked = @ \cap target]

(* The open-conflict break RequestLease itself computes: strip Write. *)
StripW(l) == EffectiveState(l) \ {"W"}

(* The first conflicting lease has something to give up. *)
MustBreak(k, s) ==
    \E i \in Conflicts(k, s) :
        /\ \A j \in Conflicts(k, s) : i <= j
        /\ StripW(leases[i]) # EffectiveState(leases[i])

(***************************************************************************)
(* RequestLease, new key.  The first conflicting lease is marked Breaking  *)
(* and the opener leaves the mutex to send the notification ...            *)
(***************************************************************************)
RequestBreaks(t, k, s) ==
    /\ opening[t] = NotOpening
    /\ LeaseAt(k) = {}
    /\ MustBreak(k, s)
    /\ LET i == FirstOf(Conflicts(k, s))
           l == leases[i]
       IN  /\ ~l.breaking
           /\ leases' = [leases EXCEPT ![i] =
                [l EXCEPT !.breaking = TRUE, !.breakTo = StripW(l),
                          !.required = StripW(l), !.asked = StripW(l)]]
    /\ opening' = [opening EXCEPT ![t] = [key |-> k, want |-> s]]
    /\ UNCHANGED work

(* ... and grants what is possible once it is back. *)
RequestGrants(t) ==
    /\ opening[t] # NotOpening
    /\ leases' = WithGrant(leases, opening[t].key, opening[t].want)
    /\ opening' = [opening EXCEPT ![t] = NotOpening]
    /\ UNCHANGED work

(***************************************************************************)
(* RequestLease, new key, without leaving the mutex: nobody conflicts, the *)
(* requester is a stat open that may not break anybody, or the first       *)
(* conflicting lease has no Write to give up.  A conflicting lease that is *)
(* already breaking only has its cumulative target tightened.              *)
(***************************************************************************)
RequestAtOnce(t, k, s) ==
    /\ opening[t] = NotOpening
    /\ LeaseAt(k) = {}
    /\ MustBreak(k, s) => Does("stat")
    /\ leases' = WithGrant(leases, k, s)
    /\ UNCHANGED <<opening, work>>

RequestMerges(t, k, s) ==
    /\ opening[t] = NotOpening
    /\ LeaseAt(k) = {}
    /\ MustBreak(k, s)
    /\ LET i == FirstOf(Conflicts(k, s))
           l == leases[i]
           merged == [leases EXCEPT ![i] = Tighten(l, StripW(l))]
       IN  /\ l.breaking
           /\ leases' = WithGrant(merged, k, s)
    /\ UNCHANGED <<opening, work>>

-----------------------------------------------------------------------------
(***************************************************************************)
(* One stage of a break: a holder of more than Read must acknowledge, a    *)
(* holder of Read alone is not asked and loses it at once.                 *)
(***************************************************************************)
applyBreakStage(l, target) ==
    IF l.state # {"R"}
    THEN [l EXCEPT !.breaking = TRUE, !.breakTo = target]
    ELSE [l EXCEPT !.breaking = FALSE, !.breakTo = {}, !.state = target,
                   !.required = target]

(* The operations that break leases, which leases, and to what. *)
BreakKinds == {"write", "read", "open", "sharing"}

shouldBreak(kind, l) ==
    CASE kind = "write"   -> l.state # {}
      [] kind = "sharing" -> "H" \in l.state
      [] OTHER            -> "W" \in l.state

computeFreshTarget(kind, s) ==
    CASE kind = "read"    -> {"R"}
      [] kind = "open"    -> s \ {"W"}
      [] kind = "sharing" -> s \ {"H"}
      [] OTHER            -> {}

BreakTarget(kind, l) ==
    computeFreshTarget(kind, l.state) \ (IF l.key \in TradKeys THEN {"W", "H"} ELSE {})

(* Mutant: the latest operation's target replaces the cumulative one. *)
BreakLeaseAnew(kind, l) ==
    LET target == BreakTarget(kind, l)
    IN  IF l.breaking
        THEN [l EXCEPT !.required = target, !.asked = @ \cap target]
        ELSE applyBreakStage([l EXCEPT !.required = target, !.asked = target], target)

BreakLease(kind, l) ==
    LET target == BreakTarget(kind, l)
    IN  IF l.breaking
        THEN Tighten(l, target)
        ELSE applyBreakStage([l EXCEPT !.required = target, !.asked = target], target)

mirrorBreakStage(l, c) ==
    [l EXCEPT !.breaking = c.breaking, !.breakTo = c.breakTo, !.required = c.required,
              !.state = c.state, !.asked = c.asked]

(***************************************************************************)
(* breakOpLocks on behalf of key k: the first matching record of each      *)
(* other key is broken, further records of that key mirror it.             *)
(***************************************************************************)
BreakOpLocks(kind, k) ==
    LET hit == {i \in DOMAIN leases : leases[i].key # k /\ shouldBreak(kind, leases[i])}
        canonical(i) == FirstOf({j \in hit : leases[j].key = leases[i].key})
    IN  /\ hit # {}
        /\ leases' = [i \in DOMAIN leases |->
             IF i \notin hit THEN leases[i]
             ELSE IF canonical(i) = i THEN BreakLease(kind, leases[i])
             ELSE mirrorBreakStage(leases[i], BreakLease(kind, leases[canonical(i)]))]
        /\ UNCHANGED <<opening, work>>

-----------------------------------------------------------------------------
(***************************************************************************)
(* AcknowledgeLeaseBreak.  The acknowledged state must be within the       *)
(* target of the stage in flight.  If somebody demanded more meanwhile,    *)
(* the next stage is sent.                                                 *)
(***************************************************************************)
nextProgressiveBreakTarget(acked, required) ==
    required \cup (IF acked \cap {"W", "H"} # {} THEN {"R"} ELSE {})

Settle(l, s) ==
    [l EXCEPT !.state = s, !.breaking = FALSE, !.breakTo = {}, !.required = s]

(* clearBreakingSiblings: the record answers for every record of its key. *)
Acknowledged(i, s) ==
    [j \in DOMAIN leases |->
       IF j = i \/ (leases[j].key = leases[i].key /\ leases[j].breaking)
       THEN Settle(leases[j], s) ELSE leases[j]]

(* Mutant: the first acknowledgement ends the break. *)
AckCompletesEarly(k, s) ==
    /\ LeaseAt(k) # {}
    /\ LET i == FirstOf(LeaseAt(k))
       IN  /\ leases[i].breaking
           /\ s \subseteq leases[i].breakTo
           /\ leases' = Acknowledged(i, s)
    /\ UNCHANGED <<opening, work>>

AckCompletes(k, s) ==
    /\ LeaseAt(k) # {}
    /\ LET i == FirstOf(LeaseAt(k))
       IN  /\ leases[i].breaking
           /\ s \subseteq leases[i].breakTo
           /\ s \subseteq leases[i].required
           /\ leases' = Acknowledged(i, s)
    /\ UNCHANGED <<opening, work>>

AckAdvances(k, s) ==
    /\ LeaseAt(k) # {}
    /\ LET i == FirstOf(LeaseAt(k))
           l == leases[i]
           target == nextProgressiveBreakTarget(s, l.required)
       IN  /\ l.breaking
           /\ s \subseteq l.breakTo
           /\ ~(s \subseteq l.required)
           /\ leases' = [leases EXCEPT ![i] =
                applyBreakStage([l EXCEPT !.state = s, !.breaking = FALSE, !.breakTo = {}], target)]
    /\ UNCHANGED <<opening, work>>

-----------------------------------------------------------------------------
(* ReleaseLeaseForHandle at CLOSE, ReleaseLease when the session ends: the  *)
(* other records move up, at[n] being where the n-th of them was.           *)
ReleaseLease(k) ==
    /\ LeaseAt(k) # {}
    /\ \E n \in 0..Len(leases) : \E at \in [1..n -> DOMAIN leases \ LeaseAt(k)] :
         /\ \A i \in DOMAIN leases \ LeaseAt(k) : \E j \in 1..n : at[j] = i
         /\ \A i, j \in 1..n : i < j => at[i] < at[j]
         /\ leases' = [j \in 1..n |-> leases[at[j]]]
    /\ UNCHANGED <<opening, work>>

(* WaitForBreakCompletion, whose deadline passes: forceCompleteBreaks.  The *)
(* records stay behind as tombstones until their handles are closed.        *)
forceCompleteBreaks ==
    /\ \E l \in Records(leases) : l.breaking
    /\ leases' = [i \in DOMAIN leases |->
         IF leases[i].breaking
         THEN [Settle(leases[i], {}) EXCEPT !.timedOut = TRUE] ELSE leases[i]]
    /\ UNCHANGED <<opening, work>>

-----------------------------------------------------------------------------
(***************************************************************************)
(* FromPersistedLock: every critical section persists the records it       *)
(* changed, so a restart finds them all.  A target of 0 is taken for a     *)
(* record written before the field existed.                                *)
(***************************************************************************)
FromPersistedLock(l) ==
    [l EXCEPT !.timedOut = FALSE,
              !.required = IF @ # {} THEN @ ELSE IF l.breaking THEN l.breakTo ELSE l.state]

LeaseRestart ==
    /\ Does("restart")
    /\ leases # <<>>
    /\ leases' = [i \in DOMAIN leases |-> FromPersistedLock(leases[i])]
    /\ opening' = [t \in Openers |-> NotOpening]
    /\ UNCHANGED work

-----------------------------------------------------------------------------
LeaseInit ==
    /\ work \in Workloads
    /\ leases = <<>>
    /\ opening = [t \in Openers |-> NotOpening]

LeaseNext ==
    \/ \E k \in ActiveKeys :
         \/ \E s \in LeaseStates \ {{}} :
              \/ Upgrade(k, s)
              \/ \E t \in Openers :
                   RequestBreaks(t, k, s) \/ RequestAtOnce(t, k, s) \/ RequestMerges(t, k, s)
         \/ \E s \in LeaseStates : AckCompletes(k, s) \/ AckAdvances(k, s)
         \/ \E kind \in BreakKinds : Does(kind) /\ BreakOpLocks(kind, k)
         \/ ReleaseLease(k)
    \/ \E t \in Openers : RequestGrants(t)
    \/ forceCompleteBreaks
    \/ LeaseRestart

LeaseSpec == LeaseInit /\ [][LeaseNext]_<<leaseVars, work>>

-----------------------------------------------------------------------------
\* Type invariant.
LeaseTypeOK ==
    /\ \A i \in DOMAIN leases : leases[i] \in OpLock
    /\ \A t \in Openers : opening[t] = NotOpening
                          \/ (opening[t].key \in LeaseKeys /\ opening[t].want \in LeaseStates)

(* Write caching is exclusive: what two lease keys hold, or will be left   *)
(* with once the break in flight is over, never conflicts, although         *)
(* RequestLease grants without waiting for the acknowledgement and after    *)
(* having left the mutex.                                                   *)
Compatible ==
    \A l, m \in Records(leases) : ~OpLocksConflict(l, m.key, EffectiveState(m))

(* Every notification asks the holder to give something up, and never for  *)
(* more than the operations that broke the lease demand.                   *)
StagesNarrow ==
    \A l \in Records(leases) :
        l.breaking => /\ l.breakTo \subseteq l.state /\ l.breakTo # l.state
                      /\ l.required \subseteq l.breakTo

(* A lease that comes out of a break keeps at most what every operation    *)
(* that broke it meanwhile leaves it, however many stages that takes.      *)
AskedHonoured ==
    \A i \in DOMAIN leases :
        (~leases[i].breaking /\ LeaseAt(leases[i].key) = {i}) =>
            leases[i].state \subseteq leases[i].asked
=============================================================================
