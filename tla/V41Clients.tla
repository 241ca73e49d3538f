----------------------------- MODULE V41Clients -----------------------------
(***************************************************************************)
(* NFSv4.1 client identities and their sessions: EXCHANGE_ID,              *)
(* CREATE_SESSION, DESTROY_CLIENTID, the session reaper and eviction       *)
(* (v4/state/v41_client.go, v4/state/manager.go), composed with the fore   *)
(* channel of every session (SlotTable).                                   *)
(*                                                                         *)
(* An owner is a co_ownerid, a verifier one of its incarnations.  A lease  *)
(* lapses at any time; only the reaper acts on it.  Every owner keeps to   *)
(* one principal, and the recovery store does not fail.                    *)
(***************************************************************************)
EXTENDS SlotTable

CONSTANTS V41Owners, Verifiers,
          MaxClientIDs,         \* bound on the client ids handed out
          MaxSessionsPerClient  \* sm.maxSessionsPerClient

VARIABLES v41ByID,      \* v41ClientsByID
          v41ByOwner,   \* v41ClientsByOwner; 0 where there is none
          nextClient,   \* nextClientSeq
          lapsed,       \* ids whose lease, or time to confirm, has run out
          sessionOf,    \* Session.ClientID; 0 for a session not yet created
          v41Recovery,  \* the durable recovery record: the owner's verifier
          told          \* history: <<id, seqid, session>> CREATE_SESSION answered

v41Vars == <<v41ByID, v41ByOwner, nextClient, lapsed, sessionOf, v41Recovery, told>>
recordVars == <<v41ByID, v41ByOwner, nextClient, lapsed, v41Recovery>>
\* What the operations on client records leave alone in the fore channels.
chanVars == <<seqID, inUse, digest, cachedReply, threadVars, wireVars, runs, effect>>

ASSUME V41Constants ==
  /\ MaxClientIDs \in Nat /\ Cardinality(Sessions) \in Nat
  /\ None \notin Sessions \cup V41Owners \cup Verifiers

ClientIDs == 1..MaxClientIDs
NewRecord(o, v) ==
  [owner |-> o, verifier |-> v, seq |-> 0, cached |-> None, confirmed |-> FALSE]
NoRecord == NewRecord(None, None)
V41Registered == {id \in ClientIDs : v41ByID[id] # NoRecord}
SessionsOf(id) == {s \in sessionsByID : sessionOf[s] = id}

V41Init ==
  /\ SlotInit /\ sessionsByID = {}
  /\ v41ByID = [id \in ClientIDs |-> NoRecord]
  /\ v41ByOwner = [o \in V41Owners |-> 0]
  /\ nextClient = 1
  /\ lapsed = {}
  /\ sessionOf = [s \in Sessions |-> 0]
  /\ v41Recovery = [o \in V41Owners |-> None]
  /\ told = {}

-----------------------------------------------------------------------------

\* purgeV41Client, for a set of ids: what is left of each table.
RecordsWithout(ids) == [id \in ClientIDs |-> IF id \in ids THEN NoRecord ELSE v41ByID[id]]
OwnersWithout(ids) == [o \in V41Owners |-> IF v41ByOwner[o] \in ids THEN 0 ELSE v41ByOwner[o]]
SessionsWithout(ids) == {s \in sessionsByID : sessionOf[s] \notin ids}
RecoveryWithout(ids) ==
  [o \in V41Owners |-> IF \E id \in ids : v41ByID[id].owner = o /\ v41ByID[id].confirmed
                       THEN None ELSE v41Recovery[o]]

Purge(ids) ==
  /\ v41ByID' = RecordsWithout(ids)
  /\ v41ByOwner' = OwnersWithout(ids)
  /\ sessionsByID' = SessionsWithout(ids)
  /\ v41Recovery' = RecoveryWithout(ids)
  /\ lapsed' = lapsed \ ids
  /\ UNCHANGED <<nextClient, sessionOf, told, chanVars>>

\* ExchangeID for an unknown owner or another verifier; a known verifier only
\* gets its record described again.
ExchangeID(o, v) ==
  LET old == {v41ByOwner[o]} \ {0} IN
  /\ \A id \in old : v41ByID[id].verifier # v
  /\ nextClient \in ClientIDs /\ (old # {} => Does("reboot"))
  /\ v41ByID' = [RecordsWithout(old) EXCEPT ![nextClient] = NewRecord(o, v)]
  /\ v41ByOwner' = [v41ByOwner EXCEPT ![o] = nextClient]
  /\ nextClient' = nextClient + 1
  /\ sessionsByID' = SessionsWithout(old)
  /\ v41Recovery' = RecoveryWithout(old)
  /\ lapsed' = lapsed \ old
  /\ UNCHANGED <<sessionOf, told, chanVars>>

\* Mutant: the reply is not kept with the bump of the sequence id.
CreateSessionUncached(id, n, s) ==
  /\ id \in V41Registered
  /\ n = v41ByID[id].seq + 1
  /\ sessionOf[s] = 0 /\ Cardinality(SessionsOf(id)) < MaxSessionsPerClient
  /\ sessionOf' = [sessionOf EXCEPT ![s] = id]
  /\ sessionsByID' = sessionsByID \cup {s}
  /\ v41ByID' = [v41ByID EXCEPT ![id].cached = s, ![id].confirmed = TRUE]
  /\ v41Recovery' = IF v41ByID[id].confirmed THEN v41Recovery
                 ELSE [v41Recovery EXCEPT ![v41ByID[id].owner] = v41ByID[id].verifier]
  /\ lapsed' = IF v41ByID[id].confirmed THEN lapsed ELSE lapsed \ {id}
  /\ told' = told \cup {<<id, n, s>>}
  /\ UNCHANGED <<v41ByOwner, nextClient, chanVars>>

\* CreateSession, for the next sequence id of the client.
CreateSession(id, n, s) ==
  /\ id \in V41Registered
  /\ n = v41ByID[id].seq + 1
  /\ sessionOf[s] = 0 /\ Cardinality(SessionsOf(id)) < MaxSessionsPerClient
  /\ sessionOf' = [sessionOf EXCEPT ![s] = id]
  /\ sessionsByID' = sessionsByID \cup {s}
  /\ v41ByID' = [v41ByID EXCEPT ![id].seq = n, ![id].cached = s, ![id].confirmed = TRUE]
  /\ v41Recovery' = IF v41ByID[id].confirmed THEN v41Recovery
                 ELSE [v41Recovery EXCEPT ![v41ByID[id].owner] = v41ByID[id].verifier]
  /\ lapsed' = IF v41ByID[id].confirmed THEN lapsed ELSE lapsed \ {id}
  /\ told' = told \cup {<<id, n, s>>}
  /\ UNCHANGED <<v41ByOwner, nextClient, chanVars>>

\* ... and for a retransmission, answered from the cached reply.
ReplayCreateSession(id, n) ==
  /\ id \in V41Registered
  /\ n = v41ByID[id].seq /\ v41ByID[id].cached # None
  /\ told' = told \cup {<<id, n, v41ByID[id].cached>>}
  /\ UNCHANGED <<sessionsByID, recordVars, sessionOf, chanVars>>

\* The client id a goroutine serves.
ClientOf(t) == sessionOf[serving[t].chan[1]]

\* SEQUENCE of a new request renews the lease, if the client is still there.
RenewV41Lease(t) ==
  /\ SeqNew(t)
  /\ lapsed' = lapsed \ {ClientOf(t)}
  /\ UNCHANGED <<v41ByID, v41ByOwner, nextClient, sessionOf, v41Recovery, told>>

\* Time passes: a lease, or the time an unconfirmed client has, runs out.
LeaseLapses(id) ==
  /\ Does("expire") /\ id \in V41Registered \ lapsed
  /\ lapsed' = lapsed \cup {id}
  /\ UNCHANGED <<v41ByID, v41ByOwner, nextClient, sessionOf, v41Recovery, told,
                 channelVars>>

ReapExpiredSessions == lapsed # {} /\ Purge(lapsed)
EvictV41Client(id) == Does("evict") /\ id \in V41Registered /\ Purge({id})
DestroyV41ClientID(id) ==
  Does("destroy") /\ id \in V41Registered /\ SessionsOf(id) = {} /\ Purge({id})

V41Next ==
  \/ ClientNext /\ UNCHANGED v41Vars
  \/ \E t \in Threads :
       ((ServeNext(t) \/ Execute(t)) /\ UNCHANGED v41Vars) \/ RenewV41Lease(t)
  \/ \E s \in Sessions, force \in BOOLEAN :
       Does(IF force THEN "evict" ELSE "destroy") /\ DestroySession(s, force) /\ UNCHANGED v41Vars
  \/ \E o \in V41Owners, v \in Verifiers : ExchangeID(o, v)
  \/ \E id \in ClientIDs, n \in 0..Cardinality(Sessions) :
       (\E s \in Sessions : CreateSession(id, n, s)) \/ ReplayCreateSession(id, n)
  \/ \E id \in ClientIDs :
       LeaseLapses(id) \/ EvictV41Client(id) \/ DestroyV41ClientID(id)
  \/ ReapExpiredSessions

V41Spec ==
  V41Init /\ work \in Workloads /\ [][V41Next /\ UNCHANGED work]_<<channelVars, v41Vars, work>>

-----------------------------------------------------------------------------

\* The client tables hold records, ids and verifiers.
V41TypeOK ==
  /\ SlotTypeOK
  /\ v41ByID \in [ClientIDs -> [owner : V41Owners \cup {None},
                                verifier : Verifiers \cup {None},
                                seq : 0..Cardinality(Sessions),
                                cached : Sessions \cup {None}, confirmed : BOOLEAN]]
  /\ v41ByOwner \in [V41Owners -> {0} \cup ClientIDs]
  /\ nextClient \in 1..(MaxClientIDs + 1)
  /\ lapsed \subseteq ClientIDs
  /\ sessionOf \in [Sessions -> {0} \cup ClientIDs]
  /\ v41Recovery \in [V41Owners -> Verifiers \cup {None}]
  /\ told \subseteq ClientIDs \X (1..Cardinality(Sessions)) \X Sessions

\* The tables agree after any mix of reboots, evictions, expiries and
\* retransmissions: a record is found under its owner, and every session the
\* server still serves belongs to a client it knows (purgeV41Client).
TablesAgree ==
  /\ \A id \in V41Registered : v41ByOwner[v41ByID[id].owner] = id
  /\ \A o \in V41Owners : v41ByOwner[o] # 0 => v41ByID[v41ByOwner[o]].owner = o
  /\ \A s \in sessionsByID : sessionOf[s] \in V41Registered

\* A CREATE_SESSION creates one session, and every copy of it is told of that
\* one: the sequence id and the cached reply change together (CreateSession).
CreateOnce ==
  \A a, b \in told : a[1] = b[1] => (a[2] = b[2] <=> a[3] = b[3])

\* The durable record of an owner names the incarnation that is confirmed now,
\* and is there exactly while one is: a purge drops it before a new incarnation
\* can confirm (persistClientRecoveryLocked, deleteClientRecoveryLocked).
RecoveryCurrent ==
  \A o \in V41Owners :
    v41Recovery[o] = IF v41ByOwner[o] # 0 /\ v41ByID[v41ByOwner[o]].confirmed
                  THEN v41ByID[v41ByOwner[o]].verifier ELSE None
=============================================================================
