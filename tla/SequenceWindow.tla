--------------------------- MODULE SequenceWindow ---------------------------
(***************************************************************************)
(* The credits of one SMB2 connection: the CommandSequenceWindow           *)
(* (internal/adapter/smb/session/sequence_window.go), the requests and     *)
(* compounds that consume message ids from it (internal/adapter/smb/       *)
(* response.go, compound.go), the responses that grant new ones, and the   *)
(* client that numbers its requests and spends the credits it was told of. *)
(*                                                                         *)
(* The bitmap is the set of message ids whose bit is set and the number of *)
(* ids its words cover.  Each Consume and each Grant is one critical       *)
(* section; the goroutines of different requests interleave between them.  *)
(***************************************************************************)
EXTENDS Integers, Sequences, FiniteSets, FiniteSetsExt, Workload

CONSTANTS WordBits,     \* message ids per bitmap word: 64
          IdSpace,      \* message ids are 0 .. IdSpace-1: 2^64
          MaxCredits,   \* maxSize: MaxSessionCredits
          MaxCharge,    \* largest CreditCharge of a request
          MaxAsyncCredits,  \* one more than the async operations a connection may have
          MaxGrant,     \* largest grant of the credit strategy
          MaxHigh       \* bound on the ids granted

ASSUME WindowConstants ==
    /\ WordBits \in Nat \ {0} /\ IdSpace \in Nat /\ MaxCredits \in Nat \ {0}
    /\ MaxCharge \in Nat \ {0} /\ MaxGrant \in Nat \ {0} /\ MaxAsyncCredits \in Nat
    /\ MaxHigh \in Nat /\ 2 <= MaxHigh /\ MaxHigh + MaxCharge <= IdSpace

VARIABLES low, high,    \* the window's bounds
          bits,         \* ids whose bit is set
          covered,      \* ids the bitmap covers, from low: WordBits * len(bitmap)
          available,    \* the server's view of the client's credits
          nextId,       \* the client's next message id
          credits,      \* the client's credits
          requests,     \* requests sent and not yet answered
          flying,       \* credits in responses on the wire
          consumed      \* ids that a request was accepted for

windowVars == <<low, high, bits, covered, available, consumed>>
creditVars == <<nextId, credits, requests, flying>>
sequenceVars == <<windowVars, creditVars>>

\* Type invariant.
WindowTypeOK ==
    /\ low \in Nat /\ high \in Nat /\ low <= high /\ high <= MaxHigh
    /\ bits \subseteq 0 .. high - 1 /\ consumed \subseteq 0 .. high - 1
    /\ covered \in Nat
    /\ available \in 0 .. MaxCredits
    /\ nextId \in Nat /\ credits \in Nat /\ flying \in Nat

\* NewCommandSequenceWindow: ids 0 and 1 are set, since a client starts with either.
WindowInit ==
    /\ low = 0 /\ high = 2 /\ bits = {0, 1} /\ covered = WordBits
    /\ available = 1 /\ consumed = {}
    /\ nextId \in {0, 1} /\ credits = 1 /\ requests = {} /\ flying = 0

-----------------------------------------------------------------------------
(* The window *)

\* uint64 addition.
Plus64(a, b) == IF a + b >= IdSpace THEN a + b - IdSpace ELSE a + b

\* EffectiveCreditCharge.
Effective(charge) == IF charge = 0 THEN 1 ELSE charge

Ids(id, charge) == {Plus64(id, i) : i \in 0 .. charge - 1}

\* Mutant: the bits are not looked at.
ConsumableUnset(id, charge) ==
    low <= id /\ Plus64(id, charge) <= high /\ \A i \in Ids(id, charge) : i < low + covered

\* The checks of Consume; an id at or beyond the bitmap's end has no word.
Consumable(id, charge) ==
    /\ low <= id /\ Plus64(id, charge) <= high
    /\ \A i \in Ids(id, charge) : /\ low <= i /\ i < low + covered
                                  /\ i \in bits

\* advanceLow: the base after dropping every leading word with no bit set that lies
\* wholly below high, when the bits of B are set.
Advanced(B) ==
    LET bases == {l \in low .. high : /\ (l - low) % WordBits = 0 /\ l <= low + covered
                                      /\ \A b \in B : b < low \/ l <= b}
    IN CHOOSE l \in bases : \A m \in bases : m <= l

\* Consume when the checks pass.
Take(id, charge) ==
    LET left == bits \ Ids(id, charge)
        base == Advanced(left)
    IN /\ bits' = left
       /\ consumed' = consumed \cup Ids(id, charge)
       /\ available' = IF charge > available THEN 0 ELSE available - charge
       /\ low' = base /\ covered' = covered - (base - low)
       /\ UNCHANGED high

\* Grant's result for a wish.
Granted(wish) ==
    IF available + wish <= MaxCredits THEN wish
    ELSE IF available >= MaxCredits THEN 0 ELSE MaxCredits - available

\* The bitmap is extended by whole words up to the new high.
Grown(newHigh) ==
    LET words == (newHigh - low + WordBits - 1) \div WordBits
    IN IF covered < words * WordBits THEN words * WordBits ELSE covered

\* Grant.
Extend(wish) ==
    /\ high' = high + Granted(wish) /\ high' <= MaxHigh
    /\ covered' = Grown(high')
    /\ bits' = bits \cup (high .. high' - 1)
    /\ available' = available + Granted(wish)
    /\ UNCHANGED <<low, consumed>>

-----------------------------------------------------------------------------
(* The client *)

\* The message ids of commands that start at an id, and the credits they cost.
Charged(charges, n) == FoldSet(LAMBDA i, sum : sum + Effective(charges[i]), 0, 1 .. n)

\* A request or a compound of two, within the credits the client has.
ClientSend(charges) ==
    LET cost == Charged(charges, Len(charges)) IN
    /\ cost <= credits /\ nextId + cost <= IdSpace
    /\ credits' = credits - cost
    /\ nextId' = nextId + cost
    /\ requests' = requests \cup
           {[charges |-> charges,
             ids |-> [i \in DOMAIN charges |-> nextId + Charged(charges, i - 1)],
             taken |-> 0, answered |-> 0, granted |-> 0, course |-> "sync"]}
    /\ UNCHANGED <<windowVars, flying>>

\* A response reaches the client.
ClientReceive(n) ==
    /\ flying' = flying - n
    /\ credits' = credits + n
    /\ UNCHANGED <<windowVars, nextId, requests>>

\* The write of a response fails: its credits are never told.
ReplyLost(n) ==
    /\ Does("lose")
    /\ flying' = flying - n
    /\ UNCHANGED <<windowVars, nextId, credits, requests>>

-----------------------------------------------------------------------------
(* The server *)

Becomes(r, s) == requests' = (requests \ {r}) \cup {s}

Commands(r) == Len(r.charges)

\* ProcessRequest and ProcessCompoundRequest consume the ids of every command, in
\* order, before any is run; one that fails refuses the whole compound.
ConsumeNext(r) ==
    LET i == r.taken + 1
        charge == Effective(r.charges[i])
    IN /\ r.course = "sync" /\ r.taken < Commands(r)
       /\ \/ /\ Consumable(r.ids[i], charge)
             /\ Take(r.ids[i], charge)
             /\ Becomes(r, [r EXCEPT !.taken = i])
          \/ /\ ~ Consumable(r.ids[i], charge)
             /\ Becomes(r, [r EXCEPT !.course = "refused"])
             /\ UNCHANGED windowVars
       /\ UNCHANGED <<nextId, credits, flying>>

Ready(r) == r.taken = Commands(r) \/ r.course = "refused"

\* grantConnectionCredits: the strategy's grant (one at the least), not less than the
\* charge, as far as the window allows.
Wish(strategy, charge) == IF strategy < charge THEN charge ELSE strategy

\* buildResponseHeaderAndBody of the next command.  An operation that went async on
\* its own is completed by SendAsyncCompletionResponse, which asks for one credit.
Answer(r, strategy) ==
    LET charge == r.charges[r.answered + 1]
        wish == IF r.course = "interim" /\ Commands(r) = 1 THEN 1 ELSE Wish(strategy, charge)
    IN /\ Ready(r) /\ r.answered < Commands(r)
       /\ Extend(wish)
       /\ Becomes(r, [r EXCEPT !.answered = @ + 1, !.granted = @ + Granted(wish)])
       /\ UNCHANGED <<nextId, credits, flying>>

\* asyncPendingCount: released just before the final response is built.
AsyncPending == {r \in requests : r.course = "interim" /\ r.answered = 0}

\* The first command reserves an async slot: its interim STATUS_PENDING response grants
\* at once.
Interim(r, strategy) ==
    /\ Does("async")
    /\ r.course = "sync" /\ r.taken = Commands(r) /\ r.answered = 0
    /\ Cardinality(AsyncPending) < MaxAsyncCredits - 1
    /\ Extend(Wish(strategy, r.charges[1]))
    /\ flying' = flying + Granted(Wish(strategy, r.charges[1]))
    /\ Becomes(r, [r EXCEPT !.course = "interim"])
    /\ UNCHANGED <<nextId, credits>>

\* Mutant: the grants of a compound are dropped.
MovedZeroed(r) == IF Commands(r) > 1 THEN 0 ELSE r.granted

\* applyCompoundCreditZeroing moves all grants to the last response.
Moved(r) == r.granted

Reply(r) ==
    /\ Ready(r) /\ r.answered = Commands(r)
    /\ flying' = flying + Moved(r)
    /\ requests' = requests \ {r}
    /\ UNCHANGED <<windowVars, nextId, credits>>

\* A request with a message id the client was not granted or used before; it is
\* answered like any other, but by no means run when refused.
Stray(id, charge) ==
    /\ Does("stray")
    /\ Consumable(id, Effective(charge))
    /\ Take(id, Effective(charge))
    /\ UNCHANGED creditVars

Compounds == {<<a>> : a \in 0 .. MaxCharge}
                 \cup {c \in {<<1, a>> : a \in 0 .. MaxCharge} : Does("compound")}

WindowNext ==
    \/ \E charges \in Compounds : ClientSend(charges)
    \/ \E n \in 1 .. flying : ClientReceive(n) \/ ReplyLost(n)
    \/ \E r \in requests : ConsumeNext(r) \/ Reply(r)
    \/ \E r \in requests, strategy \in 1 .. MaxGrant : Answer(r, strategy) \/ Interim(r, strategy)
    \/ \E id \in 0 .. IdSpace - 1, charge \in 0 .. MaxCharge : Stray(id, charge)

WindowSpec ==
    WindowInit /\ work \in Workloads /\ [][WindowNext /\ UNCHANGED work]_<<sequenceVars, work>>

-----------------------------------------------------------------------------
(* Properties *)

\* A message id is accepted at most once: no id that a request was accepted for can be
\* consumed again, whatever words advanceLow dropped, however the window grew since, and
\* for ids near the end of the id space, where messageId+charge wraps
\* (sequence_window.go Consume, Grant, advanceLow).
AtMostOnce ==
    \A id \in 0 .. IdSpace - 1, charge \in 1 .. MaxCharge :
        Consumable(id, charge) => Ids(id, charge) \cap consumed = {}

\* A client that numbers its requests in order and stays within its credits is never
\* refused, whichever of 0 and 1 it starts with (sequence_window.go:36-52).
HonestAccepted == Does("stray") \/ \A r \in requests : r.course # "refused"

\* The server never believes the client has fewer credits than it was told of, nor more
\* than the limit: concurrent responses cannot overflow the client's counter
\* (response.go grantConnectionCredits, sequence_window.go Grant).
CreditsBounded ==
    /\ available <= MaxCredits
    /\ ~ Does("stray") =>
          credits + flying + FoldSet(LAMBDA r, sum : sum + r.granted, 0, requests) <= available

\* A client with nothing outstanding has a credit left to send the next request with
\* ("the client eventually deadlocks with zero credits", compound.go:112-119).
NeverStarved ==
    requests = {} /\ flying = 0 /\ ~ Does("lose") /\ ~ Does("stray") => credits >= 1

\* The account of a client that follows the rules is kept: it is never refused, never
\* told of more credits than the server will honour, and never left without one.
CreditsKept == HonestAccepted /\ CreditsBounded /\ NeverStarved
=============================================================================
