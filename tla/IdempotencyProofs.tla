------------------------- MODULE IdempotencyProofs --------------------------
(***************************************************************************)
(* Proofs about the Idempotency-Key plugin for any set of requests.  The   *)
(* inductive invariant has one part per property.                          *)
(***************************************************************************)
EXTENDS Idempotency, FiniteSetTheorems, TLAPS

(* What OnlySuccessCached rests on: a 2xx waiting for onSend was earned by *)
(* a commit in this window.                                                *)
CacheInv ==
  /\ OnlySuccessCached
  /\ effects \subseteq carried
  /\ \A r \in Requests :
       pc[r] \in Sending /\ status[r] = "2xx" => r \in effects /\ source[r] = r

(* What RepliesAreEarned rests on: only permitted requests pass the guard. *)
RoleInv ==
  /\ RepliesAreEarned
  /\ \A r \in Requests : pc[r] \in InFlight => r \in Permitted

(* What RepeatsNeedMishaps rests on: the key can be claimed by whoever     *)
(* finds it free, and it gets free when a request that has no success to   *)
(* store passes onSend.  A mutation is carried out, under way or still to  *)
(* be begun on a free key at most once more than there were mishaps.       *)
Running == {r \in Requests : pc[r] = "handler"}
Freeing == {r \in Requests : pc[r] \in Sending /\ status[r] # "2xx"}
Open == IF cell = Free THEN 1 ELSE 0

ClaimInv ==
  Cardinality(effects) + Cardinality(Running) + Cardinality(Freeing) + Open <= 1 + mishaps

IInv == TypeOK /\ CacheInv /\ RoleInv /\ ClaimInv

(* The sets of requests that are counted are finite. *)
LEMMA Counts ==
  ASSUME NEW S \in SUBSET Requests
  PROVE  IsFiniteSet(S) /\ Cardinality(S) \in Nat
  BY RequestsAssumption, FS_Subset, FS_CardinalityType

(* A request that joins or leaves a set counts for one at most. *)
LEMMA OneRequest ==
  ASSUME NEW S \in SUBSET Requests, NEW r \in Requests
  PROVE  /\ Cardinality(S \cup {r}) <= Cardinality(S) + 1
         /\ Cardinality(S \ {r}) <= Cardinality(S)
         /\ r \in S => Cardinality(S \ {r}) = Cardinality(S) - 1
<1>1. IsFiniteSet(S) /\ Cardinality(S) \in Nat
  BY Counts
<1>2. CASE r \in S
  <2>1. Cardinality(S \cup {r}) = Cardinality(S)
    <3>1. S \cup {r} = S
      BY <1>2
    <3> QED BY <3>1
  <2>2. Cardinality(S \ {r}) = Cardinality(S) - 1
    BY <1>1, <1>2, FS_RemoveElement
  <2>3. /\ Cardinality(S \cup {r}) <= Cardinality(S) + 1
        /\ Cardinality(S \ {r}) <= Cardinality(S)
    BY <1>1, <2>1, <2>2
  <2> QED BY <2>2, <2>3
<1>3. CASE r \notin S
  <2>1. Cardinality(S \ {r}) = Cardinality(S)
    <3>1. S \ {r} = S
      BY <1>3
    <3> QED BY <3>1
  <2>2. Cardinality(S \cup {r}) = Cardinality(S) + 1
    BY <1>1, <1>3, FS_AddElement
  <2> QED BY <1>1, <1>3, <2>1, <2>2
<1> QED BY <1>2, <1>3

(* Every initial state satisfies the inductive invariant. *)
LEMMA InitIInv == Init => IInv
<1> SUFFICES ASSUME Init PROVE IInv
  OBVIOUS
<1>1. TypeOK
  BY DEF Init, TypeOK, InFlight
<1>2. CacheInv
  BY RequestsAssumption DEF Init, CacheInv, OnlySuccessCached, Sending
<1>3. RoleInv
  BY RequestsAssumption DEF Init, RoleInv, RepliesAreEarned, InFlight, Sending
<1>4. ClaimInv
  <2>1. effects = {} /\ Running = {} /\ Freeing = {} /\ Open = 1 /\ mishaps = 0
    BY DEF Init, Running, Freeing, Open, Sending
  <2> QED BY <2>1, FS_EmptySet DEF ClaimInv
<1> QED BY <1>1, <1>2, <1>3, <1>4 DEF IInv

(* Refused requests touch nothing. *)
LEMMA DenyIInv == ASSUME IInv, NEW r \in Requests, Deny(r) PROVE IInv'
<1> USE RequestsAssumption, BoundsAssumption DEF IInv, Deny, Goto, Reply, historyVars
<1>1. TypeOK'
  BY DEF TypeOK, InFlight, Sending
<1>2. CacheInv'
  BY DEF TypeOK, CacheInv, OnlySuccessCached, InFlight, Sending
<1>3. RoleInv'
  BY DEF TypeOK, CacheInv, OnlySuccessCached, RoleInv, RepliesAreEarned, InFlight, Sending
<1>4. ClaimInv'
  <2>1. Running' = Running /\ Freeing' = Freeing /\ Open' = Open
    BY DEF TypeOK, Running, Freeing, Open, Sending
  <2> QED BY <2>1 DEF ClaimInv
<1> QED BY <1>1, <1>2, <1>3, <1>4

(* A claim uses up the free key. *)
LEMMA ClaimIInv == ASSUME IInv, NEW r \in Requests, Claim(r) PROVE IInv'
<1> USE RequestsAssumption, BoundsAssumption DEF IInv, Claim, Goto, Reply, historyVars, MayUse
<1>1. TypeOK'
  BY DEF TypeOK, InFlight, Sending
<1>2. CacheInv'
  BY DEF TypeOK, CacheInv, OnlySuccessCached, InFlight, Sending
<1>3. RoleInv'
  BY DEF TypeOK, CacheInv, OnlySuccessCached, RoleInv, RepliesAreEarned, InFlight, Sending
<1>4. ClaimInv'
  <2>1. /\ Cardinality(Running) \in Nat /\ Cardinality(Freeing) \in Nat /\ Cardinality(effects) \in Nat
        /\ Open \in 0..1 /\ mishaps \in Nat
    BY Counts DEF TypeOK, Running, Freeing, Open
  <2>2. CASE cell = Free
    <3>1. Running' = Running \cup {r} /\ Freeing' = Freeing /\ Open = 1 /\ Open' = 0
      BY <2>2 DEF TypeOK, Running, Freeing, Open, Sending
    <3>2. Cardinality(Running \cup {r}) <= Cardinality(Running) + 1
      BY OneRequest DEF Running
    <3>3. Cardinality(Running') \in Nat
      BY <3>1, Counts DEF Running
    <3> QED BY <2>1, <3>1, <3>2, <3>3 DEF ClaimInv
  <2>3. CASE cell # Free
    <3>1. Running' = Running /\ Freeing' = Freeing /\ Open' = Open
      BY <2>3 DEF TypeOK, Running, Freeing, Open, Sending
    <3> QED BY <3>1 DEF ClaimInv
  <2> QED BY <2>2, <2>3
<1> QED BY <1>1, <1>2, <1>3, <1>4

(* A replay leaves the key and everybody else alone. *)
LEMMA ReplayIInv == ASSUME IInv, NEW r \in Requests, Replay(r) PROVE IInv'
<1> USE RequestsAssumption, BoundsAssumption DEF IInv, Replay, Goto, Reply, historyVars
<1>1. TypeOK'
  BY DEF TypeOK, InFlight, Sending
<1>2. CacheInv'
  BY DEF TypeOK, CacheInv, OnlySuccessCached, InFlight, Sending
<1>3. RoleInv'
  BY DEF TypeOK, CacheInv, OnlySuccessCached, RoleInv, RepliesAreEarned, InFlight, Sending
<1>4. ClaimInv'
  <2>1. Running' = Running /\ Freeing' = Freeing /\ Open' = Open
    BY DEF TypeOK, Running, Freeing, Open, Sending
  <2> QED BY <2>1 DEF ClaimInv
<1> QED BY <1>1, <1>2, <1>3, <1>4

(* A 409 is a mishap: its onSend will free the key. *)
LEMMA ConflictIInv == ASSUME IInv, NEW r \in Requests, Conflict(r) PROVE IInv'
<1> USE RequestsAssumption, BoundsAssumption DEF IInv, Conflict, Goto, Reply, historyVars
<1>1. TypeOK'
  BY DEF TypeOK, InFlight, Sending
<1>2. CacheInv'
  BY DEF TypeOK, CacheInv, OnlySuccessCached, InFlight, Sending
<1>3. RoleInv'
  BY DEF TypeOK, CacheInv, OnlySuccessCached, RoleInv, RepliesAreEarned, InFlight, Sending
<1>4. ClaimInv'
  <2>1. /\ Cardinality(Running) \in Nat /\ Cardinality(Freeing) \in Nat /\ Cardinality(effects) \in Nat
        /\ Open \in 0..1 /\ mishaps \in Nat
    BY Counts DEF TypeOK, Running, Freeing, Open
  <2>2. Running' = Running /\ Freeing' = Freeing \cup {r} /\ Open' = Open /\ mishaps' = mishaps + 1
    BY DEF TypeOK, Running, Freeing, Open, Sending
  <2>3. Cardinality(Freeing \cup {r}) <= Cardinality(Freeing) + 1
    BY OneRequest DEF Freeing
  <2>4. Cardinality(Freeing') \in Nat
    BY Counts DEF Freeing
  <2> QED BY <2>1, <2>2, <2>3, <2>4 DEF ClaimInv
<1> QED BY <1>1, <1>2, <1>3, <1>4

(* A commit turns a running mutation into one carried out. *)
LEMMA HandlerCommitsIInv == ASSUME IInv, NEW r \in Requests, HandlerCommits(r) PROVE IInv'
<1> USE RequestsAssumption, BoundsAssumption DEF IInv, HandlerCommits, Goto, Reply, historyVars
<1>1. TypeOK'
  BY DEF TypeOK, InFlight, Sending
<1>2. CacheInv'
  BY DEF TypeOK, CacheInv, OnlySuccessCached, InFlight, Sending
<1>3. RoleInv'
  BY DEF TypeOK, CacheInv, OnlySuccessCached, RoleInv, RepliesAreEarned, InFlight, Sending
<1>4. ClaimInv'
  <2>1. /\ Cardinality(Running) \in Nat /\ Cardinality(Freeing) \in Nat /\ Cardinality(effects) \in Nat
        /\ Open \in 0..1 /\ mishaps \in Nat
    BY Counts DEF TypeOK, Running, Freeing, Open
  <2>2. /\ Running' = Running \ {r} /\ r \in Running /\ Freeing' = Freeing /\ Open' = Open
        /\ effects' = effects \cup {r} /\ mishaps' = mishaps
    BY DEF TypeOK, Running, Freeing, Open, Sending
  <2>3. Cardinality(Running \ {r}) = Cardinality(Running) - 1
    BY <2>2, OneRequest DEF Running
  <2>4. Cardinality(effects \cup {r}) <= Cardinality(effects) + 1
    BY OneRequest DEF TypeOK
  <2>5. Cardinality(effects') \in Nat
    BY <2>2, Counts DEF TypeOK
  <2> QED BY <2>1, <2>2, <2>3, <2>4, <2>5 DEF ClaimInv
<1> QED BY <1>1, <1>2, <1>3, <1>4

(* A rejection leaves its request to free the key. *)
LEMMA HandlerRejectsIInv == ASSUME IInv, NEW r \in Requests, HandlerRejects(r) PROVE IInv'
<1> USE RequestsAssumption, BoundsAssumption DEF IInv, HandlerRejects, Goto, Reply, historyVars
<1>1. TypeOK'
  BY DEF TypeOK, InFlight, Sending
<1>2. CacheInv'
  BY DEF TypeOK, CacheInv, OnlySuccessCached, InFlight, Sending
<1>3. RoleInv'
  BY DEF TypeOK, CacheInv, OnlySuccessCached, RoleInv, RepliesAreEarned, InFlight, Sending
<1>4. ClaimInv'
  <2>1. /\ Cardinality(Running) \in Nat /\ Cardinality(Freeing) \in Nat /\ Cardinality(effects) \in Nat
        /\ Open \in 0..1 /\ mishaps \in Nat
    BY Counts DEF TypeOK, Running, Freeing, Open
  <2>2. /\ Running' = Running \ {r} /\ r \in Running /\ Freeing' = Freeing \cup {r} /\ Open' = Open
        /\ UNCHANGED <<effects, mishaps>>
    BY DEF TypeOK, Running, Freeing, Open, Sending
  <2>3. Cardinality(Running \ {r}) = Cardinality(Running) - 1
    BY <2>2, OneRequest DEF Running
  <2>4. Cardinality(Freeing \cup {r}) <= Cardinality(Freeing) + 1
    BY OneRequest DEF Freeing
  <2>5. Cardinality(Freeing') \in Nat
    BY Counts DEF Freeing
  <2> QED BY <2>1, <2>2, <2>3, <2>4, <2>5 DEF ClaimInv
<1> QED BY <1>1, <1>2, <1>3, <1>4

(* onSend stores a success, or frees the key once. *)
LEMMA OnSendIInv == ASSUME IInv, NEW r \in Requests, OnSend(r) PROVE IInv'
<1> USE RequestsAssumption, BoundsAssumption DEF IInv, OnSend, Goto, Reply, historyVars, Stored
<1>1. TypeOK'
  BY DEF TypeOK, InFlight, Sending
<1>2. CacheInv'
  BY DEF TypeOK, CacheInv, OnlySuccessCached, InFlight, Sending
<1>3. RoleInv'
  BY DEF TypeOK, CacheInv, OnlySuccessCached, RoleInv, RepliesAreEarned, InFlight, Sending
<1>4. ClaimInv'
  <2>1. /\ Cardinality(Running) \in Nat /\ Cardinality(Freeing) \in Nat /\ Cardinality(effects) \in Nat
        /\ Open \in 0..1 /\ mishaps \in Nat
    BY Counts DEF TypeOK, Running, Freeing, Open
  <2>2. Running' = Running /\ UNCHANGED <<effects, mishaps>>
    BY DEF TypeOK, Running, Sending
  <2>3. CASE status[r] = "2xx"
    <3>1. Freeing' = Freeing /\ Open' = 0
      BY <2>3 DEF TypeOK, Freeing, Open, Sending
    <3> QED BY <2>1, <2>2, <3>1 DEF ClaimInv
  <2>4. CASE status[r] # "2xx"
    <3>1. r \in Freeing /\ Freeing' = Freeing \ {r} /\ Open' = 1
      BY <2>4 DEF TypeOK, Freeing, Open, Sending
    <3>2. Cardinality(Freeing \ {r}) = Cardinality(Freeing) - 1
      BY <3>1, OneRequest DEF Freeing
    <3> QED BY <2>1, <2>2, <3>1, <3>2 DEF ClaimInv
  <2> QED BY <2>3, <2>4
<1> QED BY <1>1, <1>2, <1>3, <1>4

(* A process that dies takes its request out of the count. *)
LEMMA CrashIInv == ASSUME IInv, NEW r \in Requests, Crash(r) PROVE IInv'
<1> USE RequestsAssumption, BoundsAssumption DEF IInv, Crash, Goto, Reply, historyVars, Fault
<1>1. TypeOK'
  BY DEF TypeOK, InFlight, Sending
<1>2. CacheInv'
  BY DEF TypeOK, CacheInv, OnlySuccessCached, InFlight, Sending
<1>3. RoleInv'
  BY DEF TypeOK, CacheInv, OnlySuccessCached, RoleInv, RepliesAreEarned, InFlight, Sending
<1>4. ClaimInv'
  <2>1. /\ Cardinality(Running) \in Nat /\ Cardinality(Freeing) \in Nat /\ Cardinality(effects) \in Nat
        /\ Open \in 0..1 /\ mishaps \in Nat
    BY Counts DEF TypeOK, Running, Freeing, Open
  <2>2. /\ Running' = Running \ {r} /\ Freeing' = Freeing \ {r} /\ Open' = Open
        /\ mishaps' = mishaps + 1 /\ UNCHANGED effects
    BY DEF TypeOK, Running, Freeing, Open, Sending, InFlight
  <2>3. /\ Cardinality(Running \ {r}) <= Cardinality(Running)
        /\ Cardinality(Freeing \ {r}) <= Cardinality(Freeing)
    BY OneRequest DEF Running, Freeing
  <2>4. Cardinality(Running') \in Nat /\ Cardinality(Freeing') \in Nat
    BY Counts DEF Running, Freeing
  <2> QED BY <2>1, <2>2, <2>3, <2>4 DEF ClaimInv
<1> QED BY <1>1, <1>2, <1>3, <1>4

(* A Redis error in preHandler is a mishap, like a 409. *)
LEMMA PreHandlerFailsIInv == ASSUME IInv, NEW r \in Requests, PreHandlerFails(r) PROVE IInv'
<1> USE RequestsAssumption, BoundsAssumption DEF IInv, PreHandlerFails, Goto, Reply, historyVars, Fault, MayUse
<1>1. TypeOK'
  BY DEF TypeOK, InFlight, Sending
<1>2. CacheInv'
  BY DEF TypeOK, CacheInv, OnlySuccessCached, InFlight, Sending
<1>3. RoleInv'
  BY DEF TypeOK, CacheInv, OnlySuccessCached, RoleInv, RepliesAreEarned, InFlight, Sending
<1>4. ClaimInv'
  <2>1. /\ Cardinality(Running) \in Nat /\ Cardinality(Freeing) \in Nat /\ Cardinality(effects) \in Nat
        /\ Open \in 0..1 /\ mishaps \in Nat
    BY Counts DEF TypeOK, Running, Freeing, Open
  <2>2. Running' = Running /\ Freeing' = Freeing \cup {r} /\ mishaps' = mishaps + 1 /\ UNCHANGED effects
    BY DEF TypeOK, Running, Freeing, Sending
  <2>3. Open' \in 0..1 /\ Open' <= Open
    BY DEF Open
  <2>4. Cardinality(Freeing \cup {r}) <= Cardinality(Freeing) + 1
    BY OneRequest DEF Freeing
  <2>5. Cardinality(Freeing') \in Nat
    BY Counts DEF Freeing
  <2> QED BY <2>1, <2>2, <2>3, <2>4, <2>5 DEF ClaimInv
<1> QED BY <1>1, <1>2, <1>3, <1>4

(* A Redis error in onSend frees the key now, or leaves a 500 to free it   *)
(* later; it never does both without another mishap.                       *)
LEMMA OnSendFailsIInv == ASSUME IInv, NEW r \in Requests, OnSendFails(r) PROVE IInv'
<1> USE RequestsAssumption, BoundsAssumption DEF IInv, OnSendFails, Goto, Reply, historyVars, Fault, Stored
<1>1. TypeOK'
  BY DEF TypeOK, InFlight, Sending
<1>2. CacheInv'
  BY DEF TypeOK, CacheInv, OnlySuccessCached, InFlight, Sending
<1>3. RoleInv'
  BY DEF TypeOK, CacheInv, OnlySuccessCached, RoleInv, RepliesAreEarned, InFlight, Sending
<1>4. ClaimInv'
  <2>1. /\ Cardinality(Running) \in Nat /\ Cardinality(Freeing) \in Nat /\ Cardinality(effects) \in Nat
        /\ Open \in 0..1 /\ mishaps \in Nat
    BY Counts DEF TypeOK, Running, Freeing, Open
  <2>2. Running' = Running /\ mishaps' = mishaps + 1 /\ UNCHANGED effects
    BY DEF TypeOK, Running, Sending
  <2>3. CASE pc'[r] = "resend" /\ status[r] = "2xx"
    <3>1. Freeing' = Freeing \cup {r} /\ Open' \in 0..1 /\ Open' <= Open
      BY <2>3 DEF TypeOK, Freeing, Open, Sending
    <3>2. Cardinality(Freeing \cup {r}) <= Cardinality(Freeing) + 1
      BY OneRequest DEF Freeing
    <3>3. Cardinality(Freeing') \in Nat
      BY Counts DEF Freeing
    <3> QED BY <2>1, <2>2, <3>1, <3>2, <3>3 DEF ClaimInv
  <2>4. CASE pc'[r] = "resend" /\ status[r] # "2xx"
    <3>1. Freeing' = Freeing /\ Open' \in 0..1
      BY <2>4 DEF TypeOK, Freeing, Open, Sending
    <3> QED BY <2>1, <2>2, <3>1 DEF ClaimInv
  <2>5. CASE pc'[r] = "answered"
    <3>1. Freeing' = Freeing \ {r} /\ Open' \in 0..1
      BY <2>5 DEF TypeOK, Freeing, Open, Sending
    <3>2. Cardinality(Freeing \ {r}) <= Cardinality(Freeing)
      BY OneRequest DEF Freeing
    <3>3. Cardinality(Freeing') \in Nat
      BY Counts DEF Freeing
    <3> QED BY <2>1, <2>2, <3>1, <3>2, <3>3 DEF ClaimInv
  <2> QED BY <2>3, <2>4, <2>5 DEF TypeOK, Sending
<1> QED BY <1>1, <1>2, <1>3, <1>4

(* A new window begins with nobody in flight and a free key. *)
LEMMA ExpireIInv == ASSUME IInv, Expire PROVE IInv'
<1> USE RequestsAssumption, BoundsAssumption DEF IInv, Expire
<1>1. TypeOK'
  BY DEF TypeOK
<1>2. CacheInv'
  BY DEF TypeOK, CacheInv, OnlySuccessCached, InFlight, Sending
<1>3. RoleInv'
  BY DEF TypeOK, RoleInv, RepliesAreEarned, InFlight, Sending
<1>4. ClaimInv'
  <2>1. effects' = {} /\ Running' = {} /\ Freeing' = {} /\ Open' = 1 /\ mishaps' = 0
    BY DEF TypeOK, Running, Freeing, Open, InFlight, Sending
  <2> QED BY <2>1, FS_EmptySet DEF ClaimInv
<1> QED BY <1>1, <1>2, <1>3, <1>4

(* Every step preserves the inductive invariant. *)
LEMMA NextIInv == IInv /\ [Next]_vars => IInv'
<1> SUFFICES ASSUME IInv, [Next]_vars PROVE IInv'
  OBVIOUS
<1>1. CASE UNCHANGED vars
  BY <1>1 DEF vars, historyVars, IInv, TypeOK, CacheInv, OnlySuccessCached, RoleInv,
              RepliesAreEarned, ClaimInv, Running, Freeing, Open, InFlight, Sending
<1> QED
  BY <1>1, DenyIInv, ClaimIInv, ReplayIInv, ConflictIInv, HandlerCommitsIInv, HandlerRejectsIInv,
     OnSendIInv, CrashIInv, PreHandlerFailsIInv, OnSendFailsIInv, ExpireIInv
  DEF Next

(* It holds in every reachable state. *)
LEMMA Inductive == Spec => []IInv
  BY InitIInv, NextIInv, PTL DEF Spec

(* The plugin's state is well typed. *)
THEOREM TypeCorrect == Spec => []TypeOK
  BY Inductive, PTL DEF IInv

(* Only responses of carried-out mutations are cached (onSend's 2xx test). *)
THEOREM CacheIsFaithful == Spec => []OnlySuccessCached
  BY Inductive, PTL DEF IInv, CacheInv

(* A success, replayed or fresh, stands for a mutation that was carried    *)
(* out, and the replay branch honours the role guard (issue #181).         *)
THEOREM RoleGuardHolds == Spec => []RepliesAreEarned
  BY Inductive, PTL DEF IInv, RoleInv

(* SET NX makes the mutation happen at most once per TTL window, and once  *)
(* more at most for each 409 or fault of the window, for any number of     *)
(* overlapping retries.                                                    *)
THEOREM ClaimIsExclusive == Spec => []RepeatsNeedMishaps
<1>1. IInv => RepeatsNeedMishaps
  BY Counts DEF IInv, TypeOK, ClaimInv, Running, Freeing, Open, RepeatsNeedMishaps
<1> QED BY <1>1, Inductive, PTL

=============================================================================
