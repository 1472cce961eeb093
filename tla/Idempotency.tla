---------------------------- MODULE Idempotency -----------------------------
(***************************************************************************)
(* The Idempotency-Key plugin of the API: requests of one tenant to one    *)
(* route with one client key, that is one Redis cell.  preHandler claims   *)
(* the cell with SET NX, replays what is cached in it or answers 409;      *)
(* onSend stores a 2xx response in it and deletes it on any other status.  *)
(***************************************************************************)
EXTENDS Naturals, FiniteSets

CONSTANTS
  Requests,   \* attempts of the clients with the same key
  Permitted,  \* requests whose JWT role satisfies minRole
  Free,       \* the key does not exist in Redis
  Pending,    \* the sentinel __pending__
  MaxFaults   \* bound: crashes and Redis errors

ASSUME RequestsAssumption ==
  /\ IsFiniteSet(Requests) /\ Permitted \subseteq Requests
  /\ Free # Pending /\ {Free, Pending} \cap Requests = {}
ASSUME BoundsAssumption == MaxFaults \in Nat

VARIABLES
  cell,     \* Free, Pending, or the request whose response is cached
  pc,       \* where the request is in the plugin and its route
  status,   \* class of the status code of the request's reply
  source,   \* whose response the reply carries
  effects,  \* requests whose handler has committed, in this TTL window
  faults,
  mishaps,  \* history: 409 answers to a duplicate and faults, in this TTL window
  carried   \* history: requests whose handler has ever committed

historyVars == <<mishaps, carried>>
vars == <<cell, pc, status, source, effects, faults, historyVars>>

(* "resend" is a reply that goes through onSend again after onSend threw. *)
Sending == {"send", "resend"}
InFlight == {"lookup", "handler"} \cup Sending

Goto(r, to) == pc' = [pc EXCEPT ![r] = to]

Reply(r, code) == status' = [status EXCEPT ![r] = code]

-----------------------------------------------------------------------------
(* preHandler *)

(* roleSatisfies.  Definitions named D_<what went wrong> are mutants of D. *)
MayUse_AnyRole(r) == TRUE
MayUse(r) == r \in Permitted

(* 403 before Redis is touched; onSend has no key to work on. *)
Deny(r) ==
  /\ pc[r] = "new" /\ ~MayUse(r)
  /\ Goto(r, "answered") /\ Reply(r, "403")
  /\ UNCHANGED <<cell, source, effects, faults, historyVars>>

(* A claim without NX overwrites the sentinel of another request. *)
Claim_WithoutNX(r) ==
  /\ pc[r] = "new" /\ MayUse(r)
  /\ IF cell \in {Free, Pending}
     THEN cell' = Pending /\ Goto(r, "handler")
     ELSE Goto(r, "lookup") /\ UNCHANGED cell
  /\ UNCHANGED <<status, source, effects, faults, historyVars>>

(* SET key __pending__ EX ttl NX *)
Claim(r) ==
  /\ pc[r] = "new" /\ MayUse(r)
  /\ IF cell = Free
     THEN cell' = Pending /\ Goto(r, "handler")
     ELSE Goto(r, "lookup") /\ UNCHANGED cell
  /\ UNCHANGED <<status, source, effects, faults, historyVars>>

(* GET: a cached response is replayed, and onSend is told to leave it. *)
Replay(r) ==
  /\ pc[r] = "lookup" /\ cell \in Requests
  /\ Goto(r, "answered") /\ Reply(r, "2xx")
  /\ source' = [source EXCEPT ![r] = cell]
  /\ UNCHANGED <<cell, effects, faults, historyVars>>

(* The sentinel, or a key that is gone by now.  The 409 goes through       *)
(* onSend with the request's cache key still set.                          *)
Conflict(r) ==
  /\ pc[r] = "lookup" /\ cell \notin Requests
  /\ Goto(r, "send") /\ Reply(r, "4xx")
  /\ mishaps' = mishaps + 1
  /\ UNCHANGED <<cell, source, effects, faults, carried>>

-----------------------------------------------------------------------------
(* The route's handler commits its mutation, or answers 4xx or 5xx. *)
HandlerCommits(r) ==
  /\ pc[r] = "handler"
  /\ effects' = effects \cup {r} /\ carried' = carried \cup {r}
  /\ source' = [source EXCEPT ![r] = r]
  /\ Goto(r, "send") /\ Reply(r, "2xx")
  /\ UNCHANGED <<cell, faults, mishaps>>

HandlerRejects(r) ==
  /\ pc[r] = "handler"
  /\ \E code \in {"4xx", "5xx"} : Reply(r, code)
  /\ Goto(r, "send")
  /\ UNCHANGED <<cell, source, effects, faults, historyVars>>

(* onSend; the mutant caches errors, too. *)
OnSend_CacheAll(r) ==
  /\ pc[r] \in Sending
  /\ cell' = r
  /\ Goto(r, "answered")
  /\ UNCHANGED <<status, source, effects, faults, historyVars>>

(* SET of a 2xx response, DEL on any other status. *)
Stored(r) == IF status[r] = "2xx" THEN r ELSE Free

OnSend(r) ==
  /\ pc[r] \in Sending
  /\ cell' = Stored(r)
  /\ Goto(r, "answered")
  /\ UNCHANGED <<status, source, effects, faults, historyVars>>

-----------------------------------------------------------------------------
Fault == faults < MaxFaults /\ faults' = faults + 1 /\ mishaps' = mishaps + 1

(* The API process dies under the request. *)
Crash(r) ==
  /\ pc[r] \in InFlight
  /\ Fault
  /\ Goto(r, "answered") /\ Reply(r, "lost")
  /\ UNCHANGED <<cell, source, effects, carried>>

(* The SET or the GET of preHandler throws, the SET with or without having *)
(* been carried out: the 500 goes through onSend with the key set.         *)
PreHandlerFails(r) ==
  /\ pc[r] = "lookup" \/ (pc[r] = "new" /\ MayUse(r))
  /\ Fault
  /\ UNCHANGED cell \/ (pc[r] = "new" /\ cell = Free /\ cell' = Pending)
  /\ Goto(r, "send") /\ Reply(r, "5xx")
  /\ UNCHANGED <<source, effects, carried>>

(* The SET or the DEL of onSend throws, carried out or not.  Fastify turns *)
(* this into a 500 and sends that through onSend, which now deletes the    *)
(* key, also that of a mutation just carried out.  If onSend throws again  *)
(* and again, Fastify writes the 500 without it in the end.                *)
OnSendFails(r) ==
  /\ pc[r] \in Sending
  /\ Fault
  /\ cell' \in {cell, Stored(r)}
  /\ Reply(r, "5xx")
  /\ Goto(r, "resend") \/ (pc[r] = "resend" /\ Goto(r, "answered"))
  /\ UNCHANGED <<source, effects, carried>>

(* The TTL of 24 hours outlasts every request: a new window begins. *)
Expire ==
  /\ cell # Free
  /\ \A r \in Requests : pc[r] \notin InFlight
  /\ cell' = Free /\ effects' = {} /\ mishaps' = 0
  /\ UNCHANGED <<pc, status, source, faults, carried>>

Init ==
  /\ cell = Free
  /\ pc = [r \in Requests |-> "new"]
  /\ status = [r \in Requests |-> "none"]
  /\ source = [r \in Requests |-> Free]
  /\ effects = {} /\ faults = 0
  /\ mishaps = 0 /\ carried = {}

Next ==
  \/ \E r \in Requests :
       \/ Deny(r) \/ Claim(r) \/ Replay(r) \/ Conflict(r)
       \/ HandlerCommits(r) \/ HandlerRejects(r) \/ OnSend(r)
       \/ Crash(r) \/ PreHandlerFails(r) \/ OnSendFails(r)
  \/ Expire

Spec == Init /\ [][Next]_vars

-----------------------------------------------------------------------------
TypeOK ==
  /\ cell \in Requests \cup {Free, Pending}
  /\ pc \in [Requests -> InFlight \cup {"new", "answered"}]
  /\ status \in [Requests -> {"none", "2xx", "403", "4xx", "5xx", "lost"}]
  /\ source \in [Requests -> Requests \cup {Free}]
  /\ effects \subseteq Requests /\ carried \subseteq Requests
  /\ faults \in Nat /\ mishaps \in Nat

(* Retries with the same key, overlapping ones included, carry out the     *)
(* mutation once; to have it carried out once more takes a 409, whose      *)
(* onSend deletes the key of the request in flight, a Redis error, after   *)
(* which a 500 deletes the key of a mutation already carried out, or the   *)
(* death of a process - one of them for each further time.                 *)
RepeatsNeedMishaps == Cardinality(effects) <= 1 + mishaps

(* Only the response of a mutation that was carried out in this window is  *)
(* ever cached, so a failure is never replayed.                            *)
OnlySuccessCached == cell \in Requests => cell \in effects

(* A 2xx reply is the reply of a request whose mutation was carried out,   *)
(* whether it is its own or replayed from the cache, and neither goes to a *)
(* caller whose role is insufficient.                                      *)
RepliesAreEarned ==
  \A r \in Requests : status[r] = "2xx" => r \in Permitted /\ source[r] \in carried

=============================================================================
