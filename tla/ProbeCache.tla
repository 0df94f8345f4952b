----------------------------- MODULE ProbeCache -----------------------------
(***************************************************************************)
(* The single-flighted, short-TTL existence cache in front of HeadObject   *)
(* (src/server/probe_cache.rs), with the GET handlers that probe it, the   *)
(* PUT handlers that seed it, the HeadObject calls in flight and the       *)
(* objects in the bucket.                                                  *)
(*                                                                         *)
(* A request is one HTTP request: it makes at most one call of `present`   *)
(* (GET) or of `mark_present` (PUT) and so allocates at most one Slot.     *)
(* The model therefore names a Slot by the request that allocated it, and  *)
(* Slot.created is the time that request entered the cache.                *)
(***************************************************************************)
EXTENDS Naturals, FiniteSets

CONSTANTS
  Hashes,           \* cache keys
  Requests,         \* the requests that one server process handles
  NoRequest,        \* "no slot", "nobody": not a request
  NEGATIVE_TTL,     \* how long an absent result is trusted
  POSITIVE_TTL,     \* how long a present result is trusted
  UNRESOLVED_TTL,   \* how long an unresolved slot collects followers
  SWEEP_THRESHOLD,  \* number of slots above which an insertion sweeps first
  S3_TIMEOUT,       \* operation_timeout of one HeadObject, all attempts
  ATTEMPT_TIMEOUT,  \* operation_attempt_timeout: from S3's verdict to us
  MaxTime           \* bound on the clock

ASSUME NobodyAssumption == NoRequest \notin Requests

ASSUME TimesAssumption ==
  /\ NEGATIVE_TTL \in Nat \ {0}
  /\ POSITIVE_TTL \in Nat \ {0}
  /\ UNRESOLVED_TTL \in Nat \ {0}
  /\ S3_TIMEOUT \in Nat \ {0}
  /\ ATTEMPT_TIMEOUT \in Nat \ {0}
  /\ SWEEP_THRESHOLD \in Nat
  /\ MaxTime \in Nat

(* 5s, 60s and 60s in the code. *)
ASSUME TTLAssumption ==
  /\ NEGATIVE_TTL <= POSITIVE_TTL
  /\ UNRESOLVED_TTL <= POSITIVE_TTL

VARIABLES
  slots,     \* ProbeCache.slots: the slot stored for each hash
  present,   \* Slot.present: the OnceCell of each slot
  permit,    \* who holds the OnceCell's one semaphore permit
  pc,        \* where each request is
  hash,      \* the hash each request is about
  at,        \* the Arc<Slot> a GET holds
  entered,   \* Instant::now() when the request entered the cache
  answer,    \* what `present` returned to a GET
  began,     \* when the request's HeadObject was sent
  reply,     \* S3's verdict, still on its way back
  replied,   \* when S3 gave that verdict
  stored,    \* S3: is the object there
  now        \* the clock

(* Observers: they record history for the properties and guard nothing. *)
VARIABLES
  storedAt,  \* when the stored object was put there
  seeded,    \* marked by a PUT here and in the bucket ever since
  owed,      \* GETs that entered after such a mark
  led        \* GETs that sent a HeadObject of their own

cacheVars    == <<slots, present, permit>>
requestVars  == <<pc, hash, at, entered, answer>>
headVars     == <<began, reply, replied>>
storageVars  == <<stored, storedAt>>
observerVars == <<seeded, owed, led>>
vars == <<cacheVars, requestVars, headVars, storageVars, observerVars, now>>

Outcome == {"unset", "present", "absent"}
Ended   == {"answered", "failed", "cancelled", "seeded"}
Places  == {"new", "holding", "waiting", "probing", "wrote"} \cup Ended

TypeOK ==
  /\ slots    \in [Hashes -> Requests \cup {NoRequest}]
  /\ present  \in [Requests -> Outcome]
  /\ permit   \in [Requests -> Requests \cup {NoRequest}]
  /\ pc       \in [Requests -> Places]
  /\ hash     \in [Requests -> Hashes]
  /\ at       \in [Requests -> Requests \cup {NoRequest}]
  /\ entered  \in [Requests -> Nat]
  /\ answer   \in [Requests -> Outcome]
  /\ began    \in [Requests -> Nat]
  /\ reply    \in [Requests -> Outcome]
  /\ replied  \in [Requests -> Nat]
  /\ stored   \in [Hashes -> BOOLEAN]
  /\ storedAt \in [Hashes -> Nat]
  /\ seeded   \in SUBSET Hashes
  /\ owed     \in SUBSET Requests
  /\ led      \in SUBSET Requests
  /\ now      \in Nat

Init ==
  /\ slots    = [h \in Hashes |-> NoRequest]
  /\ present  = [r \in Requests |-> "unset"]
  /\ permit   = [r \in Requests |-> NoRequest]
  /\ pc       = [r \in Requests |-> "new"]
  /\ hash     \in [Requests -> Hashes]
  /\ at       = [r \in Requests |-> NoRequest]
  /\ entered  = [r \in Requests |-> 0]
  /\ answer   = [r \in Requests |-> "unset"]
  /\ began    = [r \in Requests |-> 0]
  /\ reply    = [r \in Requests |-> "unset"]
  /\ replied  = [r \in Requests |-> 0]
  /\ stored   \in [Hashes -> BOOLEAN]
  /\ storedAt = [h \in Hashes |-> 0]
  /\ seeded   = {}
  /\ owed     = {}
  /\ led      = {}
  /\ now      = 0

-----------------------------------------------------------------------------
(* The slot map. *)

(* Mutants: an unresolved slot lives no longer than an absent one; an absent *)
(* result is trusted as long as a present one.                             *)
TtlUnresolvedShort(outcome) ==
  IF outcome = "present" THEN POSITIVE_TTL ELSE NEGATIVE_TTL

TtlAbsentLong(outcome) == POSITIVE_TTL

(* The time to live of a slot, by its outcome. *)
Ttl(outcome) ==
  CASE outcome = "unset"   -> UNRESOLVED_TTL
    [] outcome = "present" -> POSITIVE_TTL
    [] outcome = "absent"  -> NEGATIVE_TTL

(* `saturating_duration_since(created) < TTL`, without the subtraction. *)
Live(s, t) == t < entered[s] + Ttl(present[s])

Occupied == {h \in Hashes : slots[h] # NoRequest}

(* Mutants: the retired bug of an unresolved slot that never expires; a    *)
(* sweep that clears the whole map.                                        *)
SweepKeepsUnresolved(t) ==
  IF Cardinality(Occupied) > SWEEP_THRESHOLD
  THEN [h \in Hashes |->
          IF slots[h] # NoRequest /\ (Live(slots[h], t) \/ present[slots[h]] = "unset")
          THEN slots[h] ELSE NoRequest]
  ELSE slots

SweepClears(t) ==
  IF Cardinality(Occupied) > SWEEP_THRESHOLD
  THEN [h \in Hashes |-> NoRequest] ELSE slots

(* The map after `sweep`, at time t. *)
Sweep(t) ==
  IF Cardinality(Occupied) > SWEEP_THRESHOLD
  THEN [h \in Hashes |-> IF slots[h] # NoRequest /\ Live(slots[h], t)
                         THEN slots[h] ELSE NoRequest]
  ELSE slots

(* `slot`: join the live slot of this hash, or sweep and put in a new one. *)
Slot(r) ==
  /\ pc[r] = "new"
  /\ LET s == slots[hash[r]] IN
     IF s # NoRequest /\ Live(s, now)
     THEN /\ at' = [at EXCEPT ![r] = s]
          /\ UNCHANGED slots
     ELSE /\ at' = [at EXCEPT ![r] = r]
          /\ slots' = [Sweep(now) EXCEPT ![hash[r]] = r]
  /\ entered' = [entered EXCEPT ![r] = now]
  /\ pc' = [pc EXCEPT ![r] = "holding"]
  /\ owed' = IF hash[r] \in seeded THEN owed \cup {r} ELSE owed
  /\ UNCHANGED <<present, permit, hash, answer, headVars, storageVars, seeded, led, now>>

(* Mutant: marks with entry().or_insert(), which keeps a slot that is there. *)
MarkPresentIfVacant(r) ==
  /\ pc[r] = "wrote"
  /\ present' = [present EXCEPT ![r] = "present"]
  /\ entered' = [entered EXCEPT ![r] = now]
  /\ slots' = [Sweep(now) EXCEPT ![hash[r]] = IF @ = NoRequest THEN r ELSE @]
  /\ pc' = [pc EXCEPT ![r] = "seeded"]
  /\ seeded' = IF stored[hash[r]] THEN seeded \cup {hash[r]} ELSE seeded
  /\ UNCHANGED <<permit, hash, at, answer, headVars, storageVars, owed, led, now>>

(* `mark_present`: called in the poll that gets the reply of PutSettled,   *)
(* so a cancellation cannot come between the reply and the mark.           *)
MarkPresent(r) ==
  /\ pc[r] = "wrote"
  /\ present' = [present EXCEPT ![r] = "present"]
  /\ entered' = [entered EXCEPT ![r] = now]
  /\ slots' = [Sweep(now) EXCEPT ![hash[r]] = r]
  /\ pc' = [pc EXCEPT ![r] = "seeded"]
  /\ seeded' = IF stored[hash[r]] THEN seeded \cup {hash[r]} ELSE seeded
  /\ UNCHANGED <<permit, hash, at, answer, headVars, storageVars, owed, led, now>>

-----------------------------------------------------------------------------
(* tokio's OnceCell::get_or_try_init: a semaphore with one permit, closed  *)
(* when the cell is set. The order in which waiters get the permit is left *)
(* open.                                                                   *)

(* The cell is set: on the fast path, or because the semaphore closed.     *)
ReadCell(r) ==
  /\ pc[r] \in {"holding", "waiting"}
  /\ present[at[r]] # "unset"
  /\ answer' = [answer EXCEPT ![r] = present[at[r]]]
  /\ pc' = [pc EXCEPT ![r] = "answered"]
  /\ UNCHANGED <<cacheVars, hash, at, entered, headVars, storageVars, observerVars, now>>

Enqueue(r) ==
  /\ pc[r] = "holding"
  /\ present[at[r]] = "unset"
  /\ permit[at[r]] # NoRequest
  /\ pc' = [pc EXCEPT ![r] = "waiting"]
  /\ UNCHANGED <<cacheVars, hash, at, entered, answer, headVars, storageVars,
                 observerVars, now>>

(* The HeadObject of r is over, and with it what it had in flight.         *)
HeadDone(r) ==
  /\ began' = [began EXCEPT ![r] = 0]
  /\ reply' = [reply EXCEPT ![r] = "unset"]
  /\ replied' = [replied EXCEPT ![r] = 0]

(* With the permit in hand the request calls `probe`, its own HeadObject.  *)
SendHead(r) ==
  /\ pc' = [pc EXCEPT ![r] = "probing"]
  /\ began' = [began EXCEPT ![r] = now]
  /\ led' = led \cup {r}
  /\ UNCHANGED <<slots, present, hash, at, entered, answer, reply, replied,
                 storageVars, seeded, owed, now>>

Acquire(r) ==
  /\ pc[r] = "holding"
  /\ present[at[r]] = "unset"
  /\ permit[at[r]] = NoRequest
  /\ permit' = [permit EXCEPT ![at[r]] = r]
  /\ SendHead(r)

(* A waiter that was handed the permit of a failed or dropped leader.      *)
Granted(r) ==
  /\ pc[r] = "waiting"
  /\ permit[at[r]] = r
  /\ SendHead(r)
  /\ UNCHANGED permit

(* Mutant: the permit is dropped and nobody is woken. *)
ReleaseWakesNobody(s, r) == permit' = [permit EXCEPT ![s] = NoRequest]

(* Dropping the permit of s hands it to a waiter, if there is one.         *)
Release(s, r) ==
  LET waiters == {t \in Requests \ {r} : pc[t] = "waiting" /\ at[t] = s}
  IN  \E next \in IF waiters = {} THEN {NoRequest} ELSE waiters :
        permit' = [permit EXCEPT ![s] = next]

(* Mutant: the cell is set, but the permit goes on to the next waiter. *)
ProbeOkHandsOn(r) ==
  /\ pc[r] = "probing"
  /\ reply[r] # "unset"
  /\ present' = [present EXCEPT ![at[r]] = reply[r]]
  /\ Release(at[r], r)
  /\ answer' = [answer EXCEPT ![r] = reply[r]]
  /\ pc' = [pc EXCEPT ![r] = "answered"]
  /\ HeadDone(r)
  /\ UNCHANGED <<slots, hash, at, entered, storageVars, observerVars, now>>

(* The probe returned Ok: set the cell and close the semaphore.            *)
ProbeOk(r) ==
  /\ pc[r] = "probing"
  /\ reply[r] # "unset"
  /\ present' = [present EXCEPT ![at[r]] = reply[r]]
  /\ permit' = [permit EXCEPT ![at[r]] = NoRequest]
  /\ answer' = [answer EXCEPT ![r] = reply[r]]
  /\ pc' = [pc EXCEPT ![r] = "answered"]
  /\ HeadDone(r)
  /\ UNCHANGED <<slots, hash, at, entered, storageVars, observerVars, now>>

(* Mutants: the error is cached in the cell, as itself or (unwrap_or(false) *)
(* inside the probe) as an absence.                                        *)
ProbeErrSets(r, outcome) ==
  /\ pc[r] = "probing"
  /\ present' = [present EXCEPT ![at[r]] = outcome]
  /\ permit' = [permit EXCEPT ![at[r]] = NoRequest]
  /\ pc' = [pc EXCEPT ![r] = "failed"]
  /\ HeadDone(r)
  /\ UNCHANGED <<slots, hash, at, entered, answer, storageVars,
                 observerVars, now>>

ProbeErrCached(r)   == ProbeErrSets(r, "error")
ProbeErrAsAbsent(r) == ProbeErrSets(r, "absent")

(* The probe returned Err (S3 error or timeout): the cell stays unset.     *)
ProbeErr(r) ==
  /\ pc[r] = "probing"
  /\ Release(at[r], r)
  /\ pc' = [pc EXCEPT ![r] = "failed"]
  /\ HeadDone(r)
  /\ UNCHANGED <<slots, present, hash, at, entered, answer, storageVars,
                 observerVars, now>>

(* Mutant: a dropped leader takes its permit along. *)
CancelLeaks(r) ==
  /\ pc[r] \in {"waiting", "probing"}
  /\ pc' = [pc EXCEPT ![r] = "cancelled"]
  /\ HeadDone(r)
  /\ UNCHANGED <<cacheVars, hash, at, entered, answer, storageVars,
                 observerVars, now>>

(* The client disconnected and the handler's future was dropped while it   *)
(* awaited the permit or its HeadObject.                                   *)
Cancel(r) ==
  /\ pc[r] \in {"waiting", "probing"}
  /\ IF permit[at[r]] = r THEN Release(at[r], r) ELSE UNCHANGED permit
  /\ pc' = [pc EXCEPT ![r] = "cancelled"]
  /\ HeadDone(r)
  /\ UNCHANGED <<slots, present, hash, at, entered, answer, storageVars,
                 observerVars, now>>

-----------------------------------------------------------------------------
(* The bucket and the clock. *)

(* S3 evaluates the HeadObject; the verdict is then on its way back.       *)
HeadObject(r) ==
  /\ pc[r] = "probing"
  /\ reply[r] = "unset"
  /\ reply' = [reply EXCEPT ![r] = IF stored[hash[r]] THEN "present" ELSE "absent"]
  /\ replied' = [replied EXCEPT ![r] = now]
  /\ UNCHANGED <<cacheVars, requestVars, began, storageVars, observerVars, now>>

Put(h) ==
  /\ stored' = [stored EXCEPT ![h] = TRUE]
  /\ storedAt' = IF stored[h] THEN storedAt ELSE [storedAt EXCEPT ![h] = now]

(* S3 stores the object of a PUT on this server, or tells its `exists`     *)
(* that the object is there; the reply is on its way.                      *)
PutSettled(r) ==
  /\ pc[r] = "new"
  /\ Put(hash[r])
  /\ pc' = [pc EXCEPT ![r] = "wrote"]
  /\ UNCHANGED <<cacheVars, hash, at, entered, answer, headVars, observerVars, now>>

(* A write that this cache never hears of: a PUT on another server, or one *)
(* here whose success was lost or whose handler was dropped.               *)
UnseenPut(h) ==
  /\ ~stored[h]
  /\ Put(h)
  /\ UNCHANGED <<cacheVars, requestVars, headVars, observerVars, now>>

(* The object is deleted: a bucket lifecycle rule or an operator.          *)
Expire(h) ==
  /\ stored[h]
  /\ stored' = [stored EXCEPT ![h] = FALSE]
  /\ storedAt' = [storedAt EXCEPT ![h] = 0]
  /\ seeded' = seeded \ {h}
  /\ owed' = {r \in owed : hash[r] # h}
  /\ UNCHANGED <<cacheVars, requestVars, headVars, led, now>>

(* Time may not pass a deadline the SDK enforces: a HeadObject ends within *)
(* S3_TIMEOUT, and a verdict arrives within the attempt that fetched it or *)
(* that attempt is given up. Nor does it pass within one poll: `present`   *)
(* awaits nothing between `slot` and the cell.                             *)
Tick ==
  /\ now < MaxTime
  /\ \A r \in Requests : pc[r] # "holding"
  /\ \A r \in Requests : pc[r] = "probing" =>
       /\ now < began[r] + S3_TIMEOUT
       /\ reply[r] # "unset" => now < replied[r] + ATTEMPT_TIMEOUT
  /\ now' = now + 1
  /\ UNCHANGED <<cacheVars, requestVars, headVars, storageVars, observerVars>>

Next ==
  \/ \E r \in Requests :
       \/ Slot(r) \/ ReadCell(r) \/ Enqueue(r) \/ Acquire(r) \/ Granted(r)
       \/ HeadObject(r) \/ ProbeOk(r) \/ ProbeErr(r) \/ Cancel(r)
       \/ PutSettled(r) \/ MarkPresent(r)
  \/ \E h \in Hashes : UnseenPut(h) \/ Expire(h)
  \/ Tick

(* The runtime polls every task that can move, and the SDK ends every call *)
(* (Ok, or Err at the latest at its timeout). Clients, other servers and   *)
(* the bucket owe nothing.                                                 *)
Fairness ==
  \A r \in Requests :
    /\ WF_vars(ReadCell(r))
    /\ WF_vars(Enqueue(r) \/ Acquire(r) \/ Granted(r))
    /\ WF_vars(ProbeOk(r) \/ ProbeErr(r))

Spec == Init /\ [][Next]_vars /\ Fairness
-----------------------------------------------------------------------------
(* Properties. *)

Young(s) == now < entered[s] + UNRESOLVED_TTL
Larger(a, b) == IF a < b THEN b ELSE a
Shortest == IF NEGATIVE_TTL < UNRESOLVED_TTL THEN NEGATIVE_TTL ELSE UNRESOLVED_TTL

(* Single flight (`present`): of the HeadObject calls in flight for one    *)
(* hash, at most one belongs to a slot younger than UNRESOLVED_TTL, whoever *)
(* failed, was cancelled, wrote or swept in between.                       *)
YoungProbesAreUnique ==
  \A q, r \in Requests :
    /\ pc[q] = "probing" /\ pc[r] = "probing" /\ hash[q] = hash[r]
    /\ Young(at[q]) /\ Young(at[r])
    => q = r

(* "This collapses that fan-out to ~one S3 call per key per TTL": beyond   *)
(* the calls that failed or were dropped, any two HeadObjects of GETs for  *)
(* one key belong to slots made at least the shortest TTL apart, whatever  *)
(* was written, swept or expired in between.                               *)
OneProbePerTtl ==
  \A q, r \in led :
    /\ q # r /\ hash[q] = hash[r]
    /\ pc[q] \in {"probing", "answered"} /\ pc[r] \in {"probing", "answered"}
    => \/ entered[at[q]] + Shortest <= entered[at[r]]
       \/ entered[at[r]] + Shortest <= entered[at[q]]

(* Seed on write (`mark_present`): a GET that enters after a PUT here       *)
(* marked the key is never told "absent" while the object stays in the     *)
(* bucket, even if a probe from before the write is still to come back.    *)
ReadYourWrites ==
  \A r \in owed : answer[r] # "absent"

(* The stale-404 window: a GET told "absent" of an object that is stored    *)
(* entered at most NEGATIVE_TTL, or one attempt of a HeadObject in flight,  *)
(* after the object was stored, by whichever server.                       *)
StaleMissBound ==
  \A r \in Requests :
    answer[r] = "absent" /\ stored[hash[r]]
    => entered[r] <= storedAt[hash[r]] + Larger(NEGATIVE_TTL, ATTEMPT_TIMEOUT)

(* A cell is never stranded: while a request waits for an unset cell, some  *)
(* live request holds that cell's permit, so a failed or dropped leader    *)
(* always had a successor.                                                 *)
NoStrandedWaiter ==
  \A r \in Requests :
    pc[r] = "waiting" /\ present[at[r]] = "unset"
    => \E q \in Requests :
         permit[at[r]] = q /\ at[q] = at[r] /\ pc[q] \in {"waiting", "probing"}

(* `sweep` bounds the map: once it holds more than one entry above the cap, *)
(* its entries are all from within one POSITIVE_TTL, so that it is bounded *)
(* by the recent load and not by the age of the process.                   *)
SweptSpread ==
  Cardinality(Occupied) > SWEEP_THRESHOLD + 1
  => \A g, h \in Occupied :
       entered[slots[g]] < entered[slots[h]] + POSITIVE_TTL

(* `slot` and `sweep` take a live slot from nobody: the entry of a hash    *)
(* changes only when it is not live any more or when a PUT marks the hash. *)
KeepsLiveSlots ==
  \A h \in Hashes :
    slots[h] \in Requests /\ Live(slots[h], now) /\ slots'[h] # slots[h]
    => slots'[h] \in Requests /\ present'[slots'[h]] = "present"

LiveSlotsStay == [][KeepsLiveSlots]_vars

(* The comment on UNRESOLVED_TTL: past that age "no probe can still be      *)
(* running, so the slot is garbage". It takes the first probe of a slot    *)
(* for the only one.                                                       *)
NoProbeOutlivesItsSlot ==
  \A r \in Requests : pc[r] = "probing" => Young(at[r])

(* The comment on NEGATIVE_TTL, "this bounds that stale-404 window", and    *)
(* the README: a GET on another task misses a stored key for at most that  *)
(* long.                                                                   *)
NegativeTtlBoundsStaleMisses ==
  \A r \in Requests :
    answer[r] = "absent" /\ stored[hash[r]]
    => entered[r] <= storedAt[hash[r]] + NEGATIVE_TTL
=============================================================================
