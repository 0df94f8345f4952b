-------------------------- MODULE ProbeCacheProofs --------------------------
(***************************************************************************)
(* Proofs about ProbeCache, for every number of hashes and requests and    *)
(* every choice of the TTLs and timeouts that its assumptions admit.       *)
(***************************************************************************)
EXTENDS ProbeCache, FiniteSetTheorems, TLAPS

-----------------------------------------------------------------------------
(* The inductive invariant, in parts. *)

Active(r) == pc[r] \in {"holding", "waiting", "probing"}

(* A request that has not called the cache yet has no slot; one that does  *)
(* not probe has no verdict under way, and no answer before it ended.      *)
Fresh ==
  \A r \in Requests :
    /\ pc[r] \in {"new", "wrote"} => present[r] = "unset" /\ permit[r] = NoRequest
    /\ Active(r) => at[r] \in Requests
    /\ pc[r] # "probing" => reply[r] = "unset"
    /\ pc[r] # "answered" => answer[r] = "unset"

(* A slot belongs to the hash of everyone who refers to it, and whoever    *)
(* allocated it has called the cache.                                      *)
SlotsMatch ==
  /\ \A h \in Hashes : slots[h] \in Requests =>
       hash[slots[h]] = h /\ pc[slots[h]] \notin {"new", "wrote"}
  /\ \A r \in Requests : at[r] \in Requests =>
       hash[at[r]] = hash[r] /\ pc[at[r]] \notin {"new", "wrote"}

(* The order of the events in the life of a probe.                         *)
Times ==
  \A r \in Requests :
    /\ entered[r] <= now
    /\ pc[r] = "probing" => entered[at[r]] <= began[r] /\ began[r] <= now
    /\ pc[r] = "probing" /\ reply[r] # "unset" =>
         /\ began[r] <= replied[r]
         /\ replied[r] <= now
         /\ now <= replied[r] + ATTEMPT_TIMEOUT

(* Who probes holds the permit of an unset cell.                           *)
Permits ==
  /\ \A r \in Requests : pc[r] = "probing" =>
       permit[at[r]] = r /\ present[at[r]] = "unset"
  /\ \A s \in Requests : present[s] # "unset" => permit[s] = NoRequest

(* Somebody may still probe for slot s while it is young.                  *)
Open(r) == Active(r) /\ present[at[r]] = "unset" /\ Young(at[r])

(* A PUT marked hash h after slot s was made.                              *)
MarkedOver(h, s) ==
  /\ slots[h] \in Requests
  /\ present[slots[h]] = "present"
  /\ entered[s] <= entered[slots[h]]

(* A young unset slot that somebody holds is the one in the map, unless a  *)
(* mark took its place; and it is the only one of its hash.                *)
SingleFlight ==
  /\ \A r \in Requests : Open(r) =>
       slots[hash[r]] = at[r] \/ MarkedOver(hash[r], at[r])
  /\ \A q, r \in Requests : Open(q) /\ Open(r) /\ hash[q] = hash[r] => at[q] = at[r]

(* An unset slot, and the slot of who probed, was made by a GET.           *)
Allocated ==
  /\ \A r \in Requests :
       at[r] \in Requests /\ (present[at[r]] = "unset" \/ r \in led)
       => at[at[r]] = at[r]
  /\ \A h \in Hashes :
       slots[h] \in Requests /\ present[slots[h]] = "unset"
       => at[slots[h]] = slots[h]

(* One HeadObject per slot gets a verdict or is still to get it.           *)
Leads(r) == r \in led /\ pc[r] \in {"probing", "answered"}

Leaders ==
  /\ \A r \in led : at[r] \in Requests /\ pc[r] \notin {"new", "wrote", "holding", "waiting"}
  /\ \A r \in led : pc[r] = "answered" => present[at[r]] # "unset"
  /\ \A q, r \in Requests : Leads(q) /\ Leads(r) /\ at[q] = at[r] => q = r

(* The slots that GETs made for one hash are apart, because each kept its  *)
(* entry, or gave it to a later mark, until it was old enough.             *)
Spacing ==
  /\ \A q \in Requests : at[q] = q /\ now < entered[q] + Shortest =>
       slots[hash[q]] \in Requests /\ entered[q] <= entered[slots[hash[q]]]
  /\ \A q, r \in Requests : at[q] = q /\ at[r] = r /\ hash[q] = hash[r] /\ q # r =>
       \/ entered[q] + Shortest <= entered[r]
       \/ entered[r] + Shortest <= entered[q]

(* Slot s does not say "absent" and no answer under way will make it.      *)
Clean(s) ==
  /\ present[s] # "absent"
  /\ \A t \in Requests : at[t] = s => reply[t] # "absent"

SeedsHold ==
  /\ \A h \in seeded : stored[h] /\ (slots[h] \in Requests => Clean(slots[h]))
  /\ \A r \in owed : hash[r] \in seeded /\ at[r] \in Requests /\ Clean(at[r])

(* An "absent" verdict was true when S3 gave it.                           *)
Window == Larger(NEGATIVE_TTL, ATTEMPT_TIMEOUT)

MissesAge ==
  /\ \A r \in Requests : reply[r] = "absent" /\ stored[hash[r]] =>
       replied[r] <= storedAt[hash[r]]
  /\ \A s \in Requests : present[s] = "absent" /\ stored[hash[s]] =>
       entered[s] <= storedAt[hash[s]]
  /\ \A r \in Requests :
       Active(r) /\ present[at[r]] = "absent" /\ stored[hash[r]] =>
         entered[r] <= storedAt[hash[r]] + Window

(* A permit is held by somebody who will use it or drop it, and an unset   *)
(* cell that is waited for has its permit out.                             *)
Holders ==
  /\ \A s \in Requests : permit[s] \in Requests =>
       at[permit[s]] = s /\ pc[permit[s]] \in {"waiting", "probing"}
  /\ \A r \in Requests : pc[r] = "waiting" /\ present[at[r]] = "unset" =>
       permit[at[r]] \in Requests

Swept == IsFiniteSet(Occupied) /\ SweptSpread

(* What every other part rests on. *)
Inv == TypeOK /\ Fresh /\ SlotsMatch /\ Times /\ Permits

-----------------------------------------------------------------------------
(* The base: types, and who refers to what. *)

USE DEF cacheVars, requestVars, headVars, storageVars, observerVars

(* What `sweep` may take out of the map: nothing that is live. *)
LEMMA SweepFacts ==
  ASSUME TypeOK, NEW t
  PROVE  /\ Sweep(t) \in [Hashes -> Requests \cup {NoRequest}]
         /\ \A h \in Hashes : Sweep(t)[h] \in {slots[h], NoRequest}
         /\ \A h \in Hashes : slots[h] \in Requests /\ Live(slots[h], t)
                              => Sweep(t)[h] = slots[h]
BY NobodyAssumption DEF TypeOK, Sweep

(* `slot` joins the live slot of the hash, or puts in the new one and      *)
(* takes no live slot from another hash.                                   *)
LEMMA SlotFacts ==
  ASSUME TypeOK, NEW r \in Requests, Slot(r)
  PROVE  \/ /\ slots[hash[r]] \in Requests /\ Live(slots[hash[r]], now)
            /\ at' = [at EXCEPT ![r] = slots[hash[r]]]
            /\ slots' = slots
         \/ /\ ~(slots[hash[r]] \in Requests /\ Live(slots[hash[r]], now))
            /\ at' = [at EXCEPT ![r] = r]
            /\ slots'[hash[r]] = r
            /\ \A h \in Hashes \ {hash[r]} :
                 /\ slots'[h] \in {slots[h], NoRequest}
                 /\ slots[h] \in Requests /\ Live(slots[h], now) => slots'[h] = slots[h]
BY SweepFacts, NobodyAssumption DEF TypeOK, Slot

(* `mark_present` does the same, unconditionally.                          *)
LEMMA MarkFacts ==
  ASSUME TypeOK, NEW r \in Requests, MarkPresent(r)
  PROVE  /\ slots'[hash[r]] = r
         /\ \A h \in Hashes \ {hash[r]} :
              /\ slots'[h] \in {slots[h], NoRequest}
              /\ slots[h] \in Requests /\ Live(slots[h], now) => slots'[h] = slots[h]
BY SweepFacts, NobodyAssumption DEF TypeOK, MarkPresent

(* A young slot is live unless it says "absent", and any slot is live for  *)
(* the shortest TTL.                                                       *)
LEMMA LiveFacts ==
  ASSUME TypeOK, NEW s \in Requests
  PROVE  /\ Young(s) /\ present[s] # "absent" => Live(s, now)
         /\ now < entered[s] + Shortest => Live(s, now)
BY TimesAssumption, TTLAssumption DEF TypeOK, Young, Shortest, Live, Ttl, Outcome

(* The base holds before the first request. *)
LEMMA InvInit == Init => Inv
BY NobodyAssumption, TimesAssumption
   DEF Init, Inv, TypeOK, Fresh, SlotsMatch, Times, Permits, Outcome, Places, Active

(* Every action keeps the variables in their sets. *)
LEMMA TypeStep ==
  ASSUME TypeOK, Fresh, [Next]_vars
  PROVE  TypeOK'
<1> USE DEF TypeOK, Fresh, Active, Outcome, Places, Ended
<1>1. ASSUME NEW r \in Requests, Slot(r) PROVE TypeOK'
  BY <1>1, SweepFacts, SMTT(30) DEF Slot
<1>2. ASSUME NEW r \in Requests, ReadCell(r) PROVE TypeOK'
  BY <1>2 DEF ReadCell
<1>3. ASSUME NEW r \in Requests, Enqueue(r) PROVE TypeOK'
  BY <1>3 DEF Enqueue
<1>4. ASSUME NEW r \in Requests, Acquire(r) PROVE TypeOK'
  BY <1>4 DEF Acquire, SendHead
<1>5. ASSUME NEW r \in Requests, Granted(r) PROVE TypeOK'
  BY <1>5 DEF Granted, SendHead
<1>6. ASSUME NEW r \in Requests, HeadObject(r) PROVE TypeOK'
  BY <1>6 DEF HeadObject
<1>7. ASSUME NEW r \in Requests, ProbeOk(r) PROVE TypeOK'
  BY <1>7 DEF ProbeOk, HeadDone
<1>8. ASSUME NEW r \in Requests, ProbeErr(r) PROVE TypeOK'
  BY <1>8 DEF ProbeErr, Release, HeadDone
<1>9. ASSUME NEW r \in Requests, Cancel(r) PROVE TypeOK'
  BY <1>9 DEF Cancel, Release, HeadDone
<1>10. ASSUME NEW r \in Requests, PutSettled(r) PROVE TypeOK'
  BY <1>10 DEF PutSettled, Put
<1>11. ASSUME NEW r \in Requests, MarkPresent(r) PROVE TypeOK'
  BY <1>11, SweepFacts DEF MarkPresent
<1>12. ASSUME NEW h \in Hashes, UnseenPut(h) PROVE TypeOK'
  BY <1>12 DEF UnseenPut, Put
<1>13. ASSUME NEW h \in Hashes, Expire(h) PROVE TypeOK'
  BY <1>13 DEF Expire
<1>14. CASE Tick
  BY <1>14 DEF Tick
<1>15. CASE UNCHANGED vars
  BY <1>15 DEF vars
<1> QED
  BY <1>1, <1>2, <1>3, <1>4, <1>5, <1>6, <1>7, <1>8,
     <1>9, <1>10, <1>11, <1>12, <1>13, <1>14, <1>15 DEF Next

(* No action touches the slot of a request that has not called the cache. *)
LEMMA FreshStep ==
  ASSUME Inv, [Next]_vars
  PROVE  Fresh'
<1> USE DEF Inv, TypeOK, Fresh, SlotsMatch, Active
<1>1. ASSUME NEW r \in Requests, Slot(r) PROVE Fresh'
  BY <1>1, SweepFacts DEF Slot
<1>2. ASSUME NEW r \in Requests, ReadCell(r) PROVE Fresh'
  BY <1>2 DEF ReadCell
<1>3. ASSUME NEW r \in Requests, Enqueue(r) PROVE Fresh'
  BY <1>3 DEF Enqueue
<1>4. ASSUME NEW r \in Requests, Acquire(r) PROVE Fresh'
  BY <1>4 DEF Acquire, SendHead
<1>5. ASSUME NEW r \in Requests, Granted(r) PROVE Fresh'
  BY <1>5 DEF Granted, SendHead
<1>6. ASSUME NEW r \in Requests, HeadObject(r) PROVE Fresh'
  BY <1>6 DEF HeadObject
<1>7. ASSUME NEW r \in Requests, ProbeOk(r) PROVE Fresh'
  BY <1>7 DEF ProbeOk, HeadDone
<1>8. ASSUME NEW r \in Requests, ProbeErr(r) PROVE Fresh'
  BY <1>8 DEF ProbeErr, Release, HeadDone
<1>9. ASSUME NEW r \in Requests, Cancel(r) PROVE Fresh'
  BY <1>9 DEF Cancel, Release, HeadDone
<1>10. ASSUME NEW r \in Requests, PutSettled(r) PROVE Fresh'
  BY <1>10 DEF PutSettled, Put
<1>11. ASSUME NEW r \in Requests, MarkPresent(r) PROVE Fresh'
  BY <1>11, SweepFacts DEF MarkPresent
<1>12. ASSUME NEW h \in Hashes, UnseenPut(h) PROVE Fresh'
  BY <1>12 DEF UnseenPut, Put
<1>13. ASSUME NEW h \in Hashes, Expire(h) PROVE Fresh'
  BY <1>13 DEF Expire
<1>14. CASE Tick
  BY <1>14 DEF Tick
<1>15. CASE UNCHANGED vars
  BY <1>15 DEF vars
<1> QED
  BY <1>1, <1>2, <1>3, <1>4, <1>5, <1>6, <1>7, <1>8,
     <1>9, <1>10, <1>11, <1>12, <1>13, <1>14, <1>15 DEF Next

(* A request only ever gets hold of a slot of its own hash. *)
LEMMA SlotsMatchStep ==
  ASSUME Inv, [Next]_vars
  PROVE  SlotsMatch'
<1> USE DEF Inv, TypeOK, Fresh, SlotsMatch, Active
<1>1. ASSUME NEW r \in Requests, Slot(r) PROVE SlotsMatch'
  BY <1>1, SweepFacts, NobodyAssumption DEF Slot
<1>2. ASSUME NEW r \in Requests, ReadCell(r) PROVE SlotsMatch'
  BY <1>2 DEF ReadCell
<1>3. ASSUME NEW r \in Requests, Enqueue(r) PROVE SlotsMatch'
  BY <1>3 DEF Enqueue
<1>4. ASSUME NEW r \in Requests, Acquire(r) PROVE SlotsMatch'
  BY <1>4 DEF Acquire, SendHead
<1>5. ASSUME NEW r \in Requests, Granted(r) PROVE SlotsMatch'
  BY <1>5 DEF Granted, SendHead
<1>6. ASSUME NEW r \in Requests, HeadObject(r) PROVE SlotsMatch'
  BY <1>6 DEF HeadObject
<1>7. ASSUME NEW r \in Requests, ProbeOk(r) PROVE SlotsMatch'
  BY <1>7 DEF ProbeOk, HeadDone
<1>8. ASSUME NEW r \in Requests, ProbeErr(r) PROVE SlotsMatch'
  BY <1>8 DEF ProbeErr, Release, HeadDone
<1>9. ASSUME NEW r \in Requests, Cancel(r) PROVE SlotsMatch'
  BY <1>9 DEF Cancel, Release, HeadDone
<1>10. ASSUME NEW r \in Requests, PutSettled(r) PROVE SlotsMatch'
  BY <1>10 DEF PutSettled, Put
<1>11. ASSUME NEW r \in Requests, MarkPresent(r) PROVE SlotsMatch'
  BY <1>11, SweepFacts, NobodyAssumption DEF MarkPresent
<1>12. ASSUME NEW h \in Hashes, UnseenPut(h) PROVE SlotsMatch'
  BY <1>12 DEF UnseenPut, Put
<1>13. ASSUME NEW h \in Hashes, Expire(h) PROVE SlotsMatch'
  BY <1>13 DEF Expire
<1>14. CASE Tick
  BY <1>14 DEF Tick
<1>15. CASE UNCHANGED vars
  BY <1>15 DEF vars
<1> QED
  BY <1>1, <1>2, <1>3, <1>4, <1>5, <1>6, <1>7, <1>8,
     <1>9, <1>10, <1>11, <1>12, <1>13, <1>14, <1>15 DEF Next

(* Time stamps are in the past and in order; Tick respects the attempt's end. *)
LEMMA TimesStep ==
  ASSUME Inv, [Next]_vars
  PROVE  Times'
<1> USE DEF Inv, TypeOK, Fresh, SlotsMatch, Times, Active
<1>1. ASSUME NEW r \in Requests, Slot(r) PROVE Times'
  BY <1>1, SweepFacts DEF Slot
<1>2. ASSUME NEW r \in Requests, ReadCell(r) PROVE Times'
  BY <1>2 DEF ReadCell
<1>3. ASSUME NEW r \in Requests, Enqueue(r) PROVE Times'
  BY <1>3 DEF Enqueue
<1>4. ASSUME NEW r \in Requests, Acquire(r) PROVE Times'
  BY <1>4 DEF Acquire, SendHead
<1>5. ASSUME NEW r \in Requests, Granted(r) PROVE Times'
  BY <1>5 DEF Granted, SendHead
<1>6. ASSUME NEW r \in Requests, HeadObject(r) PROVE Times'
  BY <1>6, TimesAssumption DEF HeadObject
<1>7. ASSUME NEW r \in Requests, ProbeOk(r) PROVE Times'
  BY <1>7 DEF ProbeOk, HeadDone
<1>8. ASSUME NEW r \in Requests, ProbeErr(r) PROVE Times'
  BY <1>8 DEF ProbeErr, Release, HeadDone
<1>9. ASSUME NEW r \in Requests, Cancel(r) PROVE Times'
  BY <1>9 DEF Cancel, Release, HeadDone
<1>10. ASSUME NEW r \in Requests, PutSettled(r) PROVE Times'
  BY <1>10 DEF PutSettled, Put
<1>11. ASSUME NEW r \in Requests, MarkPresent(r) PROVE Times'
  BY <1>11, SweepFacts DEF MarkPresent
<1>12. ASSUME NEW h \in Hashes, UnseenPut(h) PROVE Times'
  BY <1>12 DEF UnseenPut, Put
<1>13. ASSUME NEW h \in Hashes, Expire(h) PROVE Times'
  BY <1>13 DEF Expire
<1>14. CASE Tick
  BY <1>14, TimesAssumption DEF Tick
<1>15. CASE UNCHANGED vars
  BY <1>15 DEF vars
<1> QED
  BY <1>1, <1>2, <1>3, <1>4, <1>5, <1>6, <1>7, <1>8,
     <1>9, <1>10, <1>11, <1>12, <1>13, <1>14, <1>15 DEF Next

(* The permit of a cell passes from hand to hand and ends with the cell set. *)
LEMMA PermitsStep ==
  ASSUME Inv, [Next]_vars
  PROVE  Permits'
<1> USE DEF Inv, TypeOK, Fresh, SlotsMatch, Permits, Active
<1>1. ASSUME NEW r \in Requests, Slot(r) PROVE Permits'
  BY <1>1, SweepFacts DEF Slot
<1>2. ASSUME NEW r \in Requests, ReadCell(r) PROVE Permits'
  BY <1>2 DEF ReadCell
<1>3. ASSUME NEW r \in Requests, Enqueue(r) PROVE Permits'
  BY <1>3 DEF Enqueue
<1>4. ASSUME NEW r \in Requests, Acquire(r) PROVE Permits'
  BY <1>4, NobodyAssumption DEF Acquire, SendHead
<1>5. ASSUME NEW r \in Requests, Granted(r) PROVE Permits'
  BY <1>5, NobodyAssumption DEF Granted, SendHead
<1>6. ASSUME NEW r \in Requests, HeadObject(r) PROVE Permits'
  BY <1>6 DEF HeadObject
<1>7. ASSUME NEW r \in Requests, ProbeOk(r) PROVE Permits'
  BY <1>7 DEF ProbeOk, HeadDone
<1>8. ASSUME NEW r \in Requests, ProbeErr(r) PROVE Permits'
  BY <1>8 DEF ProbeErr, Release, HeadDone
<1>9. ASSUME NEW r \in Requests, Cancel(r) PROVE Permits'
  BY <1>9, NobodyAssumption DEF Cancel, Release, HeadDone
<1>10. ASSUME NEW r \in Requests, PutSettled(r) PROVE Permits'
  BY <1>10 DEF PutSettled, Put
<1>11. ASSUME NEW r \in Requests, MarkPresent(r) PROVE Permits'
  BY <1>11, SweepFacts DEF MarkPresent
<1>12. ASSUME NEW h \in Hashes, UnseenPut(h) PROVE Permits'
  BY <1>12 DEF UnseenPut, Put
<1>13. ASSUME NEW h \in Hashes, Expire(h) PROVE Permits'
  BY <1>13 DEF Expire
<1>14. CASE Tick
  BY <1>14 DEF Tick
<1>15. CASE UNCHANGED vars
  BY <1>15 DEF vars
<1> QED
  BY <1>1, <1>2, <1>3, <1>4, <1>5, <1>6, <1>7, <1>8,
     <1>9, <1>10, <1>11, <1>12, <1>13, <1>14, <1>15 DEF Next

(* The base is inductive. *)
LEMMA InvStep == Inv /\ [Next]_vars => Inv'
BY TypeStep, FreshStep, SlotsMatchStep, TimesStep, PermitsStep DEF Inv

(* Every variable of the cache, the requests, the calls in flight and the  *)
(* bucket stays in the set that TypeOK gives it.                           *)
THEOREM TypeCorrect == Spec => []TypeOK
<1>1. Inv => TypeOK
  BY DEF Inv
<1> QED
  BY <1>1, InvInit, InvStep, PTL DEF Spec

-----------------------------------------------------------------------------
(* Single flight. *)

(* The map has a live slot for every hash with an open one. *)
LEMMA OpenIsLive ==
  ASSUME Inv, SingleFlight, NEW q \in Requests, Open(q)
  PROVE  /\ at[q] \in Requests
         /\ slots[hash[q]] \in Requests
         /\ Live(slots[hash[q]], now)
<1>1. at[q] \in Requests /\ hash[q] \in Hashes
  BY DEF Inv, TypeOK, Fresh, Open
<1>2. CASE slots[hash[q]] = at[q]
  BY <1>1, <1>2, LiveFacts DEF Inv, Open
<1>3. CASE MarkedOver(hash[q], at[q])
  <2>1. Young(slots[hash[q]])
    BY <1>1, <1>3, TimesAssumption DEF Inv, TypeOK, Open, Young, MarkedOver
  <2> QED
    BY <1>1, <1>3, <2>1, LiveFacts DEF Inv, MarkedOver
<1> QED
  BY <1>2, <1>3 DEF SingleFlight

(* While a slot is young and unset and somebody holds it, `slot` makes no  *)
(* second one for its hash: the slot is in the map and live, or a mark     *)
(* that outlives it is.                                                    *)
LEMMA SingleFlightStep ==
  ASSUME Inv, SingleFlight, [Next]_vars
  PROVE  SingleFlight'
<1> USE DEF Inv, TypeOK, Fresh, SlotsMatch, Times, Permits, SingleFlight, Active, Open, Young,
            MarkedOver
<1>1. ASSUME NEW r \in Requests, Slot(r) PROVE SingleFlight'
  <2>1. /\ pc[r] = "new" /\ pc' = [pc EXCEPT ![r] = "holding"]
        /\ entered' = [entered EXCEPT ![r] = now]
        /\ UNCHANGED <<present, permit, hash, led, now>>
    BY <1>1 DEF Slot
  <2>2. slots[hash[r]] \in Requests /\ Live(slots[hash[r]], now)
        /\ at' = [at EXCEPT ![r] = slots[hash[r]]] /\ slots' = slots
        => SingleFlight'
    BY <2>1, LiveFacts, NobodyAssumption
  <2>3. ASSUME ~(slots[hash[r]] \in Requests /\ Live(slots[hash[r]], now)),
               at' = [at EXCEPT ![r] = r],
               slots'[hash[r]] = r,
               \A h \in Hashes \ {hash[r]} :
                 /\ slots'[h] \in {slots[h], NoRequest}
                 /\ slots[h] \in Requests /\ Live(slots[h], now) => slots'[h] = slots[h]
        PROVE  SingleFlight'
    <3>1. \A q \in Requests \ {r} : Open(q)' => Open(q)
      BY <2>1, <2>3
    <3>2. \A q \in Requests \ {r} : Open(q) => hash[q] # hash[r] /\ slots'[hash[q]] = slots[hash[q]]
      BY <2>3, OpenIsLive
    <3> QED
      BY <2>1, <2>3, <3>1, <3>2, NobodyAssumption
  <2> QED
    BY <1>1, <2>2, <2>3, SlotFacts
<1>2. ASSUME NEW r \in Requests, ReadCell(r) PROVE SingleFlight'
  BY <1>2 DEF ReadCell
<1>3. ASSUME NEW r \in Requests, Enqueue(r) PROVE SingleFlight'
  BY <1>3 DEF Enqueue
<1>4. ASSUME NEW r \in Requests, Acquire(r) PROVE SingleFlight'
  BY <1>4 DEF Acquire, SendHead
<1>5. ASSUME NEW r \in Requests, Granted(r) PROVE SingleFlight'
  BY <1>5 DEF Granted, SendHead
<1>6. ASSUME NEW r \in Requests, HeadObject(r) PROVE SingleFlight'
  BY <1>6 DEF HeadObject
<1>7. ASSUME NEW r \in Requests, ProbeOk(r) PROVE SingleFlight'
  BY <1>7 DEF ProbeOk, HeadDone
<1>8. ASSUME NEW r \in Requests, ProbeErr(r) PROVE SingleFlight'
  BY <1>8 DEF ProbeErr, Release, HeadDone
<1>9. ASSUME NEW r \in Requests, Cancel(r) PROVE SingleFlight'
  BY <1>9 DEF Cancel, Release, HeadDone
<1>10. ASSUME NEW r \in Requests, PutSettled(r) PROVE SingleFlight'
  BY <1>10 DEF PutSettled, Put
<1>11. ASSUME NEW r \in Requests, MarkPresent(r) PROVE SingleFlight'
  <2>1. /\ pc[r] = "wrote" /\ pc' = [pc EXCEPT ![r] = "seeded"]
        /\ present' = [present EXCEPT ![r] = "present"]
        /\ entered' = [entered EXCEPT ![r] = now]
        /\ UNCHANGED <<permit, at, hash, led, now>>
    BY <1>11 DEF MarkPresent
  <2>2. /\ slots'[hash[r]] = r
        /\ \A h \in Hashes \ {hash[r]} :
             /\ slots'[h] \in {slots[h], NoRequest}
             /\ slots[h] \in Requests /\ Live(slots[h], now) => slots'[h] = slots[h]
    BY <1>11, MarkFacts
  <2> QED
    BY <2>1, <2>2, OpenIsLive, NobodyAssumption
<1>12. ASSUME NEW h \in Hashes, UnseenPut(h) PROVE SingleFlight'
  BY <1>12 DEF UnseenPut, Put
<1>13. ASSUME NEW h \in Hashes, Expire(h) PROVE SingleFlight'
  BY <1>13 DEF Expire
<1>14. CASE Tick
  BY <1>14, NobodyAssumption, TimesAssumption DEF Tick
<1>15. CASE UNCHANGED vars
  BY <1>15 DEF vars
<1> QED
  BY <1>1, <1>2, <1>3, <1>4, <1>5, <1>6, <1>7, <1>8,
     <1>9, <1>10, <1>11, <1>12, <1>13, <1>14, <1>15 DEF Next

(* At most one HeadObject per hash is in flight for slots younger than     *)
(* UNRESOLVED_TTL, for any number of requests, failures and cancellations. *)
THEOREM SingleFlightHolds == Spec => []YoungProbesAreUnique
<1>1. Init => SingleFlight
  BY DEF Init, SingleFlight, Open, Active
<1>2. Inv /\ SingleFlight => YoungProbesAreUnique
  BY DEF Inv, Permits, SingleFlight, Open, Active, YoungProbesAreUnique
<1> QED
  BY <1>1, <1>2, InvInit, InvStep, SingleFlightStep, PTL DEF Spec

-----------------------------------------------------------------------------
(* One probe per TTL. *)

(* Marks are never unset, and who probes found the cell unset. *)
LEMMA AllocatedStep ==
  ASSUME Inv, Allocated, Leaders, [Next]_vars
  PROVE  Allocated'
<1> USE DEF Inv, TypeOK, Fresh, SlotsMatch, Permits, Active, Allocated, Leaders
<1>1. ASSUME NEW r \in Requests, Slot(r) PROVE Allocated'
  <2>1. /\ pc[r] = "new" /\ pc' = [pc EXCEPT ![r] = "holding"]
        /\ entered' = [entered EXCEPT ![r] = now]
        /\ UNCHANGED <<present, permit, hash, led, now>>
    BY <1>1 DEF Slot
  <2>2. slots[hash[r]] \in Requests /\ Live(slots[hash[r]], now)
        /\ at' = [at EXCEPT ![r] = slots[hash[r]]] /\ slots' = slots
        => Allocated'
    BY <2>1, NobodyAssumption
  <2>3. ASSUME ~(slots[hash[r]] \in Requests /\ Live(slots[hash[r]], now)),
               at' = [at EXCEPT ![r] = r],
               slots'[hash[r]] = r,
               \A h \in Hashes \ {hash[r]} :
                 /\ slots'[h] \in {slots[h], NoRequest}
                 /\ slots[h] \in Requests /\ Live(slots[h], now) => slots'[h] = slots[h]
        PROVE  Allocated'
    BY <2>1, <2>3, NobodyAssumption
  <2> QED
    BY <1>1, <2>2, <2>3, SlotFacts
<1>2. ASSUME NEW r \in Requests, ReadCell(r) PROVE Allocated'
  BY <1>2 DEF ReadCell
<1>3. ASSUME NEW r \in Requests, Enqueue(r) PROVE Allocated'
  BY <1>3 DEF Enqueue
<1>4. ASSUME NEW r \in Requests, Acquire(r) PROVE Allocated'
  BY <1>4 DEF Acquire, SendHead
<1>5. ASSUME NEW r \in Requests, Granted(r) PROVE Allocated'
  BY <1>5, NobodyAssumption DEF Granted, SendHead
<1>6. ASSUME NEW r \in Requests, HeadObject(r) PROVE Allocated'
  BY <1>6 DEF HeadObject
<1>7. ASSUME NEW r \in Requests, ProbeOk(r) PROVE Allocated'
  BY <1>7 DEF ProbeOk, HeadDone
<1>8. ASSUME NEW r \in Requests, ProbeErr(r) PROVE Allocated'
  BY <1>8 DEF ProbeErr, Release, HeadDone
<1>9. ASSUME NEW r \in Requests, Cancel(r) PROVE Allocated'
  BY <1>9 DEF Cancel, Release, HeadDone
<1>10. ASSUME NEW r \in Requests, PutSettled(r) PROVE Allocated'
  BY <1>10 DEF PutSettled, Put
<1>11. ASSUME NEW r \in Requests, MarkPresent(r) PROVE Allocated'
  <2>1. /\ pc[r] = "wrote" /\ pc' = [pc EXCEPT ![r] = "seeded"]
        /\ present' = [present EXCEPT ![r] = "present"]
        /\ entered' = [entered EXCEPT ![r] = now]
        /\ UNCHANGED <<permit, at, hash, led, now>>
    BY <1>11 DEF MarkPresent
  <2>2. /\ slots'[hash[r]] = r
        /\ \A h \in Hashes \ {hash[r]} :
             /\ slots'[h] \in {slots[h], NoRequest}
             /\ slots[h] \in Requests /\ Live(slots[h], now) => slots'[h] = slots[h]
    BY <1>11, MarkFacts
  <2> QED
    BY <2>1, <2>2, NobodyAssumption
<1>12. ASSUME NEW h \in Hashes, UnseenPut(h) PROVE Allocated'
  BY <1>12 DEF UnseenPut, Put
<1>13. ASSUME NEW h \in Hashes, Expire(h) PROVE Allocated'
  BY <1>13 DEF Expire
<1>14. CASE Tick
  BY <1>14 DEF Tick
<1>15. CASE UNCHANGED vars
  BY <1>15 DEF vars
<1> QED
  BY <1>1, <1>2, <1>3, <1>4, <1>5, <1>6, <1>7, <1>8,
     <1>9, <1>10, <1>11, <1>12, <1>13, <1>14, <1>15 DEF Next

(* The permit goes on only while the cell is unset. *)
LEMMA LeadersStep ==
  ASSUME Inv, Leaders, [Next]_vars
  PROVE  Leaders'
<1> USE DEF Inv, TypeOK, Fresh, SlotsMatch, Permits, Active, Leaders, Leads
<1>1. ASSUME NEW r \in Requests, Slot(r) PROVE Leaders'
  BY <1>1, SlotFacts DEF Slot
<1>2. ASSUME NEW r \in Requests, ReadCell(r) PROVE Leaders'
  BY <1>2 DEF ReadCell
<1>3. ASSUME NEW r \in Requests, Enqueue(r) PROVE Leaders'
  BY <1>3 DEF Enqueue
<1>4. ASSUME NEW r \in Requests, Acquire(r) PROVE Leaders'
  BY <1>4, NobodyAssumption DEF Acquire, SendHead
<1>5. ASSUME NEW r \in Requests, Granted(r) PROVE Leaders'
  BY <1>5, NobodyAssumption DEF Granted, SendHead
<1>6. ASSUME NEW r \in Requests, HeadObject(r) PROVE Leaders'
  BY <1>6 DEF HeadObject
<1>7. ASSUME NEW r \in Requests, ProbeOk(r) PROVE Leaders'
  BY <1>7 DEF ProbeOk, HeadDone
<1>8. ASSUME NEW r \in Requests, ProbeErr(r) PROVE Leaders'
  BY <1>8 DEF ProbeErr, Release, HeadDone
<1>9. ASSUME NEW r \in Requests, Cancel(r) PROVE Leaders'
  BY <1>9 DEF Cancel, Release, HeadDone
<1>10. ASSUME NEW r \in Requests, PutSettled(r) PROVE Leaders'
  BY <1>10 DEF PutSettled, Put
<1>11. ASSUME NEW r \in Requests, MarkPresent(r) PROVE Leaders'
  BY <1>11 DEF MarkPresent
<1>12. ASSUME NEW h \in Hashes, UnseenPut(h) PROVE Leaders'
  BY <1>12 DEF UnseenPut, Put
<1>13. ASSUME NEW h \in Hashes, Expire(h) PROVE Leaders'
  BY <1>13 DEF Expire
<1>14. CASE Tick
  BY <1>14 DEF Tick
<1>15. CASE UNCHANGED vars
  BY <1>15 DEF vars
<1> QED
  BY <1>1, <1>2, <1>3, <1>4, <1>5, <1>6, <1>7, <1>8,
     <1>9, <1>10, <1>11, <1>12, <1>13, <1>14, <1>15 DEF Next

(* The shortest TTL is a positive number. *)
LEMMA ShortestNat == Shortest \in Nat \ {0}
BY TimesAssumption DEF Shortest

(* An entry younger than the shortest TTL is live, whatever it says. *)
LEMMA SpacingStep ==
  ASSUME Inv, Spacing, [Next]_vars
  PROVE  Spacing'
<1> USE DEF Inv, TypeOK, Fresh, SlotsMatch, Times, Spacing, Active
<1>1. ASSUME NEW r \in Requests, Slot(r) PROVE Spacing'
  <2>1. /\ pc[r] = "new" /\ pc' = [pc EXCEPT ![r] = "holding"]
        /\ entered' = [entered EXCEPT ![r] = now]
        /\ UNCHANGED <<present, permit, hash, led, now>>
    BY <1>1 DEF Slot
  <2>2. slots[hash[r]] \in Requests /\ Live(slots[hash[r]], now)
        /\ at' = [at EXCEPT ![r] = slots[hash[r]]] /\ slots' = slots
        => Spacing'
    BY <2>1, LiveFacts, ShortestNat, NobodyAssumption
  <2>3. ASSUME ~(slots[hash[r]] \in Requests /\ Live(slots[hash[r]], now)),
               at' = [at EXCEPT ![r] = r],
               slots'[hash[r]] = r,
               \A h \in Hashes \ {hash[r]} :
                 /\ slots'[h] \in {slots[h], NoRequest}
                 /\ slots[h] \in Requests /\ Live(slots[h], now) => slots'[h] = slots[h]
        PROVE  Spacing'
    BY <2>1, <2>3, LiveFacts, ShortestNat, NobodyAssumption, SMTT(30)
  <2> QED
    BY <1>1, <2>2, <2>3, SlotFacts
<1>2. ASSUME NEW r \in Requests, ReadCell(r) PROVE Spacing'
  BY <1>2 DEF ReadCell
<1>3. ASSUME NEW r \in Requests, Enqueue(r) PROVE Spacing'
  BY <1>3 DEF Enqueue
<1>4. ASSUME NEW r \in Requests, Acquire(r) PROVE Spacing'
  BY <1>4 DEF Acquire, SendHead
<1>5. ASSUME NEW r \in Requests, Granted(r) PROVE Spacing'
  BY <1>5 DEF Granted, SendHead
<1>6. ASSUME NEW r \in Requests, HeadObject(r) PROVE Spacing'
  BY <1>6 DEF HeadObject
<1>7. ASSUME NEW r \in Requests, ProbeOk(r) PROVE Spacing'
  BY <1>7 DEF ProbeOk, HeadDone
<1>8. ASSUME NEW r \in Requests, ProbeErr(r) PROVE Spacing'
  BY <1>8 DEF ProbeErr, Release, HeadDone
<1>9. ASSUME NEW r \in Requests, Cancel(r) PROVE Spacing'
  BY <1>9 DEF Cancel, Release, HeadDone
<1>10. ASSUME NEW r \in Requests, PutSettled(r) PROVE Spacing'
  BY <1>10 DEF PutSettled, Put
<1>11. ASSUME NEW r \in Requests, MarkPresent(r) PROVE Spacing'
  <2>1. /\ pc[r] = "wrote" /\ pc' = [pc EXCEPT ![r] = "seeded"]
        /\ present' = [present EXCEPT ![r] = "present"]
        /\ entered' = [entered EXCEPT ![r] = now]
        /\ UNCHANGED <<permit, at, hash, led, now>>
    BY <1>11 DEF MarkPresent
  <2>2. /\ slots'[hash[r]] = r
        /\ \A h \in Hashes \ {hash[r]} :
             /\ slots'[h] \in {slots[h], NoRequest}
             /\ slots[h] \in Requests /\ Live(slots[h], now) => slots'[h] = slots[h]
    BY <1>11, MarkFacts
  <2> QED
    BY <2>1, <2>2, LiveFacts, ShortestNat, NobodyAssumption
<1>12. ASSUME NEW h \in Hashes, UnseenPut(h) PROVE Spacing'
  BY <1>12 DEF UnseenPut, Put
<1>13. ASSUME NEW h \in Hashes, Expire(h) PROVE Spacing'
  BY <1>13 DEF Expire
<1>14. CASE Tick
  BY <1>14, ShortestNat DEF Tick
<1>15. CASE UNCHANGED vars
  BY <1>15 DEF vars
<1> QED
  BY <1>1, <1>2, <1>3, <1>4, <1>5, <1>6, <1>7, <1>8,
     <1>9, <1>10, <1>11, <1>12, <1>13, <1>14, <1>15 DEF Next

(* The HeadObjects of GETs for one key that are running or got a verdict   *)
(* belong to slots made at least the shortest TTL apart.                   *)
THEOREM ProbesAreSpaced == Spec => []OneProbePerTtl
<1>1. Init => Allocated /\ Leaders /\ Spacing
  BY NobodyAssumption DEF Init, Allocated, Leaders, Leads, Spacing
<1>2. Inv /\ Allocated /\ Leaders /\ Spacing => OneProbePerTtl
  BY DEF Inv, TypeOK, SlotsMatch, Allocated, Leaders, Leads, Spacing, OneProbePerTtl
<1> QED
  BY <1>1, <1>2, InvInit, InvStep, AllocatedStep, LeadersStep, SpacingStep, PTL DEF Spec

-----------------------------------------------------------------------------
(* Seed on write. *)

(* The slot that a seeded hash has in the map, and the slots of the GETs   *)
(* that came after the seed, stay free of "absent" while the object is     *)
(* stored: probes that join them now find the object.                      *)
LEMMA SeedsHoldStep ==
  ASSUME Inv, SeedsHold, [Next]_vars
  PROVE  SeedsHold'
<1> USE DEF Inv, TypeOK, Fresh, SlotsMatch, SeedsHold, Clean, Active
<1>1. ASSUME NEW r \in Requests, Slot(r) PROVE SeedsHold'
  BY <1>1, SweepFacts, NobodyAssumption, SMTT(30) DEF Slot
<1>2. ASSUME NEW r \in Requests, ReadCell(r) PROVE SeedsHold'
  BY <1>2 DEF ReadCell
<1>3. ASSUME NEW r \in Requests, Enqueue(r) PROVE SeedsHold'
  BY <1>3 DEF Enqueue
<1>4. ASSUME NEW r \in Requests, Acquire(r) PROVE SeedsHold'
  BY <1>4 DEF Acquire, SendHead
<1>5. ASSUME NEW r \in Requests, Granted(r) PROVE SeedsHold'
  BY <1>5 DEF Granted, SendHead
<1>6. ASSUME NEW r \in Requests, HeadObject(r) PROVE SeedsHold'
  BY <1>6 DEF HeadObject
<1>7. ASSUME NEW r \in Requests, ProbeOk(r) PROVE SeedsHold'
  BY <1>7 DEF ProbeOk, HeadDone
<1>8. ASSUME NEW r \in Requests, ProbeErr(r) PROVE SeedsHold'
  BY <1>8 DEF ProbeErr, Release, HeadDone
<1>9. ASSUME NEW r \in Requests, Cancel(r) PROVE SeedsHold'
  BY <1>9 DEF Cancel, Release, HeadDone
<1>10. ASSUME NEW r \in Requests, PutSettled(r) PROVE SeedsHold'
  BY <1>10 DEF PutSettled, Put
<1>11. ASSUME NEW r \in Requests, MarkPresent(r) PROVE SeedsHold'
  BY <1>11, SweepFacts, NobodyAssumption DEF MarkPresent
<1>12. ASSUME NEW h \in Hashes, UnseenPut(h) PROVE SeedsHold'
  BY <1>12 DEF UnseenPut, Put
<1>13. ASSUME NEW h \in Hashes, Expire(h) PROVE SeedsHold'
  BY <1>13 DEF Expire
<1>14. CASE Tick
  BY <1>14 DEF Tick
<1>15. CASE UNCHANGED vars
  BY <1>15 DEF vars
<1> QED
  BY <1>1, <1>2, <1>3, <1>4, <1>5, <1>6, <1>7, <1>8,
     <1>9, <1>10, <1>11, <1>12, <1>13, <1>14, <1>15 DEF Next

(* So none of those GETs is told "absent". *)
LEMMA ReadYourWritesStep ==
  ASSUME Inv, SeedsHold, ReadYourWrites, [Next]_vars
  PROVE  ReadYourWrites'
<1> USE DEF Inv, TypeOK, Fresh, SlotsMatch, SeedsHold, ReadYourWrites, Clean, Active
<1>1. ASSUME NEW r \in Requests, Slot(r) PROVE ReadYourWrites'
  BY <1>1, SweepFacts DEF Slot
<1>2. ASSUME NEW r \in Requests, ReadCell(r) PROVE ReadYourWrites'
  BY <1>2 DEF ReadCell
<1>3. ASSUME NEW r \in Requests, Enqueue(r) PROVE ReadYourWrites'
  BY <1>3 DEF Enqueue
<1>4. ASSUME NEW r \in Requests, Acquire(r) PROVE ReadYourWrites'
  BY <1>4 DEF Acquire, SendHead
<1>5. ASSUME NEW r \in Requests, Granted(r) PROVE ReadYourWrites'
  BY <1>5 DEF Granted, SendHead
<1>6. ASSUME NEW r \in Requests, HeadObject(r) PROVE ReadYourWrites'
  BY <1>6 DEF HeadObject
<1>7. ASSUME NEW r \in Requests, ProbeOk(r) PROVE ReadYourWrites'
  BY <1>7 DEF ProbeOk, HeadDone
<1>8. ASSUME NEW r \in Requests, ProbeErr(r) PROVE ReadYourWrites'
  BY <1>8 DEF ProbeErr, Release, HeadDone
<1>9. ASSUME NEW r \in Requests, Cancel(r) PROVE ReadYourWrites'
  BY <1>9 DEF Cancel, Release, HeadDone
<1>10. ASSUME NEW r \in Requests, PutSettled(r) PROVE ReadYourWrites'
  BY <1>10 DEF PutSettled, Put
<1>11. ASSUME NEW r \in Requests, MarkPresent(r) PROVE ReadYourWrites'
  BY <1>11, SweepFacts DEF MarkPresent
<1>12. ASSUME NEW h \in Hashes, UnseenPut(h) PROVE ReadYourWrites'
  BY <1>12 DEF UnseenPut, Put
<1>13. ASSUME NEW h \in Hashes, Expire(h) PROVE ReadYourWrites'
  BY <1>13 DEF Expire
<1>14. CASE Tick
  BY <1>14 DEF Tick
<1>15. CASE UNCHANGED vars
  BY <1>15 DEF vars
<1> QED
  BY <1>1, <1>2, <1>3, <1>4, <1>5, <1>6, <1>7, <1>8,
     <1>9, <1>10, <1>11, <1>12, <1>13, <1>14, <1>15 DEF Next

(* A GET that enters after this server marked a key present is not told    *)
(* "absent" while the object is stored.                                    *)
THEOREM SeededReadsHit == Spec => []ReadYourWrites
<1>1. Init => SeedsHold /\ ReadYourWrites
  BY DEF Init, SeedsHold, ReadYourWrites
<1> QED
  BY <1>1, InvInit, InvStep, SeedsHoldStep, ReadYourWritesStep, PTL DEF Spec

-----------------------------------------------------------------------------
(* The stale-404 window. *)

(* A verdict, a resolved slot and a request that joined the slot are each  *)
(* only so much older than the object they miss.                           *)
LEMMA MissesAgeStep ==
  ASSUME Inv, MissesAge, [Next]_vars
  PROVE  MissesAge'
<1> USE DEF Inv, TypeOK, Fresh, SlotsMatch, Times, MissesAge, Active, Window, Larger
<1>1. ASSUME NEW r \in Requests, Slot(r) PROVE MissesAge'
  BY <1>1, SweepFacts, NobodyAssumption, TimesAssumption
     DEF Slot, Live, Ttl, Outcome
<1>2. ASSUME NEW r \in Requests, ReadCell(r) PROVE MissesAge'
  BY <1>2 DEF ReadCell
<1>3. ASSUME NEW r \in Requests, Enqueue(r) PROVE MissesAge'
  BY <1>3 DEF Enqueue
<1>4. ASSUME NEW r \in Requests, Acquire(r) PROVE MissesAge'
  BY <1>4 DEF Acquire, SendHead
<1>5. ASSUME NEW r \in Requests, Granted(r) PROVE MissesAge'
  BY <1>5 DEF Granted, SendHead
<1>6. ASSUME NEW r \in Requests, HeadObject(r) PROVE MissesAge'
  BY <1>6 DEF HeadObject
<1>7. ASSUME NEW r \in Requests, ProbeOk(r) PROVE MissesAge'
  BY <1>7, NobodyAssumption, TimesAssumption DEF ProbeOk, HeadDone
<1>8. ASSUME NEW r \in Requests, ProbeErr(r) PROVE MissesAge'
  BY <1>8 DEF ProbeErr, Release, HeadDone
<1>9. ASSUME NEW r \in Requests, Cancel(r) PROVE MissesAge'
  BY <1>9 DEF Cancel, Release, HeadDone
<1>10. ASSUME NEW r \in Requests, PutSettled(r) PROVE MissesAge'
  BY <1>10, NobodyAssumption, TimesAssumption DEF PutSettled, Put
<1>11. ASSUME NEW r \in Requests, MarkPresent(r) PROVE MissesAge'
  BY <1>11, SweepFacts DEF MarkPresent
<1>12. ASSUME NEW h \in Hashes, UnseenPut(h) PROVE MissesAge'
  BY <1>12, NobodyAssumption, TimesAssumption DEF UnseenPut, Put
<1>13. ASSUME NEW h \in Hashes, Expire(h) PROVE MissesAge'
  BY <1>13 DEF Expire
<1>14. CASE Tick
  BY <1>14 DEF Tick
<1>15. CASE UNCHANGED vars
  BY <1>15 DEF vars
<1> QED
  BY <1>1, <1>2, <1>3, <1>4, <1>5, <1>6, <1>7, <1>8,
     <1>9, <1>10, <1>11, <1>12, <1>13, <1>14, <1>15 DEF Next

(* And so are the answers. *)
LEMMA StaleMissStep ==
  ASSUME Inv, MissesAge, StaleMissBound, [Next]_vars
  PROVE  StaleMissBound'
<1> USE DEF Inv, TypeOK, Fresh, SlotsMatch, Times, MissesAge, StaleMissBound, Active, Window,
            Larger
<1>1. ASSUME NEW r \in Requests, Slot(r) PROVE StaleMissBound'
  BY <1>1, SweepFacts DEF Slot
<1>2. ASSUME NEW r \in Requests, ReadCell(r) PROVE StaleMissBound'
  BY <1>2 DEF ReadCell
<1>3. ASSUME NEW r \in Requests, Enqueue(r) PROVE StaleMissBound'
  BY <1>3 DEF Enqueue
<1>4. ASSUME NEW r \in Requests, Acquire(r) PROVE StaleMissBound'
  BY <1>4 DEF Acquire, SendHead
<1>5. ASSUME NEW r \in Requests, Granted(r) PROVE StaleMissBound'
  BY <1>5 DEF Granted, SendHead
<1>6. ASSUME NEW r \in Requests, HeadObject(r) PROVE StaleMissBound'
  BY <1>6 DEF HeadObject
<1>7. ASSUME NEW r \in Requests, ProbeOk(r) PROVE StaleMissBound'
  BY <1>7, NobodyAssumption, TimesAssumption DEF ProbeOk, HeadDone
<1>8. ASSUME NEW r \in Requests, ProbeErr(r) PROVE StaleMissBound'
  BY <1>8 DEF ProbeErr, Release, HeadDone
<1>9. ASSUME NEW r \in Requests, Cancel(r) PROVE StaleMissBound'
  BY <1>9 DEF Cancel, Release, HeadDone
<1>10. ASSUME NEW r \in Requests, PutSettled(r) PROVE StaleMissBound'
  BY <1>10, NobodyAssumption, TimesAssumption DEF PutSettled, Put
<1>11. ASSUME NEW r \in Requests, MarkPresent(r) PROVE StaleMissBound'
  BY <1>11, SweepFacts DEF MarkPresent
<1>12. ASSUME NEW h \in Hashes, UnseenPut(h) PROVE StaleMissBound'
  BY <1>12, NobodyAssumption, TimesAssumption DEF UnseenPut, Put
<1>13. ASSUME NEW h \in Hashes, Expire(h) PROVE StaleMissBound'
  BY <1>13 DEF Expire
<1>14. CASE Tick
  BY <1>14 DEF Tick
<1>15. CASE UNCHANGED vars
  BY <1>15 DEF vars
<1> QED
  BY <1>1, <1>2, <1>3, <1>4, <1>5, <1>6, <1>7, <1>8,
     <1>9, <1>10, <1>11, <1>12, <1>13, <1>14, <1>15 DEF Next

(* A GET that misses a stored object entered within NEGATIVE_TTL, or one   *)
(* attempt timeout, of the moment the object was stored.                   *)
THEOREM StaleMissesAreBounded == Spec => []StaleMissBound
<1>1. Init => MissesAge /\ StaleMissBound
  BY DEF Init, MissesAge, StaleMissBound, Active
<1> QED
  BY <1>1, InvInit, InvStep, MissesAgeStep, StaleMissStep, PTL DEF Spec

-----------------------------------------------------------------------------
(* Nobody waits for a cell that no one will set. *)

(* Whoever drops a permit hands it to a waiter, or there is none. *)
LEMMA HoldersStep ==
  ASSUME Inv, Holders, [Next]_vars
  PROVE  Holders'
<1> USE DEF Inv, TypeOK, Fresh, SlotsMatch, Permits, Holders, Active
<1>1. ASSUME NEW r \in Requests, Slot(r) PROVE Holders'
  BY <1>1, SweepFacts DEF Slot
<1>2. ASSUME NEW r \in Requests, ReadCell(r) PROVE Holders'
  BY <1>2, NobodyAssumption DEF ReadCell
<1>3. ASSUME NEW r \in Requests, Enqueue(r) PROVE Holders'
  BY <1>3 DEF Enqueue
<1>4. ASSUME NEW r \in Requests, Acquire(r) PROVE Holders'
  BY <1>4 DEF Acquire, SendHead
<1>5. ASSUME NEW r \in Requests, Granted(r) PROVE Holders'
  BY <1>5 DEF Granted, SendHead
<1>6. ASSUME NEW r \in Requests, HeadObject(r) PROVE Holders'
  BY <1>6 DEF HeadObject
<1>7. ASSUME NEW r \in Requests, ProbeOk(r) PROVE Holders'
  BY <1>7, NobodyAssumption DEF ProbeOk, HeadDone
<1>8. ASSUME NEW r \in Requests, ProbeErr(r) PROVE Holders'
  BY <1>8, NobodyAssumption DEF ProbeErr, Release, HeadDone
<1>9. ASSUME NEW r \in Requests, Cancel(r) PROVE Holders'
  BY <1>9, NobodyAssumption DEF Cancel, Release, HeadDone
<1>10. ASSUME NEW r \in Requests, PutSettled(r) PROVE Holders'
  BY <1>10 DEF PutSettled, Put
<1>11. ASSUME NEW r \in Requests, MarkPresent(r) PROVE Holders'
  BY <1>11, SweepFacts DEF MarkPresent
<1>12. ASSUME NEW h \in Hashes, UnseenPut(h) PROVE Holders'
  BY <1>12 DEF UnseenPut, Put
<1>13. ASSUME NEW h \in Hashes, Expire(h) PROVE Holders'
  BY <1>13 DEF Expire
<1>14. CASE Tick
  BY <1>14 DEF Tick
<1>15. CASE UNCHANGED vars
  BY <1>15 DEF vars
<1> QED
  BY <1>1, <1>2, <1>3, <1>4, <1>5, <1>6, <1>7, <1>8,
     <1>9, <1>10, <1>11, <1>12, <1>13, <1>14, <1>15 DEF Next

(* A waiter on an unset cell always has a permit holder to wait for.       *)
THEOREM WaitersAreNotStranded == Spec => []NoStrandedWaiter
<1>1. Init => Holders
  BY NobodyAssumption DEF Init, Holders
<1>2. Inv /\ Holders => NoStrandedWaiter
  BY DEF Inv, Fresh, Active, Holders, NoStrandedWaiter
<1> QED
  BY <1>1, <1>2, InvInit, InvStep, HoldersStep, PTL DEF Spec

-----------------------------------------------------------------------------
(* The map. *)

(* Only `slot` on a dead entry, `sweep` and `mark_present` change entries. *)
LEMMA KeepsLiveSlotsStep ==
  ASSUME Inv, [Next]_vars
  PROVE  KeepsLiveSlots \/ UNCHANGED vars
<1> USE DEF Inv, TypeOK, KeepsLiveSlots
<1>1. ASSUME NEW r \in Requests, Slot(r) PROVE KeepsLiveSlots \/ UNCHANGED vars
  BY <1>1, SweepFacts, NobodyAssumption DEF Slot
<1>2. ASSUME NEW r \in Requests, ReadCell(r) PROVE KeepsLiveSlots \/ UNCHANGED vars
  BY <1>2 DEF ReadCell
<1>3. ASSUME NEW r \in Requests, Enqueue(r) PROVE KeepsLiveSlots \/ UNCHANGED vars
  BY <1>3 DEF Enqueue
<1>4. ASSUME NEW r \in Requests, Acquire(r) PROVE KeepsLiveSlots \/ UNCHANGED vars
  BY <1>4 DEF Acquire, SendHead
<1>5. ASSUME NEW r \in Requests, Granted(r) PROVE KeepsLiveSlots \/ UNCHANGED vars
  BY <1>5 DEF Granted, SendHead
<1>6. ASSUME NEW r \in Requests, HeadObject(r) PROVE KeepsLiveSlots \/ UNCHANGED vars
  BY <1>6 DEF HeadObject
<1>7. ASSUME NEW r \in Requests, ProbeOk(r) PROVE KeepsLiveSlots \/ UNCHANGED vars
  BY <1>7 DEF ProbeOk, HeadDone
<1>8. ASSUME NEW r \in Requests, ProbeErr(r) PROVE KeepsLiveSlots \/ UNCHANGED vars
  BY <1>8 DEF ProbeErr, Release, HeadDone
<1>9. ASSUME NEW r \in Requests, Cancel(r) PROVE KeepsLiveSlots \/ UNCHANGED vars
  BY <1>9 DEF Cancel, Release, HeadDone
<1>10. ASSUME NEW r \in Requests, PutSettled(r) PROVE KeepsLiveSlots \/ UNCHANGED vars
  BY <1>10 DEF PutSettled, Put
<1>11. ASSUME NEW r \in Requests, MarkPresent(r) PROVE KeepsLiveSlots \/ UNCHANGED vars
  BY <1>11, SweepFacts DEF MarkPresent
<1>12. ASSUME NEW h \in Hashes, UnseenPut(h) PROVE KeepsLiveSlots \/ UNCHANGED vars
  BY <1>12 DEF UnseenPut, Put
<1>13. ASSUME NEW h \in Hashes, Expire(h) PROVE KeepsLiveSlots \/ UNCHANGED vars
  BY <1>13 DEF Expire
<1>14. CASE Tick
  BY <1>14 DEF Tick
<1>15. CASE UNCHANGED vars
  BY <1>15 DEF vars
<1> QED
  BY <1>1, <1>2, <1>3, <1>4, <1>5, <1>6, <1>7, <1>8,
     <1>9, <1>10, <1>11, <1>12, <1>13, <1>14, <1>15 DEF Next

(* The entry of a hash is replaced while it is live only by a mark.        *)
THEOREM LiveSlotsAreKept == Spec => LiveSlotsStay
<1>1. Inv /\ [Next]_vars => [KeepsLiveSlots]_vars
  BY KeepsLiveSlotsStep
<1> QED
  BY <1>1, InvInit, InvStep, PTL DEF Spec, LiveSlotsStay

(* One more element is at most one more.                                   *)
LEMMA OneMore ==
  ASSUME NEW A, NEW x, IsFiniteSet(A)
  PROVE  /\ IsFiniteSet(A \cup {x})
         /\ Cardinality(A) \in Nat
         /\ Cardinality(A \cup {x}) <= Cardinality(A) + 1
<1>1. Cardinality(A) \in Nat
  BY FS_CardinalityType, Zenon
<1>2. /\ IsFiniteSet(A \cup {x})
      /\ Cardinality(A \cup {x}) = IF x \in A THEN Cardinality(A) ELSE Cardinality(A) + 1
  BY FS_AddElement, Zenon
<1> QED
  BY <1>1, <1>2

(* An insertion by request r at time `now`, as both `slot` and             *)
(* `mark_present` make it, keeps the map finite and its entries together.  *)
LEMMA InsertionKeepsSwept ==
  ASSUME Inv, Swept, NEW r \in Requests,
         pc[r] \in {"new", "wrote"},
         slots' = [Sweep(now) EXCEPT ![hash[r]] = r],
         entered' = [entered EXCEPT ![r] = now]
  PROVE  Swept'
<1> USE DEF Inv, TypeOK
<1> DEFINE S == Occupied \cup {hash[r]}
<1>1. Occupied' \subseteq S
  BY SweepFacts, NobodyAssumption DEF Occupied
<1>2. /\ IsFiniteSet(S)
      /\ Cardinality(Occupied) \in Nat
      /\ Cardinality(S) <= Cardinality(Occupied) + 1
  BY OneMore DEF Swept
<1>3. IsFiniteSet(Occupied') /\ Cardinality(Occupied') <= Cardinality(S)
  BY <1>1, <1>2, FS_Subset
<1>4. Cardinality(Occupied') \in Nat /\ Cardinality(S) \in Nat
  BY <1>2, <1>3, FS_CardinalityType, Zenon
<1>5. ASSUME Cardinality(Occupied') > SWEEP_THRESHOLD + 1,
             NEW g \in Occupied', NEW h \in Occupied'
      PROVE  entered'[slots'[g]] < entered'[slots'[h]] + POSITIVE_TTL
  <2>1. Cardinality(Occupied) > SWEEP_THRESHOLD
    BY <1>2, <1>3, <1>4, <1>5, TimesAssumption
  <2>2. ASSUME NEW k \in Occupied'
        PROVE  /\ entered'[slots'[k]] \in Nat
               /\ entered'[slots'[k]] <= now
               /\ now < entered'[slots'[k]] + POSITIVE_TTL
    <3>1. CASE slots'[k] = r
      BY <3>1, TimesAssumption
    <3>2. CASE slots'[k] # r
      BY <2>1, <2>2, <3>2, TimesAssumption, TTLAssumption, NobodyAssumption
         DEF Occupied, Sweep, Live, Ttl, Outcome, Times
    <3> QED
      BY <3>1, <3>2
  <2> QED
    BY <2>2, <1>5, TimesAssumption
<1> QED
  BY <1>3, <1>5 DEF Swept, SweptSpread

(* Nothing else moves an entry or its time stamp. *)
LEMMA StillKeepsSwept ==
  ASSUME Inv, Swept, slots' = slots,
         \A s \in Requests : pc[s] \notin {"new", "wrote"} => entered'[s] = entered[s]
  PROVE  Swept'
BY NobodyAssumption DEF Inv, TypeOK, SlotsMatch, Swept, SweptSpread, Occupied

(* So the two insertions are the actions to look at. *)
LEMMA SweptStep ==
  ASSUME Inv, Swept, [Next]_vars
  PROVE  Swept'
<1> USE DEF Inv, TypeOK
<1>1. ASSUME NEW r \in Requests, Slot(r) PROVE Swept'
  <2>1. CASE slots' = slots
    BY <1>1, <2>1, StillKeepsSwept DEF Slot
  <2>2. CASE slots' = [Sweep(now) EXCEPT ![hash[r]] = r]
    BY <1>1, <2>2, InsertionKeepsSwept DEF Slot
  <2> QED
    BY <1>1, <2>1, <2>2 DEF Slot
<1>2. ASSUME NEW r \in Requests, ReadCell(r) PROVE Swept'
  BY <1>2, StillKeepsSwept DEF ReadCell
<1>3. ASSUME NEW r \in Requests, Enqueue(r) PROVE Swept'
  BY <1>3, StillKeepsSwept DEF Enqueue
<1>4. ASSUME NEW r \in Requests, Acquire(r) PROVE Swept'
  BY <1>4, StillKeepsSwept DEF Acquire, SendHead
<1>5. ASSUME NEW r \in Requests, Granted(r) PROVE Swept'
  BY <1>5, StillKeepsSwept DEF Granted, SendHead
<1>6. ASSUME NEW r \in Requests, HeadObject(r) PROVE Swept'
  BY <1>6, StillKeepsSwept DEF HeadObject
<1>7. ASSUME NEW r \in Requests, ProbeOk(r) PROVE Swept'
  BY <1>7, StillKeepsSwept DEF ProbeOk, HeadDone
<1>8. ASSUME NEW r \in Requests, ProbeErr(r) PROVE Swept'
  BY <1>8, StillKeepsSwept DEF ProbeErr, Release, HeadDone
<1>9. ASSUME NEW r \in Requests, Cancel(r) PROVE Swept'
  BY <1>9, StillKeepsSwept DEF Cancel, Release, HeadDone
<1>10. ASSUME NEW r \in Requests, PutSettled(r) PROVE Swept'
  BY <1>10, StillKeepsSwept DEF PutSettled, Put
<1>11. ASSUME NEW r \in Requests, MarkPresent(r) PROVE Swept'
  BY <1>11, InsertionKeepsSwept DEF MarkPresent
<1>12. ASSUME NEW h \in Hashes, UnseenPut(h) PROVE Swept'
  BY <1>12, StillKeepsSwept DEF UnseenPut, Put
<1>13. ASSUME NEW h \in Hashes, Expire(h) PROVE Swept'
  BY <1>13, StillKeepsSwept DEF Expire
<1>14. CASE Tick
  BY <1>14, StillKeepsSwept DEF Tick
<1>15. CASE UNCHANGED vars
  BY <1>15, StillKeepsSwept DEF vars
<1> QED
  BY <1>1, <1>2, <1>3, <1>4, <1>5, <1>6, <1>7, <1>8,
     <1>9, <1>10, <1>11, <1>12, <1>13, <1>14, <1>15 DEF Next

(* A map with more than one entry above the cap holds only entries from    *)
(* within one POSITIVE_TTL of each other.                                  *)
THEOREM MapIsBounded == Spec => []SweptSpread
<1>1. Init => Swept
  <2>1. Init => Occupied = {}
    BY DEF Init, Occupied
  <2>2. Cardinality({}) = 0 /\ IsFiniteSet({})
    BY FS_EmptySet
  <2> QED
    BY <2>1, <2>2, TimesAssumption DEF Swept, SweptSpread
<1>2. Swept => SweptSpread
  BY DEF Swept
<1> QED
  BY <1>1, <1>2, InvInit, InvStep, SweptStep, PTL DEF Spec
=============================================================================
