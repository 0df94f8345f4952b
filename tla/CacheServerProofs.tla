------------------------- MODULE CacheServerProofs --------------------------
(***************************************************************************)
(* Proofs about CacheServer, on top of what ProbeCacheProofs shows of the  *)
(* cache: every step of the server is a step of ProbeCache or none, so the *)
(* cache's invariants hold here too.                                       *)
(***************************************************************************)
EXTENDS CacheServer, ProbeCacheProofs

USE DEF handlerVars, faultVars, cacheVars, requestVars, headVars, storageVars, observerVars

-----------------------------------------------------------------------------
(* The inductive invariant, in parts. *)

(* Where a handler is tells where its call of the cache is.                *)
PutsFollow ==
  \A p \in Puts :
    /\ pc[p] \in {"new", "wrote", "seeded"}
    /\ stage[p] \notin GetStages
    /\ stage[p] \in {"none", "checking", "storing", "declining"} => pc[p] = "new" /\ p \notin kept
    /\ stage[p] = "draining" => pc[p] = "seeded"
    /\ stage[p] = "answered" /\ p \in kept => pc[p] = "seeded"
    /\ status[p] # 404
    /\ p \notin due

GetsFollow ==
  \A r \in Requests \ Puts :
    /\ stage[r] \notin PutStages
    /\ stage[r] = "none" <=> pc[r] = "new"
    /\ pc[r] # "wrote"
    /\ stage[r] = "none" => status[r] = 0
    /\ r \notin kept

(* A PUT that learnt of its object finds it there, and its mark with it.   *)
KeptHold ==
  \A p \in kept :
    /\ stored[hash[p]]
    /\ pc[p] = "seeded" => hash[p] \in seeded

Handlers == ServerTypeOK /\ PutsFollow /\ GetsFollow /\ KeptHold

(* What the cache owes, in one part.                                       *)
CacheInv == Inv /\ SeedsHold /\ ReadYourWrites /\ MissesAge /\ StaleMissBound

-----------------------------------------------------------------------------
(* The server drives the cache as ProbeCache says it may be driven.        *)
LEMMA ServerImplementsCache == [ServerNext]_serverVars => [Next]_vars
BY DEF ServerNext, serverVars, vars, Next, Get, GetAnswered, GetProbeFails, Retrieve, Stream,
       PutReceived, ExistsYes, ExistsNo, Conflict, Drained, Stored, Created, StoreFails,
       Dropped, Unseen, Deleted

(* So whatever is invariant of the cache stays invariant here.             *)
LEMMA CacheInvStep == CacheInv /\ [ServerNext]_serverVars => CacheInv'
BY ServerImplementsCache, InvStep, SeedsHoldStep, ReadYourWritesStep, MissesAgeStep,
   StaleMissStep DEF CacheInv

LEMMA CacheInvInit == ServerInit => CacheInv
BY InvInit DEF ServerInit, Init, CacheInv, SeedsHold, ReadYourWrites, MissesAge,
               StaleMissBound, Active

(* Handlers, other tasks and deletions together do to the cache only what  *)
(* its specification allows: seen through the variables of ProbeCache, a   *)
(* server is a cache.                                                      *)
THEOREM ServerIsACache == ServerSpec => Init /\ [][Next]_vars
<1>1. ServerInit => Init
  BY DEF ServerInit
<1> QED
  BY <1>1, ServerImplementsCache, PTL DEF ServerSpec

(* What the steps that no handler sees may change.                         *)
LEMMA UnseenFacts ==
  ASSUME Inv, Unseen
  PROVE  /\ UNCHANGED <<handlerVars, faultVars, hash, entered, answer, seeded, owed>>
         /\ pc' \in [Requests -> Places]
         /\ \A r \in Requests : pc'[r] # pc[r] => Active(r) /\ pc'[r] \in {"waiting", "probing"}
         /\ \A h \in Hashes :
              \/ stored'[h] = stored[h] /\ storedAt'[h] = storedAt[h]
              \/ ~stored[h] /\ storedAt'[h] = now
<1> USE DEF Inv, TypeOK, Active, Places, Ended
<1>1. ASSUME NEW r \in Requests, Enqueue(r) \/ Acquire(r) \/ Granted(r) \/ HeadObject(r)
      PROVE  /\ UNCHANGED <<hash, entered, answer, seeded, owed, stored, storedAt>>
             /\ pc' \in [Requests -> Places]
             /\ \A q \in Requests :
                  pc'[q] # pc[q] => Active(q) /\ pc'[q] \in {"waiting", "probing"}
  BY <1>1 DEF Enqueue, Acquire, Granted, SendHead, HeadObject
<1>2. ASSUME NEW h \in Hashes, UnseenPut(h)
      PROVE  /\ UNCHANGED <<hash, entered, answer, seeded, owed, pc>>
             /\ \A g \in Hashes :
                  \/ stored'[g] = stored[g] /\ storedAt'[g] = storedAt[g]
                  \/ ~stored[g] /\ storedAt'[g] = now
  BY <1>2 DEF UnseenPut, Put
<1>3. Tick => UNCHANGED <<hash, entered, answer, seeded, owed, pc, stored, storedAt>>
  BY DEF Tick
<1>4. UNCHANGED <<handlerVars, faultVars>>
  BY DEF Unseen
<1> QED
  BY <1>1, <1>2, <1>3, <1>4 DEF Unseen

(* Every action keeps the handlers' variables in their sets.               *)
LEMMA ServerTypeStep ==
  ASSUME Inv, ServerTypeOK, [ServerNext]_serverVars
  PROVE  ServerTypeOK'
<1> USE DEF Inv, TypeOK, ServerTypeOK, GetStages, PutStages
<1>1. ASSUME NEW r \in Requests, Get(r) PROVE ServerTypeOK'
  BY <1>1 DEF Get, Slot, Go
<1>2. ASSUME NEW r \in Requests, GetAnswered(r) PROVE ServerTypeOK'
  BY <1>2 DEF GetAnswered, ReadCell, ProbeOk, HeadDone, Resolve, Go, Reply
<1>3. ASSUME NEW r \in Requests, GetProbeFails(r) PROVE ServerTypeOK'
  BY <1>3 DEF GetProbeFails, ProbeErr, HeadDone, Resolve, Go, Reply
<1>4. ASSUME NEW r \in Requests, Retrieve(r) PROVE ServerTypeOK'
  BY <1>4 DEF Retrieve, Reply, vars
<1>5. ASSUME NEW r \in Requests, Stream(r) PROVE ServerTypeOK'
  BY <1>5 DEF Stream, Go, vars
<1>6. ASSUME NEW r \in Requests, PutReceived(r) PROVE ServerTypeOK'
  BY <1>6 DEF PutReceived, Go, vars
<1>7. ASSUME NEW r \in Requests, ExistsYes(r) PROVE ServerTypeOK'
  BY <1>7 DEF ExistsYes, PutSettled, Put, Go
<1>8. ASSUME NEW r \in Requests, ExistsNo(r) PROVE ServerTypeOK'
  BY <1>8 DEF ExistsNo, Go, vars
<1>9. ASSUME NEW r \in Requests, Conflict(r) PROVE ServerTypeOK'
  BY <1>9 DEF Conflict, MarkPresent, Go
<1>10. ASSUME NEW r \in Requests, Drained(r) PROVE ServerTypeOK'
  BY <1>10 DEF Drained, Reply, vars
<1>11. ASSUME NEW r \in Requests, Stored(r) PROVE ServerTypeOK'
  BY <1>11 DEF Stored, PutSettled, Put, Go
<1>12. ASSUME NEW r \in Requests, Created(r) PROVE ServerTypeOK'
  BY <1>12 DEF Created, MarkPresent, Reply
<1>13. ASSUME NEW r \in Requests, StoreFails(r) PROVE ServerTypeOK'
  BY <1>13 DEF StoreFails, Go, Reply, vars
<1>14. ASSUME NEW r \in Requests, Dropped(r) PROVE ServerTypeOK'
  BY <1>14 DEF Dropped, Cancel, HeadDone, Go, vars
<1>15. CASE Unseen
  BY <1>15, UnseenFacts
<1>16. ASSUME NEW h \in Hashes, Deleted(h) PROVE ServerTypeOK'
  BY <1>16 DEF Deleted, Expire
<1>17. CASE UNCHANGED serverVars
  BY <1>17 DEF serverVars, vars
<1> QED
  BY <1>1, <1>2, <1>3, <1>4, <1>5, <1>6, <1>7, <1>8, <1>9,
     <1>10, <1>11, <1>12, <1>13, <1>14, <1>15, <1>16, <1>17 DEF ServerNext

(* A handler and its call of the cache move together.                      *)
LEMMA FollowStep ==
  ASSUME Inv, ServerTypeOK, PutsFollow, GetsFollow, [ServerNext]_serverVars
  PROVE  PutsFollow' /\ GetsFollow'
<1> USE DEF Inv, TypeOK, Active, ServerTypeOK, PutsFollow, GetsFollow, GetStages, PutStages
<1>1. ASSUME NEW r \in Requests, Get(r) PROVE PutsFollow' /\ GetsFollow'
  BY <1>1, PutsAssumption DEF Get, Slot, Go
<1>2. ASSUME NEW r \in Requests, GetAnswered(r) PROVE PutsFollow' /\ GetsFollow'
  BY <1>2, PutsAssumption DEF GetAnswered, ReadCell, ProbeOk, HeadDone, Resolve, Go, Reply
<1>3. ASSUME NEW r \in Requests, GetProbeFails(r) PROVE PutsFollow' /\ GetsFollow'
  BY <1>3, PutsAssumption DEF GetProbeFails, ProbeErr, HeadDone, Resolve, Go, Reply
<1>4. ASSUME NEW r \in Requests, Retrieve(r) PROVE PutsFollow' /\ GetsFollow'
  BY <1>4, PutsAssumption DEF Retrieve, Reply, vars
<1>5. ASSUME NEW r \in Requests, Stream(r) PROVE PutsFollow' /\ GetsFollow'
  BY <1>5, PutsAssumption DEF Stream, Go, vars
<1>6. ASSUME NEW r \in Requests, PutReceived(r) PROVE PutsFollow' /\ GetsFollow'
  BY <1>6 DEF PutReceived, Go, vars
<1>7. ASSUME NEW r \in Requests, ExistsYes(r) PROVE PutsFollow' /\ GetsFollow'
  BY <1>7 DEF ExistsYes, PutSettled, Put, Go
<1>8. ASSUME NEW r \in Requests, ExistsNo(r) PROVE PutsFollow' /\ GetsFollow'
  BY <1>8 DEF ExistsNo, Go, vars
<1>9. ASSUME NEW r \in Requests, Conflict(r) PROVE PutsFollow' /\ GetsFollow'
  BY <1>9 DEF Conflict, MarkPresent, Go
<1>10. ASSUME NEW r \in Requests, Drained(r) PROVE PutsFollow' /\ GetsFollow'
  <2>1. r \in Puts /\ (stage[r] = "declining" => r \notin kept)
    BY <1>10 DEF Drained
  <2>2. \E code \in {409, 403} : Reply(r, code, "answered")
    BY <1>10 DEF Drained
  <2> QED
    BY <1>10, <2>1, <2>2 DEF Drained, Reply, vars
<1>11. ASSUME NEW r \in Requests, Stored(r) PROVE PutsFollow' /\ GetsFollow'
  BY <1>11 DEF Stored, PutSettled, Put, Go
<1>12. ASSUME NEW r \in Requests, Created(r) PROVE PutsFollow' /\ GetsFollow'
  BY <1>12 DEF Created, MarkPresent, Reply
<1>13. ASSUME NEW r \in Requests, StoreFails(r) PROVE PutsFollow' /\ GetsFollow'
  <2>1. r \in Puts /\ pc[r] = "new" /\ r \notin kept
    BY <1>13 DEF StoreFails
  <2>2. UNCHANGED <<pc, kept, due>>
    BY <1>13 DEF StoreFails, vars
  <2>3. CASE Reply(r, 400, "answered")
    BY <2>1, <2>2, <2>3 DEF Reply
  <2>4. CASE Go(r, "declining")
    BY <2>1, <2>2, <2>4 DEF Go
  <2> QED
    BY <1>13, <2>3, <2>4 DEF StoreFails
<1>14. ASSUME NEW r \in Requests, Dropped(r) PROVE PutsFollow' /\ GetsFollow'
  BY <1>14, PutsAssumption DEF Dropped, Cancel, HeadDone, Go, vars
<1>15. CASE Unseen
  BY <1>15, UnseenFacts, PutsAssumption
<1>16. ASSUME NEW h \in Hashes, Deleted(h) PROVE PutsFollow' /\ GetsFollow'
  BY <1>16 DEF Deleted, Expire
<1>17. CASE UNCHANGED serverVars
  BY <1>17 DEF serverVars, vars
<1> QED
  BY <1>1, <1>2, <1>3, <1>4, <1>5, <1>6, <1>7, <1>8, <1>9,
     <1>10, <1>11, <1>12, <1>13, <1>14, <1>15, <1>16, <1>17 DEF ServerNext

(* An object that a PUT learnt of leaves only together with the claim.     *)
LEMMA KeptStep ==
  ASSUME CacheInv, Handlers, [ServerNext]_serverVars
  PROVE  KeptHold'
<1> USE DEF CacheInv, Inv, TypeOK, Active, Handlers, ServerTypeOK, PutsFollow, GetsFollow,
            KeptHold, GetStages, PutStages
<1>1. ASSUME NEW r \in Requests, Get(r) PROVE KeptHold'
  BY <1>1 DEF Get, Slot, Go
<1>2. ASSUME NEW r \in Requests, GetAnswered(r) PROVE KeptHold'
  BY <1>2 DEF GetAnswered, ReadCell, ProbeOk, HeadDone, Resolve, Go, Reply
<1>3. ASSUME NEW r \in Requests, GetProbeFails(r) PROVE KeptHold'
  BY <1>3 DEF GetProbeFails, ProbeErr, HeadDone, Resolve, Go, Reply
<1>4. ASSUME NEW r \in Requests, Retrieve(r) PROVE KeptHold'
  BY <1>4 DEF Retrieve, Reply, vars
<1>5. ASSUME NEW r \in Requests, Stream(r) PROVE KeptHold'
  BY <1>5 DEF Stream, Go, vars
<1>6. ASSUME NEW r \in Requests, PutReceived(r) PROVE KeptHold'
  BY <1>6 DEF PutReceived, Go, vars
<1>7. ASSUME NEW r \in Requests, ExistsYes(r) PROVE KeptHold'
  BY <1>7 DEF ExistsYes, PutSettled, Put, Go
<1>8. ASSUME NEW r \in Requests, ExistsNo(r) PROVE KeptHold'
  BY <1>8 DEF ExistsNo, Go, vars
<1>9. ASSUME NEW r \in Requests, Conflict(r) PROVE KeptHold'
  BY <1>9 DEF Conflict, MarkPresent, Go
<1>10. ASSUME NEW r \in Requests, Drained(r) PROVE KeptHold'
  BY <1>10 DEF Drained, Reply, vars
<1>11. ASSUME NEW r \in Requests, Stored(r) PROVE KeptHold'
  BY <1>11 DEF Stored, PutSettled, Put, Go
<1>12. ASSUME NEW r \in Requests, Created(r) PROVE KeptHold'
  BY <1>12 DEF Created, MarkPresent, Reply
<1>13. ASSUME NEW r \in Requests, StoreFails(r) PROVE KeptHold'
  BY <1>13 DEF StoreFails, Go, Reply, vars
<1>14. ASSUME NEW r \in Requests, Dropped(r) PROVE KeptHold'
  BY <1>14 DEF Dropped, Cancel, HeadDone, Go, vars
<1>15. CASE Unseen
  BY <1>15, UnseenFacts
<1>16. ASSUME NEW h \in Hashes, Deleted(h) PROVE KeptHold'
  BY <1>16 DEF Deleted, Expire
<1>17. CASE UNCHANGED serverVars
  BY <1>17 DEF serverVars, vars
<1> QED
  BY <1>1, <1>2, <1>3, <1>4, <1>5, <1>6, <1>7, <1>8, <1>9,
     <1>10, <1>11, <1>12, <1>13, <1>14, <1>15, <1>16, <1>17 DEF ServerNext

LEMMA HandlersStep == CacheInv /\ Handlers /\ [ServerNext]_serverVars => Handlers'
BY ServerTypeStep, FollowStep, KeptStep DEF CacheInv, Handlers

LEMMA HandlersInit == ServerInit => Handlers
BY PutsAssumption DEF ServerInit, Init, Handlers, ServerTypeOK, PutsFollow, GetsFollow, KeptHold,
                      GetStages, PutStages

(* Types of the handlers' variables.                                       *)
THEOREM ServerTypeCorrect == ServerSpec => []ServerTypeOK
<1>1. Handlers => ServerTypeOK
  BY DEF Handlers
<1> QED
  BY <1>1, CacheInvInit, CacheInvStep, HandlersInit, HandlersStep, PTL DEF ServerSpec

-----------------------------------------------------------------------------
(* Read-after-write. *)

(* A GET that came after an answered PUT entered the cache after its mark. *)
DueHold == ReadAfterWrite /\ due \subseteq owed

(* It is told "absent" by no cell, and GetObject finds its object.         *)
LEMMA DueStep ==
  ASSUME CacheInv, CacheInv', Handlers, DueHold, [ServerNext]_serverVars
  PROVE  DueHold'
<1> USE DEF CacheInv, Inv, TypeOK, SeedsHold, ReadYourWrites, Handlers, ServerTypeOK,
            PutsFollow, GetsFollow, KeptHold, DueHold, ReadAfterWrite, GetStages, PutStages,
            Outcome
<1>1. ASSUME NEW r \in Requests, Get(r) PROVE DueHold'
  BY <1>1 DEF Get, Slot, Go
<1>2. ASSUME NEW r \in Requests, GetAnswered(r) PROVE DueHold'
  BY <1>2 DEF GetAnswered, ReadCell, ProbeOk, HeadDone, Resolve, Go, Reply
<1>3. ASSUME NEW r \in Requests, GetProbeFails(r) PROVE DueHold'
  BY <1>3 DEF GetProbeFails, ProbeErr, HeadDone, Resolve, Go, Reply
<1>4. ASSUME NEW r \in Requests, Retrieve(r) PROVE DueHold'
  BY <1>4 DEF Retrieve, Reply, vars
<1>5. ASSUME NEW r \in Requests, Stream(r) PROVE DueHold'
  BY <1>5 DEF Stream, Go, vars
<1>6. ASSUME NEW r \in Requests, PutReceived(r) PROVE DueHold'
  BY <1>6 DEF PutReceived, Go, vars
<1>7. ASSUME NEW r \in Requests, ExistsYes(r) PROVE DueHold'
  BY <1>7 DEF ExistsYes, PutSettled, Put, Go
<1>8. ASSUME NEW r \in Requests, ExistsNo(r) PROVE DueHold'
  BY <1>8 DEF ExistsNo, Go, vars
<1>9. ASSUME NEW r \in Requests, Conflict(r) PROVE DueHold'
  BY <1>9 DEF Conflict, MarkPresent, Go
<1>10. ASSUME NEW r \in Requests, Drained(r) PROVE DueHold'
  BY <1>10 DEF Drained, Reply, vars
<1>11. ASSUME NEW r \in Requests, Stored(r) PROVE DueHold'
  BY <1>11 DEF Stored, PutSettled, Put, Go
<1>12. ASSUME NEW r \in Requests, Created(r) PROVE DueHold'
  BY <1>12 DEF Created, MarkPresent, Reply
<1>13. ASSUME NEW r \in Requests, StoreFails(r) PROVE DueHold'
  BY <1>13 DEF StoreFails, Go, Reply, vars
<1>14. ASSUME NEW r \in Requests, Dropped(r) PROVE DueHold'
  BY <1>14 DEF Dropped, Cancel, HeadDone, Go, vars
<1>15. CASE Unseen
  BY <1>15, UnseenFacts
<1>16. ASSUME NEW h \in Hashes, Deleted(h) PROVE DueHold'
  BY <1>16 DEF Deleted, Expire
<1>17. CASE UNCHANGED serverVars
  BY <1>17 DEF serverVars, vars
<1> QED
  BY <1>1, <1>2, <1>3, <1>4, <1>5, <1>6, <1>7, <1>8, <1>9,
     <1>10, <1>11, <1>12, <1>13, <1>14, <1>15, <1>16, <1>17 DEF ServerNext

(* Once a PUT was answered 200 or 409, a GET received later is answered    *)
(* 404 only if an S3 call of its own failed or the object was deleted.     *)
THEOREM ReadAfterWriteHolds == ServerSpec => []ReadAfterWrite
<1>1. ServerInit => DueHold
  BY DEF ServerInit, Init, DueHold, ReadAfterWrite
<1>2. DueHold => ReadAfterWrite
  BY DEF DueHold
<1> QED
  BY <1>1, <1>2, CacheInvInit, CacheInvStep, HandlersInit, HandlersStep, DueStep, PTL
     DEF ServerSpec

-----------------------------------------------------------------------------
(* Failures stay private. *)

(* A miss comes from a stale verdict, from an absent object, or from a     *)
(* failure that is the request's own.                                      *)
LEMMA PrivateStep ==
  ASSUME CacheInv, CacheInv', Handlers, FailuresStayPrivate, [ServerNext]_serverVars
  PROVE  FailuresStayPrivate'
<1> USE DEF CacheInv, Inv, TypeOK, Times, StaleMissBound, Handlers, ServerTypeOK, PutsFollow,
            GetsFollow, FailuresStayPrivate, GetStages, PutStages, Outcome, Larger
<1>1. ASSUME NEW r \in Requests, Get(r) PROVE FailuresStayPrivate'
  BY <1>1 DEF Get, Slot, Go
<1>2. ASSUME NEW r \in Requests, GetAnswered(r) PROVE FailuresStayPrivate'
  BY <1>2 DEF GetAnswered, ReadCell, ProbeOk, HeadDone, Resolve, Go, Reply
<1>3. ASSUME NEW r \in Requests, GetProbeFails(r) PROVE FailuresStayPrivate'
  BY <1>3 DEF GetProbeFails, ProbeErr, HeadDone, Resolve, Go, Reply
<1>4. ASSUME NEW r \in Requests, Retrieve(r) PROVE FailuresStayPrivate'
  BY <1>4 DEF Retrieve, Reply, vars
<1>5. ASSUME NEW r \in Requests, Stream(r) PROVE FailuresStayPrivate'
  BY <1>5 DEF Stream, Go, vars
<1>6. ASSUME NEW r \in Requests, PutReceived(r) PROVE FailuresStayPrivate'
  BY <1>6 DEF PutReceived, Go, vars
<1>7. ASSUME NEW r \in Requests, ExistsYes(r) PROVE FailuresStayPrivate'
  BY <1>7 DEF ExistsYes, PutSettled, Put, Go
<1>8. ASSUME NEW r \in Requests, ExistsNo(r) PROVE FailuresStayPrivate'
  BY <1>8 DEF ExistsNo, Go, vars
<1>9. ASSUME NEW r \in Requests, Conflict(r) PROVE FailuresStayPrivate'
  BY <1>9 DEF Conflict, MarkPresent, Go
<1>10. ASSUME NEW r \in Requests, Drained(r) PROVE FailuresStayPrivate'
  BY <1>10 DEF Drained, Reply, vars
<1>11. ASSUME NEW r \in Requests, Stored(r) PROVE FailuresStayPrivate'
  BY <1>11, TimesAssumption DEF Stored, PutSettled, Put, Go
<1>12. ASSUME NEW r \in Requests, Created(r) PROVE FailuresStayPrivate'
  BY <1>12 DEF Created, MarkPresent, Reply
<1>13. ASSUME NEW r \in Requests, StoreFails(r) PROVE FailuresStayPrivate'
  BY <1>13 DEF StoreFails, Go, Reply, vars
<1>14. ASSUME NEW r \in Requests, Dropped(r) PROVE FailuresStayPrivate'
  BY <1>14 DEF Dropped, Cancel, HeadDone, Go, vars
<1>15. CASE Unseen
  BY <1>15, UnseenFacts, TimesAssumption
<1>16. ASSUME NEW h \in Hashes, Deleted(h) PROVE FailuresStayPrivate'
  BY <1>16 DEF Deleted, Expire
<1>17. CASE UNCHANGED serverVars
  BY <1>17 DEF serverVars, vars
<1> QED
  BY <1>1, <1>2, <1>3, <1>4, <1>5, <1>6, <1>7, <1>8, <1>9,
     <1>10, <1>11, <1>12, <1>13, <1>14, <1>15, <1>16, <1>17 DEF ServerNext

(* A GET none of whose own calls failed misses a stored object only within *)
(* NEGATIVE_TTL, or one attempt, of the moment it was stored.              *)
THEOREM FailuresArePrivate == ServerSpec => []FailuresStayPrivate
<1>1. ServerInit => FailuresStayPrivate
  BY DEF ServerInit, Init, FailuresStayPrivate
<1> QED
  BY <1>1, CacheInvInit, CacheInvStep, HandlersInit, HandlersStep, PrivateStep, PTL
     DEF ServerSpec
=============================================================================
