-------------------------- MODULE ReadThroughProofs --------------------------
(***************************************************************************)
(* WatchCache implements ReadThrough, for any number of services, of       *)
(* concurrent Discover, LoadAll and Unwatch calls, and of changes of the   *)
(* registry.                                                               *)
(*                                                                         *)
(* Discover's answer from the registry is taken by its request (Fetch) and *)
(* stored by Fill; the locks see to it that nothing of the same service    *)
(* comes between.  LoadAll's snapshot is its request (LoadGet).            *)
(***************************************************************************)
EXTENDS WatchCacheProofs

-----------------------------------------------------------------------------
(***************************************************************************)
(* What a step leaves of the mapped variables.                             *)
(***************************************************************************)
LEMMA SameAnswers ==
  ASSUME \A c \in Lookups :
           /\ pc'[c] \in {"fill", "done"} <=> pc[c] \in {"fill", "done"}
           /\ pc'[c] = "fill" <=> pc[c] = "fill"
           /\ pc[c] \in {"fill", "done"} => target'[c] = target[c] /\ got'[c] = got[c]
  PROVE  Answer' = Answer /\ Unstored' = Unstored
<1>1. Unstored' = Unstored
  BY DEF Unstored
<1>2. Answer' = Answer
  BY DEF Answer
<1> QED
  BY <1>1, <1>2

LEMMA SameSnapshot ==
  ASSUME \A d \in Loads : /\ pc'[d] = "fill" <=> pc[d] = "fill"
                          /\ pc[d] = "fill" => got'[d] = got[d]
  PROVE  Snapshot' = Snapshot
BY DEF Snapshot

LEMMA Stutter ==
  ASSUME UNCHANGED <<log, srvMap, pc, target, got>>
  PROVE  UNCHANGED RT!vars
BY SameAnswers, SameSnapshot DEF RT!vars

\* A step of one call, seen from the others.
LEMMA OneCall ==
  ASSUME IInv, NEW c \in Calls, NEW step, Goto(c, step)
  PROVE  /\ pc'[c] = step
         /\ \A d \in Calls : d # c => pc'[d] = pc[d]
BY DEF Goto, IInv, Typed

\* Discover is given its answer.
LEMMA Answered ==
  ASSUME IInv, NEW c \in Lookups, NEW step \in {"fill", "done"}, Goto(c, step),
         pc[c] \notin {"fill", "done"},
         \A d \in Lookups : d # c => target'[d] = target[d] /\ got'[d] = got[d]
  PROVE  /\ Answer[c] = None
         /\ Answer' = [Answer EXCEPT ![c] = [srv |-> target'[c], rev |-> got'[c]]]
         /\ Unstored' = IF step = "fill" THEN Unstored \cup {c} ELSE Unstored
<1>1. /\ pc'[c] = step
      /\ \A d \in Lookups : d # c => pc'[d] = pc[d]
  BY OneCall DEF Calls
<1>2. Answer[c] = None
  BY DEF Answer
<1>3. Answer' = [Answer EXCEPT ![c] = [srv |-> target'[c], rev |-> got'[c]]]
  BY <1>1 DEF Answer
<1>4. Unstored' = IF step = "fill" THEN Unstored \cup {c} ELSE Unstored
  BY <1>1 DEF Unstored
<1> QED
  BY <1>2, <1>3, <1>4

\* One LoadAll at a time is past its request.
LEMMA OneSnapshot ==
  ASSUME IInv, NEW c \in Loads, pc[c] = "fill"
  PROVE  Snapshot = {got[c]}
BY DEF Snapshot, IInv, LockOwners

\* Nobody is storing a service whose lock is free, or held by another.
LEMMA LockedOut ==
  ASSUME IInv, NEW s \in Srvs,
         \A d \in Lookups : pc[d] = "fill" => oneSrvMu[s] # d
  PROVE  RT!Stored(s)
BY DEF RT!Stored, Unstored, Answer, IInv, LockOwners

LEMMA SameChanges == \A s : RT!Changes(s) = ChangesOf(s, Now)
BY DEF RT!Changes, ChangesOf, Now
-----------------------------------------------------------------------------
(***************************************************************************)
(* Discover.                                                               *)
(***************************************************************************)
LEMMA LookupRefines ==
  ASSUME IInv, NEW c \in Lookups, NEW s \in Srvs, Lookup(c, s)
  PROVE  RT!Next \/ UNCHANGED RT!vars
<1>1. /\ pc[c] = "idle" /\ UNCHANGED <<log, srvMap>>
      /\ target' = [target EXCEPT ![c] = s] /\ got' = [got EXCEPT ![c] = srvMap[s]]
  BY DEF Lookup, store, cache
<1>2. /\ target \in [Lookups -> Srvs \cup {None}] /\ got \in [Calls -> Revision]
      /\ Lookups \subseteq Calls /\ Loads \subseteq Calls /\ c \notin Loads
  BY CallsAssumption DEF IInv, Typed, Calls
<1>3. /\ target'[c] = s /\ got'[c] = srvMap[s]
      /\ \A d \in Lookups : d # c => target'[d] = target[d]
      /\ \A d \in Calls : d # c => got'[d] = got[d]
  BY <1>1, <1>2
<1>4. PICK step \in {"done", "lock"} :
        Goto(c, step) /\ step = IF srvMap[s] # 0 THEN "done" ELSE "lock"
  BY DEF Lookup
<1>5. pc'[c] = step /\ \A d \in Calls : d # c => pc'[d] = pc[d]
  BY <1>2, <1>4, OneCall
<1>6. Snapshot' = Snapshot
  BY <1>2, <1>3, <1>5, SameSnapshot
<1>7. CASE srvMap[s] # 0
  <2>1. RT!Answers(c, s, srvMap[s]) /\ Unstored' = Unstored
    BY <1>1, <1>2, <1>3, <1>4, <1>7, Answered DEF RT!Answers
  <2>2. RT!FromCache(c, s)
    BY <1>1, <1>6, <1>7, <2>1 DEF RT!FromCache
  <2> QED
    BY <2>2 DEF RT!Next
<1>8. CASE srvMap[s] = 0
  <2>1. Answer' = Answer /\ Unstored' = Unstored
    BY <1>1, <1>2, <1>3, <1>4, <1>5, <1>8, SameAnswers
  <2> QED
    BY <1>1, <1>6, <2>1 DEF RT!vars
<1> QED
  BY <1>7, <1>8

LEMMA LookupLockedRefines ==
  ASSUME IInv, NEW c \in Lookups, LookupLocked(c)
  PROVE  RT!Next \/ UNCHANGED RT!vars
<1> DEFINE s == target[c]
<1>1. pc[c] = "lock" /\ UNCHANGED <<log, srvMap, target>> /\ s \in Srvs
  BY DEF LookupLocked, store, cache, IInv, LockOwners
<1>2. /\ got \in [Calls -> Revision] /\ Lookups \subseteq Calls /\ Loads \subseteq Calls
      /\ c \notin Loads
  BY CallsAssumption DEF IInv, Typed, Calls
<1>3. CASE srvMap[s] # 0 /\ got' = [got EXCEPT ![c] = srvMap[s]] /\ Goto(c, "done")
  <2>1. got'[c] = srvMap[s] /\ \A d \in Calls : d # c => got'[d] = got[d]
    BY <1>2, <1>3
  <2>2. RT!Answers(c, s, srvMap[s]) /\ Unstored' = Unstored
    BY <1>1, <1>2, <1>3, <2>1, Answered DEF RT!Answers
  <2>3. Snapshot' = Snapshot
    BY <1>2, <1>3, <2>1, OneCall, SameSnapshot
  <2>4. RT!FromCache(c, s)
    BY <1>1, <1>3, <2>2, <2>3 DEF RT!FromCache
  <2> QED
    BY <1>1, <2>4 DEF RT!Next
<1>4. CASE Goto(c, "get") /\ UNCHANGED got
  <2>1. pc'[c] = "get" /\ \A d \in Calls : d # c => pc'[d] = pc[d]
    BY <1>2, <1>4, OneCall
  <2>2. Answer' = Answer /\ Unstored' = Unstored
    BY <1>1, <1>2, <1>4, <2>1, SameAnswers
  <2>3. Snapshot' = Snapshot
    BY <1>2, <1>4, <2>1, SameSnapshot
  <2> QED
    BY <1>1, <2>2, <2>3 DEF RT!vars
<1> QED
  BY <1>3, <1>4 DEF LookupLocked

\* The answer from the registry: the service's lock keeps the others out.
LEMMA FetchRefines ==
  ASSUME IInv, NEW c \in Lookups, Fetch(c)
  PROVE  RT!Next
<1> DEFINE s == target[c]
<1>1. /\ pc[c] = "get" /\ Goto(c, "fill") /\ UNCHANGED <<log, srvMap, target>>
      /\ s \in Srvs /\ oneSrvMu[s] = c
  BY DEF Fetch, store, cache, IInv, LockOwners
<1>2. PICK r \in 1 .. Now : IsLast(r, s, Now) /\ log[r].kind = "put" /\ got' = [got EXCEPT ![c] = r]
  BY DEF Fetch
<1>3. /\ got \in [Calls -> Revision] /\ Lookups \subseteq Calls /\ Loads \subseteq Calls
      /\ c \notin Loads
  BY CallsAssumption DEF IInv, Typed, Calls
<1>4. got'[c] = r /\ \A d \in Calls : d # c => got'[d] = got[d]
  BY <1>2, <1>3
<1>5. RT!Answers(c, s, r) /\ Unstored' = Unstored \cup {c}
  BY <1>1, <1>3, <1>4, Answered DEF RT!Answers
<1>6. Snapshot' = Snapshot
  BY <1>1, <1>3, <1>4, OneCall, SameSnapshot
<1>7. RT!Stored(s)
  BY <1>1, LockedOut
<1>8. RT!FromRegistry(c, s)
  BY <1>1, <1>2, <1>5, <1>6, <1>7, SameChanges DEF RT!FromRegistry, RT!IsPut, IsLast
<1> QED
  BY <1>1, <1>8 DEF RT!Next

LEMMA FetchFailsRefines ==
  ASSUME IInv, NEW c \in Lookups, FetchFails(c)
  PROVE  UNCHANGED RT!vars
<1>1. pc[c] = "get" /\ Goto(c, "failed") /\ UNCHANGED <<log, srvMap, target, got>>
  BY DEF FetchFails, store, cache
<1>2. Lookups \subseteq Calls /\ Loads \subseteq Calls /\ c \notin Loads
  BY CallsAssumption DEF Calls
<1>3. pc'[c] = "failed" /\ \A d \in Calls : d # c => pc'[d] = pc[d]
  BY <1>1, <1>2, OneCall
<1>4. Answer' = Answer /\ Unstored' = Unstored
  BY <1>1, <1>2, <1>3, SameAnswers
<1>5. Snapshot' = Snapshot
  BY <1>1, <1>2, <1>3, SameSnapshot
<1> QED
  BY <1>1, <1>4, <1>5 DEF RT!vars

LEMMA FillRefines ==
  ASSUME IInv, NEW c \in Lookups, Fill(c)
  PROVE  RT!Next
<1>1. /\ pc[c] = "fill" /\ Goto(c, "done") /\ UNCHANGED <<log, target, got>>
      /\ srvMap' = [srvMap EXCEPT ![target[c]] = got[c]]
  BY DEF Fill, store
<1>2. Lookups \subseteq Calls /\ Loads \subseteq Calls /\ c \notin Loads
  BY CallsAssumption DEF Calls
<1>3. pc'[c] = "done" /\ \A d \in Calls : d # c => pc'[d] = pc[d]
  BY <1>1, <1>2, OneCall
<1>4. Unstored' = Unstored \ {c} /\ c \in Unstored
  BY <1>1, <1>2, <1>3 DEF Unstored
<1>5. Answer' = Answer
  BY <1>1, <1>2, <1>3 DEF Answer
<1>6. Answer[c] = [srv |-> target[c], rev |-> got[c]]
  BY <1>1 DEF Answer
<1>7. Snapshot' = Snapshot
  BY <1>1, <1>2, <1>3, SameSnapshot
<1>8. RT!Store(c)
  BY <1>1, <1>4, <1>5, <1>6, <1>7 DEF RT!Store
<1> QED
  BY <1>8 DEF RT!Next
-----------------------------------------------------------------------------
(***************************************************************************)
(* LoadAll.                                                                *)
(***************************************************************************)
\* A step of LoadAll is no step of a Discover.
LEMMA LoadAnswersNobody ==
  ASSUME IInv, NEW c \in Loads, NEW step, Goto(c, step), target' = target,
         \A d \in Lookups : got'[d] = got[d]
  PROVE  Answer' = Answer /\ Unstored' = Unstored
<1>1. Lookups \subseteq Calls /\ Loads \subseteq Calls /\ c \notin Lookups
  BY CallsAssumption DEF Calls
<1>2. \A d \in Lookups : pc'[d] = pc[d]
  BY <1>1, OneCall
<1> QED
  BY <1>2, SameAnswers

\* Before its request, and after its last service.
LEMMA LoadMoves ==
  ASSUME IInv, NEW c \in Loads, NEW step, Goto(c, step), step # "fill",
         UNCHANGED <<log, srvMap, target, got>>
  PROVE  RT!Next \/ UNCHANGED RT!vars
<1>1. Answer' = Answer /\ Unstored' = Unstored
  BY LoadAnswersNobody
<1>2. pc'[c] = step /\ \A d \in Loads : d # c => pc'[d] = pc[d]
  BY OneCall DEF Calls
<1>3. CASE pc[c] = "fill"
  <2>1. \A d \in Loads : pc'[d] # "fill"
    BY <1>2, <1>3 DEF IInv, LockOwners
  <2>2. Snapshot' = {}
    BY <2>1 DEF Snapshot
  <2> QED
    BY <1>1, <2>2 DEF RT!Loaded, RT!Next
<1>4. CASE pc[c] # "fill"
  <2>1. Snapshot' = Snapshot
    BY <1>2, <1>4, SameSnapshot
  <2> QED
    BY <1>1, <2>1 DEF RT!vars
<1> QED
  BY <1>3, <1>4

LEMMA LoadGetRefines ==
  ASSUME IInv, NEW c \in Loads, LoadGet(c)
  PROVE  RT!Next
<1>1. /\ pc[c] = "get" /\ Goto(c, "fill") /\ UNCHANGED <<log, srvMap, target>>
      /\ got' = [got EXCEPT ![c] = Now]
  BY DEF LoadGet, store, cache
<1>2. /\ Lookups \subseteq Calls /\ Loads \subseteq Calls /\ c \notin Lookups
      /\ got \in [Calls -> Revision]
  BY CallsAssumption DEF Calls, IInv, Typed
<1>3. /\ pc'[c] = "fill" /\ \A d \in Loads : d # c => pc'[d] = pc[d]
      /\ got'[c] = Now /\ \A d \in Lookups : got'[d] = got[d]
  BY <1>1, <1>2, OneCall
<1>4. Answer' = Answer /\ Unstored' = Unstored
  BY <1>1, <1>3, LoadAnswersNobody
<1>5. \A d \in Loads : pc[d] # "fill" /\ (d # c => pc'[d] # "fill")
  BY <1>1, <1>3 DEF IInv, LockOwners
<1>6. Snapshot = {} /\ Snapshot' = {Len(log)}
  BY <1>3, <1>5 DEF Snapshot, Now
<1> QED
  BY <1>1, <1>4, <1>6 DEF RT!Snapshot, RT!Next

LEMMA LoadFillRefines ==
  ASSUME IInv, NEW c \in Loads, NEW s \in Srvs, LoadFill(c, s)
  PROVE  RT!Next
<1>1. PICK r \in 1 .. Now :
        /\ IsLast(r, s, got[c])
        /\ log[r].kind = "put"
        /\ srvMap' = [srvMap EXCEPT ![s] = r]
        /\ pc' = pc \/ Goto(c, "failed")
  BY DEF LoadFill, LoadStops
<1>2. pc[c] = "fill" /\ UNCHANGED <<log, target, got>>
  BY DEF LoadFill, store
<1>3. Snapshot = {got[c]}
  BY <1>2, OneSnapshot
<1>4. Answer' = Answer /\ Unstored' = Unstored
  BY <1>1, <1>2, LoadAnswersNobody, SameAnswers
<1>5. Snapshot' \in {Snapshot, {}}
  <2>1. CASE pc' = pc
    BY <1>2, <2>1, SameSnapshot
  <2>2. CASE Goto(c, "failed")
    <3>1. pc'[c] = "failed" /\ \A d \in Loads : d # c => pc'[d] = pc[d]
      BY <2>2, OneCall DEF Calls
    <3>2. \A d \in Loads : pc'[d] # "fill"
      BY <1>2, <3>1 DEF IInv, LockOwners
    <3> QED
      BY <3>2 DEF Snapshot
  <2> QED
    BY <1>1, <2>1, <2>2
<1>6. got[c] \in Nat /\ Now \in Nat
  BY MaxRevisionAssumption DEF IInv, Typed, Revision, Calls
<1>7. /\ r \in RT!Changes(s) /\ r <= got[c]
      /\ \A q \in RT!Changes(s) : q <= got[c] => q <= r
  BY <1>1, <1>6, SameChanges DEF IsLast, ChangesOf
<1>8. RT!Load(s)
  BY <1>1, <1>2, <1>3, <1>4, <1>5, <1>7 DEF RT!Load, RT!IsPut
<1> QED
  BY <1>8 DEF RT!Next
-----------------------------------------------------------------------------
(***************************************************************************)
(* The watcher, and the registry.                                          *)
(***************************************************************************)
LEMMA ApplyRefines ==
  ASSUME IInv, NEW w \in Watchers, ApplyEvent(w)
  PROVE  RT!Next \/ UNCHANGED RT!vars
<1> DEFINE r == pos[w]
           s == log[r].srv
<1>1. /\ wpc[w] = "entry" /\ oneSrvMu[s] = None
      /\ UNCHANGED <<log, pc, target, got>>
  BY DEF ApplyEvent, store, calls
<1>2. Answer' = Answer /\ Unstored' = Unstored /\ Snapshot' = Snapshot
  BY <1>1, SameAnswers, SameSnapshot
<1>3. CASE srvMap' = srvMap
  BY <1>1, <1>3, Stutter
<1>4. CASE /\ ~Skipped(s, r)
           /\ srvMap' = [srvMap EXCEPT ![s] = IF log[r].kind = "put" THEN r ELSE 0]
  <2>1. r \in 1 .. Now
    BY <1>1, Numbers DEF IInv, Positions
  <2>2. s \in Srvs /\ r \in RT!Changes(s)
    BY <2>1, ChangeAt, SameChanges DEF IInv, ChangesOf
  <2>3. r >= srvMap[s]
    BY <1>4, <2>1, <2>2, Numbers DEF Skipped
  <2>4. RT!Stored(s)
    BY <1>1, <2>2, CallsAssumption, LockedOut DEF Calls
  <2>5. RT!Event(s)
    BY <1>1, <1>2, <1>4, <2>2, <2>3, <2>4 DEF RT!Event, RT!IsPut
  <2> QED
    BY <2>2, <2>5 DEF RT!Next
<1> QED
  BY <1>3, <1>4 DEF ApplyEvent

LEMMA WatchOutRefines ==
  ASSUME NEW w \in Watchers, WatchOut(w)
  PROVE  RT!Next
<1>1. srvMap' = [s \in Srvs |-> 0] /\ UNCHANGED <<log, pc, target, got>>
  BY DEF WatchOut, store, calls
<1>2. Answer' = Answer /\ Unstored' = Unstored /\ Snapshot' = Snapshot
  BY <1>1, SameAnswers, SameSnapshot
<1> QED
  BY <1>1, <1>2 DEF RT!Forget, RT!Next

LEMMA WriteRefines ==
  ASSUME NEW s \in Srvs, NEW k \in {"put", "junk", "delete"}, Write(s, k)
  PROVE  RT!Next
<1>1. log' = Append(log, [srv |-> s, kind |-> k]) /\ UNCHANGED <<srvMap, pc, target, got>>
  BY DEF Write, cache, calls
<1>2. Answer' = Answer /\ Unstored' = Unstored /\ Snapshot' = Snapshot
  BY <1>1, SameAnswers, SameSnapshot
<1> QED
  BY <1>1, <1>2 DEF RT!Write, RT!Next

\* Unwatch is neither a Discover nor a LoadAll.
LEMMA UnwatchRefines ==
  ASSUME IInv, NEW u \in Unwatches, NEW step, Goto(u, step),
         UNCHANGED <<log, srvMap, target, got>>
  PROVE  UNCHANGED RT!vars
<1>1. u \in Calls /\ \A c \in Lookups \cup Loads : c \in Calls /\ c # u
  BY CallsAssumption DEF Calls
<1>2. \A c \in Lookups \cup Loads : pc'[c] = pc[c]
  BY <1>1, OneCall
<1> QED
  BY <1>2, SameAnswers, SameSnapshot DEF RT!vars
-----------------------------------------------------------------------------
\* Every step is a step of the read-through cache, or none.
LEMMA ReadThroughStep == IInv /\ [Next]_vars => [RT!Next]_(RT!vars)
<1> SUFFICES ASSUME IInv, [Next]_vars PROVE RT!Next \/ UNCHANGED RT!vars
  OBVIOUS
<1>1. ASSUME NEW s \in Srvs, NEW k \in {"put", "junk", "delete"}, Write(s, k)
      PROVE  RT!Next
  BY <1>1, WriteRefines
<1>2. ASSUME NEW c \in Lookups,
             (\E s \in Srvs : Lookup(c, s)) \/ LookupLocked(c) \/ Fetch(c) \/ FetchFails(c)
               \/ Fill(c)
      PROVE  RT!Next \/ UNCHANGED RT!vars
  BY <1>2, LookupRefines, LookupLockedRefines, FetchRefines, FetchFailsRefines, FillRefines
<1>3. ASSUME NEW c \in Loads, LoadGet(c) \/ \E s \in Srvs : LoadFill(c, s)
      PROVE  RT!Next
  BY <1>3, LoadGetRefines, LoadFillRefines
<1>4. ASSUME NEW c \in Loads,
             LoadBegin(c) \/ LoadGetFails(c) \/ LoadEnd(c) \/ \E s \in Srvs : LoadJunk(c, s)
      PROVE  RT!Next \/ UNCHANGED RT!vars
  <2>1. /\ UNCHANGED <<log, srvMap, target, got>>
        /\ \E step \in {"get", "failed", "done"} : Goto(c, step)
    BY <1>4 DEF LoadBegin, LoadGetFails, LoadEnd, LoadJunk, LoadStops, store, cache
  <2> QED
    BY <2>1, LoadMoves
<1>5. ASSUME NEW w \in Watchers, ApplyEvent(w) \/ WatchOut(w)
      PROVE  RT!Next \/ UNCHANGED RT!vars
  BY <1>5, ApplyRefines, WatchOutRefines
<1>6. ASSUME NEW w \in Watchers,
             WatchCheck(w) \/ WatchLock(w) \/ WatchOpen(w) \/ Receive(w) \/ Notify(w) \/ Closes(w)
      PROVE  UNCHANGED RT!vars
  <2>1. UNCHANGED <<log, srvMap, pc, target, got>>
    BY <1>6 DEF WatchCheck, WatchLock, WatchOpen, Receive, Notify, Closes, store, cache, calls
  <2> QED
    BY <2>1, Stutter
<1>7. ASSUME NEW u \in Unwatches, Unwatch(u) \/ \E w \in Watchers : TakeUnwatch(w, u)
      PROVE  UNCHANGED RT!vars
  <2>1. UNCHANGED <<log, srvMap, target, got>> /\ \E step \in {"send", "done"} : Goto(u, step)
    BY <1>7 DEF Unwatch, TakeUnwatch, store, cache
  <2> QED
    BY <2>1, UnwatchRefines
<1>8. CASE Abort \/ UNCHANGED vars
  <2>1. UNCHANGED <<log, srvMap, pc, target, got>>
    BY <1>8 DEF Abort, vars, store, cache, calls
  <2> QED
    BY <2>1, Stutter
<1> QED
  BY <1>1, <1>2, <1>3, <1>4, <1>5, <1>6, <1>7, <1>8 DEF Next, CallStep, WatchStep

(***************************************************************************)
(* Discover is a read-through cache: with its locks, second looks and      *)
(* revisions, however its calls and the watcher interleave.                *)
(***************************************************************************)
THEOREM Refinement == Spec => ReadsThrough
<1>1. Init => RT!Init
  BY DEF Init, RT!Init, Answer, Unstored, Snapshot, Calls
<1>2. IInv /\ [Next]_vars => [RT!Next]_(RT!vars)
  BY ReadThroughStep
<1> QED
  BY <1>1, <1>2, Inductive, PTL DEF Spec, ReadsThrough, RT!Spec
=============================================================================
