-------------------------- MODULE HealthCheckProofs --------------------------
(***************************************************************************)
(* What holds of the servers and the checker for any services, addresses,  *)
(* workers and number of restarts.                                         *)
(***************************************************************************)
EXTENDS HealthCheck, TLAPS

Named == \A a \in Addrs : pc[a] # "down" => starts[a] >= 1

(***************************************************************************)
(* A check that began with the incarnation there is now was begun while it *)
(* served: it is past its registration, and the entry is one of its own.   *)
(***************************************************************************)
Begun ==
  \A w \in Workers, s \in Srvs, a \in Addrs : job[w] = <<s, a>> =>
    /\ began[w] <= starts[a]
    /\ began[w] = starts[a] /\ starts[a] >= 1 =>
         /\ pc[a] \notin {"register", "ready"}
         /\ Offered(<<s, a>>) /\ healthy[a]

(***************************************************************************)
(* While that incarnation goes on serving, only lost pings can fail, and   *)
(* only maxTries of them doom the entry.                                   *)
(***************************************************************************)
Counted ==
  \A w \in Workers, s \in Srvs, a \in Addrs :
    /\ job[w] = <<s, a>>
    /\ began[w] = starts[a]
    /\ pc[a] = "serving"
    => tries[w] = lost[w] /\ (doomed[w] => lost[w] = maxTries)

\* The entries that are registered, or excused.
Known == registry \cup excused

(***************************************************************************)
(* What a server has registered so far is registered or excused.           *)
(***************************************************************************)
Registered ==
  \A a \in Addrs :
    /\ pc[a] = "register" => \A i \in 1 .. next[a] - 1 : <<offers[a][i], a>> \in Known
    /\ pc[a] \in {"ready", "serving"} =>
         \A i \in 1 .. Len(offers[a]) : <<offers[a][i], a>> \in Known

IInv == TypeOK /\ Named /\ Begun /\ Counted /\ Registered
-----------------------------------------------------------------------------
\* What is offered is a sequence of services.
LEMMA OffersType ==
  ASSUME TypeOK, NEW a \in Addrs
  PROVE  offers[a] \in Seq(Srvs) /\ Len(offers[a]) \in Nat
<1>1. offers[a] \in Offers \/ offers[a] = <<>>
  BY DEF TypeOK
<1>2. \A o \in Offers : o \in Seq(Srvs)
  BY OffersAssumption
<1>3. <<>> \in Seq(Srvs) /\ Len(<<>>) \in Nat
  OBVIOUS
<1>4. offers[a] \in Seq(Srvs)
  BY <1>1, <1>2, <1>3
<1>5. QED
  BY <1>4

\* The entry a server registers or unregisters next is an entry of its own.
LEMMA EntryType ==
  ASSUME TypeOK, NEW a \in Addrs, pc[a] \in {"register", "leave"}
  PROVE  Entry(a) \in Entries /\ offers[a][next[a]] \in Srvs
<1>1. next[a] \in 1 .. Len(offers[a])
  BY OffersType DEF TypeOK
<1>2. QED
  BY <1>1, OffersType DEF Entry, Entries

\* The loop over the services ends after the last of them.
LEMMA AdvanceType ==
  ASSUME TypeOK, NEW a \in Addrs, NEW step \in Steps,
         pc[a] \in {"register", "leave"}, Advance(a, step)
  PROVE  /\ pc' \in [Addrs -> Steps]
         /\ next' \in [Addrs -> Nat \ {0}]
         /\ \A b \in Addrs : pc'[b] # "down" => next'[b] <= Len(offers[b])
<1>1. Len(offers[a]) \in Nat /\ next[a] \in Nat /\ 1 <= next[a]
      /\ next[a] <= Len(offers[a])
  BY OffersType DEF TypeOK
<1>2. /\ pc \in [Addrs -> Steps] /\ next \in [Addrs -> Nat \ {0}]
      /\ \A b \in Addrs : pc[b] # "down" => next[b] <= Len(offers[b])
  BY DEF TypeOK
<1>3. CASE next[a] < Len(offers[a])
  BY <1>1, <1>2, <1>3 DEF Advance
<1>4. CASE ~(next[a] < Len(offers[a]))
  BY <1>1, <1>2, <1>4 DEF Advance, Goto
<1>5. QED
  BY <1>3, <1>4
-----------------------------------------------------------------------------
\* A step of a server keeps the types.
LEMMA ServerType ==
  ASSUME TypeOK, NEW a \in Addrs, ServerStep(a)
  PROVE  TypeOK'
<1> USE MaxStartsAssumption
<1>1. ASSUME NEW o \in Offers, NEW h \in BOOLEAN, Start(a, o, h)
      PROVE  TypeOK'
  <2>1. Len(o) \in Nat /\ 1 <= Len(o)
    <3>1. o \in Seq(Srvs) /\ o # <<>>
      BY OffersAssumption
    <3>2. QED
      BY <3>1
  <2>2. starts' \in [Addrs -> 0 .. MaxStarts]
    BY <1>1 DEF Start, TypeOK
  <2>3. /\ pc' \in [Addrs -> Steps] /\ offers' \in [Addrs -> Offers \cup {<<>>}]
        /\ excused' \subseteq Entries
    BY <1>1 DEF Start, TypeOK, Goto, Steps
  <2>4. healthy' \in [Addrs -> BOOLEAN]
    BY <1>1 DEF Start, TypeOK
  <2>5. next' \in [Addrs -> Nat \ {0}]
    BY <1>1 DEF Start, TypeOK
  <2>6. \A b \in Addrs : pc'[b] # "down" => next'[b] <= Len(offers'[b])
    BY <1>1, <2>1 DEF Start, TypeOK, Goto
  <2>7. QED
    BY <1>1, <2>2, <2>3, <2>4, <2>5, <2>6 DEF Start, TypeOK, checks
<1>2. CASE Register(a)
  BY <1>2, AdvanceType, EntryType DEF Register, TypeOK, checks, Steps
<1>3. CASE RegisterFails(a)
  BY <1>3, EntryType DEF RegisterFails, TypeOK, checks, Goto, Steps
<1>4. CASE HookFails(a) \/ Serve(a) \/ Stop(a) \/ Crash(a)
  BY <1>4 DEF HookFails, Serve, Stop, Crash, TypeOK, checks, Goto, Steps
<1>5. CASE Leave(a)
  BY <1>5, AdvanceType, EntryType DEF Leave, TypeOK, checks, Steps
<1>6. QED
  BY <1>1, <1>2, <1>3, <1>4, <1>5 DEF ServerStep
-----------------------------------------------------------------------------
\* A step of the checker keeps the types.
LEMMA CheckerType ==
  ASSUME TypeOK,
         \/ Load
         \/ \E w \in Workers, e \in Entries : Dispatch(w, e)
         \/ \E w \in Workers : Ping(w) \/ Unregister(w) \/ UnregisterFails(w)
  PROVE  TypeOK'
<1> USE MaxStartsAssumption DEF servers, checks
<1>1. CASE Load
  BY <1>1 DEF Load, TypeOK
<1>2. ASSUME NEW w \in Workers, NEW e \in Entries, Dispatch(w, e)
      PROVE  TypeOK'
  <2>1. e[2] \in Addrs
    BY DEF Entries
  <2>2. began' \in [Workers -> 0 .. MaxStarts]
    BY <1>2, <2>1 DEF Dispatch, TypeOK
  <2>3. 0 \in 0 .. maxTries /\ 0 # maxTries
    BY DEF maxTries
  <2>4. /\ tries' \in [Workers -> 0 .. maxTries] /\ lost' \in [Workers -> 0 .. maxTries]
        /\ \A v \in Workers : lost'[v] <= tries'[v]
        /\ \A v \in Workers : tries'[v] = maxTries => doomed'[v]
    BY <1>2, <2>3 DEF Dispatch, TypeOK
  <2>5. doomed' \in [Workers -> BOOLEAN] /\ job' \in [Workers -> Entries \cup {None}]
    BY <1>2 DEF Dispatch, TypeOK
  <2>6. QED
    BY <1>2, <2>2, <2>4, <2>5 DEF Dispatch, TypeOK
<1>3. ASSUME NEW w \in Workers, PingErrs(w)
      PROVE  TypeOK'
  <2>1. tries[w] \in 0 .. maxTries /\ tries[w] # maxTries
    BY <1>3 DEF PingErrs, Pinging, TypeOK
  <2>2. /\ tries' \in [Workers -> 0 .. maxTries] /\ lost' \in [Workers -> 0 .. maxTries]
        /\ \A v \in Workers : lost'[v] <= tries'[v]
    BY <1>3, <2>1 DEF PingErrs, TypeOK, maxTries
  <2>3. doomed' \in [Workers -> BOOLEAN]
    BY <1>3 DEF PingErrs, TypeOK
  <2>4. \A v \in Workers : tries'[v] = maxTries => doomed'[v]
    BY <1>3 DEF PingErrs, TypeOK
  <2>5. QED
    BY <1>3, <2>2, <2>3, <2>4 DEF PingErrs, TypeOK
<1>4. ASSUME NEW w \in Workers, PingOk(w) \/ PingRefused(w)
      PROVE  TypeOK'
  BY <1>4 DEF PingOk, PingRefused, Done, TypeOK
<1>5. ASSUME NEW w \in Workers, Unregister(w) \/ UnregisterFails(w)
      PROVE  TypeOK'
  BY <1>5 DEF Unregister, UnregisterFails, Done, TypeOK
<1>6. QED
  BY <1>1, <1>2, <1>3, <1>4, <1>5 DEF Ping

\* The initial state satisfies the invariant.
LEMMA InitInv == Init => IInv
<1> SUFFICES ASSUME Init PROVE IInv
  OBVIOUS
<1>1. TypeOK
  <2>1. 0 \in 0 .. MaxStarts /\ 0 \in 0 .. maxTries /\ 0 # maxTries
    BY MaxStartsAssumption DEF maxTries
  <2>2. QED
    BY <2>1 DEF Init, TypeOK, Steps
<1>2. Named /\ Registered
  BY DEF Init, Named, Registered
<1>3. Begun /\ Counted
  BY NoneAssumption DEF Init, Begun, Counted, Entries
<1>4. QED
  BY <1>1, <1>2, <1>3 DEF IInv
-----------------------------------------------------------------------------
(***************************************************************************)
(* What a step of the server at one address may change, as far as the      *)
(* invariant goes.                                                         *)
(***************************************************************************)
LEMMA ServerEffect ==
  ASSUME IInv, NEW a \in Addrs, ServerStep(a)
  PROVE  /\ UNCHANGED checks
         /\ \A b \in Addrs \ {a} :
              /\ pc'[b] = pc[b] /\ starts'[b] = starts[b] /\ next'[b] = next[b]
              /\ offers'[b] = offers[b] /\ healthy'[b] = healthy[b]
              /\ \A s : <<s, b>> \in Known => <<s, b>> \in Known'
         /\ \/ starts'[a] = starts[a] + 1
            \/ /\ starts'[a] = starts[a] /\ starts[a] >= 1
               /\ offers'[a] = offers[a] /\ healthy'[a] = healthy[a]
               /\ pc'[a] \in {"register", "ready"} => pc[a] = "register"
               /\ pc'[a] = "serving" => pc[a] = "ready"
<1>0. /\ TypeOK /\ starts[a] \in Nat
      /\ pc[a] # "down" => starts[a] >= 1
  BY MaxStartsAssumption DEF IInv, TypeOK, Named
<1>1. ASSUME NEW o \in Offers, NEW h \in BOOLEAN, Start(a, o, h)
      PROVE  starts'[a] = starts[a] + 1
  BY <1>1 DEF Start, TypeOK, IInv
<1>2. ASSUME NEW o \in Offers, NEW h \in BOOLEAN, Start(a, o, h)
      PROVE  /\ UNCHANGED checks
             /\ \A b \in Addrs \ {a} :
                  /\ pc'[b] = pc[b] /\ starts'[b] = starts[b] /\ next'[b] = next[b]
                  /\ offers'[b] = offers[b] /\ healthy'[b] = healthy[b]
                  /\ \A s : <<s, b>> \in Known => <<s, b>> \in Known'
  BY <1>0, <1>2 DEF Start, TypeOK, Goto, Known
<1>3. CASE Register(a) \/ RegisterFails(a)
  BY <1>0, <1>3 DEF Register, RegisterFails, TypeOK, Advance, Goto, Known
<1>4. CASE HookFails(a) \/ Serve(a) \/ Stop(a) \/ Crash(a)
  BY <1>0, <1>4 DEF HookFails, Serve, Stop, Crash, TypeOK, Goto, Known
<1>5. CASE Leave(a)
  BY <1>0, <1>5 DEF Leave, TypeOK, Advance, Goto, Known, Entry
<1>6. QED
  BY <1>1, <1>2, <1>3, <1>4, <1>5 DEF ServerStep

\* A server registers its services in their order, and forgets none.
LEMMA ServerRegisters ==
  ASSUME IInv, NEW a \in Addrs, ServerStep(a)
  PROVE  /\ pc'[a] = "register" =>
              \A i \in 1 .. next'[a] - 1 : <<offers'[a][i], a>> \in Known'
         /\ pc'[a] \in {"ready", "serving"} =>
              \A i \in 1 .. Len(offers'[a]) : <<offers'[a][i], a>> \in Known'
<1>0. /\ TypeOK /\ next[a] \in Nat /\ Len(offers[a]) \in Nat
      /\ pc[a] # "down" => next[a] <= Len(offers[a])
  BY OffersType DEF IInv, TypeOK
<1>1. ASSUME NEW o \in Offers, NEW h \in BOOLEAN, Start(a, o, h)
      PROVE  pc'[a] = "register" /\ next'[a] = 1
  BY <1>0, <1>1 DEF Start, TypeOK, Goto
<1>2. CASE Register(a)
  <2>1. /\ \A i \in 1 .. next[a] - 1 : <<offers[a][i], a>> \in Known
        /\ \A s : <<s, a>> \in Known => <<s, a>> \in Known'
    BY <1>2 DEF Register, IInv, Registered, Known
  <2>2. <<offers[a][next[a]], a>> \in Known'
    BY <1>2 DEF Register, Known, Entry
  <2>3. \A i \in 1 .. next[a] : <<offers[a][i], a>> \in Known'
    BY <1>0, <2>1, <2>2 DEF Register
  <2>4. CASE next[a] < Len(offers[a])
    <3>1. next'[a] - 1 = next[a] /\ pc'[a] = "register" /\ offers' = offers
      BY <1>0, <1>2, <2>4 DEF Register, Advance, TypeOK
    <3>2. QED
      BY <2>3, <3>1 DEF Known
  <2>5. CASE ~(next[a] < Len(offers[a]))
    <3>1. next[a] = Len(offers[a]) /\ pc'[a] = "ready" /\ offers' = offers
      BY <1>0, <1>2, <2>5 DEF Register, Advance, Goto, TypeOK
    <3>2. QED
      BY <2>3, <3>1 DEF Known
  <2>6. QED
    BY <2>4, <2>5
<1>3. CASE Serve(a)
  BY <1>0, <1>3 DEF Serve, Goto, TypeOK, IInv, Registered, Known
<1>4. CASE RegisterFails(a) \/ HookFails(a) \/ Stop(a) \/ Crash(a)
  BY <1>0, <1>4 DEF RegisterFails, HookFails, Stop, Crash, Goto, TypeOK
<1>5. CASE Leave(a)
  <2>1. pc'[a] \in {"leave", "down"}
    BY <1>0, <1>5 DEF Leave, Advance, Goto, TypeOK
  <2>2. QED
    BY <2>1
<1>6. QED
  BY <1>1, <1>2, <1>3, <1>4, <1>5 DEF ServerStep

\* A step of a server preserves the invariant.
LEMMA ServerInv ==
  ASSUME IInv, NEW a \in Addrs, ServerStep(a)
  PROVE  IInv'
<1>1. TypeOK'
  BY ServerType DEF IInv
<1>2. \A b \in Addrs : starts[b] \in Nat
  BY MaxStartsAssumption DEF IInv, TypeOK
<1>3. Named'
  BY <1>2, ServerEffect DEF IInv, Named
<1>4. Begun'
  <2> SUFFICES ASSUME NEW w \in Workers, NEW s \in Srvs, NEW b \in Addrs,
                      job'[w] = <<s, b>>
               PROVE  /\ began'[w] <= starts'[b]
                      /\ began'[w] = starts'[b] /\ starts'[b] >= 1 =>
                           /\ pc'[b] \notin {"register", "ready"}
                           /\ Offered(<<s, b>>)' /\ healthy'[b]
    BY DEF Begun
  <2>1. job'[w] = job[w] /\ began'[w] = began[w] /\ began[w] \in Nat
    BY ServerEffect, MaxStartsAssumption DEF checks, IInv, TypeOK
  <2>2. /\ began[w] <= starts[b]
        /\ began[w] = starts[b] /\ starts[b] >= 1 =>
             /\ pc[b] \notin {"register", "ready"}
             /\ Offered(<<s, b>>) /\ healthy[b]
    BY <2>1 DEF IInv, Begun
  <2>3. CASE b # a
    <3>1. /\ pc'[b] = pc[b] /\ starts'[b] = starts[b] /\ offers'[b] = offers[b]
          /\ healthy'[b] = healthy[b]
      BY <2>3, ServerEffect
    <3>2. QED
      BY <2>1, <2>2, <3>1 DEF Offered
  <2>4. CASE b = a /\ starts'[a] = starts[a] + 1
    BY <1>2, <2>1, <2>2, <2>4
  <2>5. CASE b = a /\ starts'[a] # starts[a] + 1
    <3>1. /\ starts'[a] = starts[a] /\ starts[a] >= 1
          /\ offers'[a] = offers[a] /\ healthy'[a] = healthy[a]
          /\ pc'[a] \in {"register", "ready"} => pc[a] = "register"
      BY <2>5, ServerEffect
    <3>2. QED
      BY <2>1, <2>2, <2>5, <3>1 DEF Offered
  <2>6. QED
    BY <2>3, <2>4, <2>5
<1>5. Counted'
  <2> SUFFICES ASSUME NEW w \in Workers, NEW s \in Srvs, NEW b \in Addrs,
                      job'[w] = <<s, b>>, began'[w] = starts'[b], pc'[b] = "serving"
               PROVE  tries'[w] = lost'[w] /\ (doomed'[w] => lost'[w] = maxTries)
    BY DEF Counted
  <2>1. /\ job'[w] = job[w] /\ began'[w] = began[w] /\ tries'[w] = tries[w]
        /\ lost'[w] = lost[w] /\ doomed'[w] = doomed[w]
    BY ServerEffect DEF checks
  <2>2. /\ began[w] <= starts[b]
        /\ began[w] = starts[b] /\ starts[b] >= 1 => pc[b] \notin {"register", "ready"}
    BY <2>1 DEF IInv, Begun
  <2>3. pc[b] = "serving" /\ starts'[b] = starts[b]
    <3>1. CASE b # a
      BY <3>1, ServerEffect
    <3>2. CASE b = a
      <4>1. starts'[a] # starts[a] + 1
        <5>1. starts[a] \in Nat /\ began[w] \in Nat
          BY <1>2, MaxStartsAssumption DEF IInv, TypeOK
        <5>2. began[w] <= starts[a]
          BY <2>2, <3>2
        <5>3. starts'[a] = began[w]
          BY <2>1, <3>2
        <5>4. QED
          BY <5>1, <5>2, <5>3
      <4>2. /\ starts'[a] = starts[a] /\ starts[a] >= 1
            /\ pc'[a] = "serving" => pc[a] = "ready"
        BY <4>1, ServerEffect
      <4>3. QED
        BY <2>1, <2>2, <3>2, <4>2
    <3>3. QED
      BY <3>1, <3>2
  <2>4. QED
    BY <2>1, <2>3 DEF IInv, Counted
<1>6. Registered'
  <2> SUFFICES ASSUME NEW b \in Addrs
               PROVE  /\ pc'[b] = "register" =>
                           \A i \in 1 .. next'[b] - 1 : <<offers'[b][i], b>> \in Known'
                      /\ pc'[b] \in {"ready", "serving"} =>
                           \A i \in 1 .. Len(offers'[b]) : <<offers'[b][i], b>> \in Known'
    BY DEF Registered, Known
  <2>1. CASE b = a
    BY <2>1, ServerRegisters
  <2>2. CASE b # a
    <3>1. /\ pc'[b] = pc[b] /\ next'[b] = next[b] /\ offers'[b] = offers[b]
          /\ \A s : <<s, b>> \in Known => <<s, b>> \in Known'
      BY <2>2, ServerEffect
    <3>2. QED
      BY <3>1 DEF IInv, Registered
  <2>3. QED
    BY <2>1, <2>2
<1>7. QED
  BY <1>1, <1>3, <1>4, <1>5, <1>6 DEF IInv
-----------------------------------------------------------------------------
\* A check that unregisters an entry of a server that is registering or
\* serving it is excused.
LEMMA UnregisterExcused ==
  ASSUME IInv, NEW w \in Workers, Unregister(w),
         NEW s \in Srvs, NEW a \in Addrs, pc[a] \in {"register", "ready", "serving"},
         <<s, a>> \in Known
  PROVE  <<s, a>> \in Known'
<1>1. CASE job[w] # <<s, a>>
  BY <1>1 DEF Unregister, Known
<1>2. CASE job[w] = <<s, a>> /\ Excusable(w)
  BY <1>2 DEF Unregister, Known
<1>3. CASE job[w] = <<s, a>> /\ ~Excusable(w)
  <2>1. began[w] = starts[a] /\ lost[w] # maxTries /\ doomed[w]
    BY <1>3 DEF Excusable, Unregister
  <2>2. starts[a] >= 1
    BY DEF IInv, Named
  <2>3. pc[a] = "serving"
    BY <1>3, <2>1, <2>2 DEF IInv, Begun
  <2>4. QED
    BY <1>3, <2>1, <2>3 DEF IInv, Counted
<1>4. QED
  BY <1>1, <1>2, <1>3

\* A step of the checker preserves the invariant.
LEMMA CheckerInv ==
  ASSUME IInv,
         \/ Load
         \/ \E w \in Workers, e \in Entries : Dispatch(w, e)
         \/ \E w \in Workers : Ping(w) \/ Unregister(w) \/ UnregisterFails(w)
  PROVE  IInv'
<1>1. TypeOK'
  BY CheckerType DEF IInv
<1>2. UNCHANGED servers
  BY DEF Load, Dispatch, Ping, PingOk, PingRefused, PingErrs, Unregister, UnregisterFails
<1>3. Named'
  BY <1>2 DEF servers, IInv, Named
<1>4. \A b \in Addrs : starts[b] \in Nat
  BY MaxStartsAssumption DEF IInv, TypeOK
<1>5. Begun' /\ Counted'
  <2> SUFFICES ASSUME NEW w \in Workers, NEW s \in Srvs, NEW a \in Addrs,
                      job'[w] = <<s, a>>
               PROVE  /\ began'[w] <= starts'[a]
                      /\ began'[w] = starts'[a] /\ starts'[a] >= 1 =>
                           /\ pc'[a] \notin {"register", "ready"}
                           /\ Offered(<<s, a>>)' /\ healthy'[a]
                      /\ began'[w] = starts'[a] /\ pc'[a] = "serving" =>
                           /\ tries'[w] = lost'[w]
                           /\ doomed'[w] => lost'[w] = maxTries
    BY DEF Begun, Counted
  <2>0. /\ pc' = pc /\ starts' = starts /\ healthy' = healthy
        /\ Offered(<<s, a>>)' <=> Offered(<<s, a>>)
        /\ starts[a] \in Nat
        /\ <<s, a>>[1] = s /\ <<s, a>>[2] = a /\ <<s, a>> # None
    BY <1>2, <1>4, NoneAssumption DEF servers, Offered, Entries
  <2>1. CASE job[w] # <<s, a>>
    <3>1. PICK v \in Workers, e \in Entries : Dispatch(v, e)
      BY <2>1, <2>0 DEF Load, Ping, PingOk, PingRefused, PingErrs, Unregister,
                        UnregisterFails, Done, IInv, TypeOK, checks
    <3>2. v = w /\ e = <<s, a>>
      BY <2>1, <3>1 DEF Dispatch, IInv, TypeOK
    <3>3. /\ tries'[w] = 0 /\ lost'[w] = 0 /\ doomed'[w] = FALSE
          /\ began'[w] = IF Answers(<<s, a>>) THEN starts[a] ELSE 0
      BY <2>0, <3>1, <3>2 DEF Dispatch, IInv, TypeOK
    <3>4. Answers(<<s, a>>) => pc[a] = "serving" /\ healthy[a] /\ Offered(<<s, a>>)
      BY <2>0 DEF Answers, Replies
    <3>5. starts[a] >= 1 \/ pc[a] = "down"
      BY DEF IInv, Named
    <3>6. QED
      BY <2>0, <3>3, <3>4, <3>5
  <2>2. CASE job[w] = <<s, a>>
    <3>0. /\ began[w] <= starts[a]
          /\ began[w] = starts[a] /\ starts[a] >= 1 =>
               /\ pc[a] \notin {"register", "ready"}
               /\ Offered(<<s, a>>) /\ healthy[a]
          /\ began[w] = starts[a] /\ pc[a] = "serving" =>
               /\ tries[w] = lost[w]
               /\ doomed[w] => lost[w] = maxTries
      BY <2>2 DEF IInv, Begun, Counted
    <3>1. CASE UNCHANGED <<began[w], tries[w], lost[w], doomed[w]>>
      BY <2>0, <3>0, <3>1
    <3>2. CASE PingErrs(w)
      <4>1. began' = began /\ tries[w] \in Nat /\ lost[w] \in Nat
        BY <3>2 DEF PingErrs, IInv, TypeOK, maxTries
      <4>2. /\ tries'[w] = tries[w] + 1
            /\ doomed'[w] = (tries[w] + 1 = maxTries)
            /\ Answers(<<s, a>>) => lost'[w] = lost[w] + 1
        BY <2>2, <3>2 DEF PingErrs, IInv, TypeOK
      <4>3. pc[a] = "serving" => starts[a] >= 1
        BY DEF IInv, Named
      <4>4. began[w] = starts[a] /\ pc[a] = "serving" => Answers(<<s, a>>)
        BY <2>0, <3>0, <4>3 DEF Answers, Replies
      <4>5. QED
        BY <2>0, <3>0, <4>1, <4>2, <4>4
    <3>3. CASE PingRefused(w)
      <4>1. UNCHANGED <<began, tries, lost>> /\ ~Offered(<<s, a>>)
        BY <2>2, <3>3 DEF PingRefused
      <4>2. pc[a] = "serving" => starts[a] >= 1
        BY DEF IInv, Named
      <4>3. QED
        BY <2>0, <3>0, <4>1, <4>2
    <3>4. CASE ~PingErrs(w) /\ ~PingRefused(w)
      <4>1. UNCHANGED <<began[w], tries[w], lost[w], doomed[w]>>
        <5>1. CASE Load
          BY <5>1 DEF Load, checks
        <5>2. ASSUME NEW v \in Workers, NEW e \in Entries, Dispatch(v, e)
              PROVE  UNCHANGED <<began[w], tries[w], lost[w], doomed[w]>>
          <6>1. v # w
            BY <2>0, <2>2, <5>2 DEF Dispatch
          <6>2. QED
            BY <5>2, <6>1 DEF Dispatch, IInv, TypeOK
        <5>3. ASSUME NEW v \in Workers, PingErrs(v) \/ PingRefused(v)
              PROVE  UNCHANGED <<began[w], tries[w], lost[w], doomed[w]>>
          <6>1. v # w
            BY <3>4, <5>3
          <6>2. QED
            BY <5>3, <6>1 DEF PingErrs, PingRefused, IInv, TypeOK
        <5>4. ASSUME NEW v \in Workers, PingOk(v) \/ Unregister(v) \/ UnregisterFails(v)
              PROVE  UNCHANGED <<began[w], tries[w], lost[w], doomed[w]>>
          BY <5>4 DEF PingOk, Unregister, UnregisterFails, Done
        <5>5. QED
          BY <5>1, <5>2, <5>3, <5>4 DEF Ping
      <4>2. QED
        BY <3>1, <4>1
    <3>5. QED
      BY <3>2, <3>3, <3>4
  <2>3. QED
    BY <2>1, <2>2
<1>6. Registered'
  <2>1. \A a \in Addrs, s \in Srvs :
          pc[a] \in {"register", "ready", "serving"} /\ <<s, a>> \in Known => <<s, a>> \in Known'
    <3> SUFFICES ASSUME NEW a \in Addrs, NEW s \in Srvs,
                        pc[a] \in {"register", "ready", "serving"}, <<s, a>> \in Known
                 PROVE  <<s, a>> \in Known'
      OBVIOUS
    <3>1. CASE \E w \in Workers : Unregister(w)
      BY <3>1, UnregisterExcused
    <3>2. CASE ~ \E w \in Workers : Unregister(w)
      BY <3>2 DEF Load, Dispatch, Ping, PingOk, PingRefused, PingErrs,
                  UnregisterFails, Known
    <3>3. QED
      BY <3>1, <3>2
  <2>2. pc' = pc /\ next' = next /\ offers' = offers
    BY <1>2 DEF servers
  <2> SUFFICES ASSUME NEW a \in Addrs
               PROVE  /\ pc[a] = "register" =>
                           \A i \in 1 .. next[a] - 1 : <<offers[a][i], a>> \in Known'
                      /\ pc[a] \in {"ready", "serving"} =>
                           \A i \in 1 .. Len(offers[a]) : <<offers[a][i], a>> \in Known'
    BY <2>2 DEF Registered, Known
  <2>3. /\ offers[a] \in Seq(Srvs) /\ Len(offers[a]) \in Nat
        /\ next[a] \in Nat
        /\ pc[a] # "down" => next[a] <= Len(offers[a])
    BY OffersType DEF IInv, TypeOK
  <2>4. ASSUME NEW i \in 1 .. Len(offers[a])
        PROVE  offers[a][i] \in Srvs
    BY <2>3
  <2>5. CASE pc[a] = "register"
    <3>1. \A i \in 1 .. next[a] - 1 : <<offers[a][i], a>> \in Known
      BY <2>5 DEF IInv, Registered
    <3>2. \A i \in 1 .. next[a] - 1 : i \in 1 .. Len(offers[a])
      BY <2>3, <2>5
    <3>3. QED
      BY <2>1, <2>4, <2>5, <3>1, <3>2
  <2>6. CASE pc[a] \in {"ready", "serving"}
    BY <2>1, <2>4, <2>6 DEF IInv, Registered
  <2>7. QED
    BY <2>5, <2>6
<1>7. QED
  BY <1>1, <1>3, <1>5, <1>6 DEF IInv
-----------------------------------------------------------------------------
\* The invariant is inductive.
THEOREM Inductive == Spec => []IInv
<1>1. IInv /\ UNCHANGED vars => IInv'
  BY DEF IInv, vars, servers, checks, TypeOK, Named, Begun, Counted, Registered,
         Offered, Known
<1>2. IInv /\ [Next]_vars => IInv'
  BY <1>1, ServerInv, CheckerInv DEF Next
<1>3. QED
  BY InitInv, <1>2, PTL DEF Spec

\* Every variable of the servers and the checker keeps its type, for any
\* services, addresses, workers and number of restarts.
THEOREM TypeCorrect == Spec => []TypeOK
<1>1. IInv => TypeOK
  BY DEF IInv
<1>2. QED
  BY <1>1, Inductive, PTL

(***************************************************************************)
(* A service that is being served with the health handler is registered,   *)
(* unless a check that outlived a restart or lost all of its pings has     *)
(* taken it out.                                                           *)
(***************************************************************************)
THEOREM ServingStays == Spec => []ServingIsRegistered
<1>1. IInv => ServingIsRegistered
  <2> SUFFICES ASSUME IInv, NEW e \in Entries, Answers(e)
               PROVE  e \in registry \cup excused
    BY DEF ServingIsRegistered
  <2>1. PICK s \in Srvs, a \in Addrs : e = <<s, a>>
    BY DEF Entries
  <2>2. pc[a] = "serving" /\ s \in Range(offers[a])
    BY <2>1 DEF Answers, Replies, Offered
  <2>3. PICK i \in 1 .. Len(offers[a]) : s = offers[a][i]
    BY <2>2, OffersType DEF Range, IInv
  <2>4. QED
    BY <2>1, <2>2, <2>3 DEF IInv, Registered, Known
<1>2. QED
  BY <1>1, Inductive, PTL
=============================================================================
