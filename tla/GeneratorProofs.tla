--------------------------- MODULE GeneratorProofs ---------------------------
(***************************************************************************)
(* Proofs about Generator, for any proto files, services and methods, any  *)
(* directories and any number of runs of either generator.  The invariant  *)
(* says what a run under way has left behind it: every place in the loops  *)
(* that it has passed has its file, or is a handler that it could not look *)
(* at, and while it is alone, every mod.go it has passed is whole and its  *)
(* own.                                                                    *)
(***************************************************************************)
EXTENDS Generator, TLAPS

Writing == {"stat", "open", "fill"}

\* The types, without what TypeOK says of places.
Types ==
  /\ defined \in [ProtoFiles -> SUBSET Services]
  /\ saved \in Requests
  /\ disk \in [Files -> {"absent", "cut", "whole", "edited"}]
  /\ mod \in [Homes -> (Runs \cup {Nobody}) \X (ProtoFiles \cup {Nobody})]
  /\ step \in [Runs -> {"idle", "stat", "open", "fill", "emit", "ok", "emitted",
                        "stored", "failed"}]
  /\ asked \in [Runs -> Requests]
  /\ left \in [Runs -> SUBSET Places]
  /\ mixed \subseteq Kept /\ raced \subseteq Kept /\ unseen \subseteq Kept
  /\ overlapped \subseteq Runs

\* A request is for services that its proto files may declare.
OfProtos(req) == \A p \in DOMAIN req : req[p] \subseteq ToSet(ServicesOf[p])
Declared == OfProtos(defined) /\ OfProtos(saved) /\ \A r \in Runs : OfProtos(asked[r])

\* No file is edited that every run generates.
EditedIsKept == \A f \in Files : disk[f] = "edited" => f \in Kept

\* No run is about to write an edited file, unless that is marked.
WriterIsMarked ==
  \A r \in Runs, f \in Kept : Writes(r, f) /\ disk[f] = "edited" => f \in raced

\* What is cut off is being written, or was left so.
CutIsKnown == \A f \in Kept : disk[f] = "cut" => f \in mixed \/ \E r \in Runs : StopsAt(r, f)

\* What is left is asked for; what is no longer left, or being filled, is there,
\* unless it could not be looked at.
Passed(f) == disk[f] # "absent" \/ f \in unseen

Progress ==
  \A r \in Runs :
    /\ \A q \in left[r] : Wanted(asked[r], q)
    /\ step[r] \notin Writing \cup {"failed"} => left[r] = {}
    /\ step[r] \in Writing \cup {"ok"} =>
         \A q \in Places \ left[r] : Wanted(asked[r], q) => Passed(FileAt(q))
    /\ step[r] = "fill" => \A q \in Here(r) : disk[FileAt(q)] # "absent"

\* A mod.go that is whole is of a server run, and of a proto file it was asked
\* for.
ModIsAsked ==
  \A d \in Homes : disk[<<d, "mod.go">>] = "whole" =>
    /\ mod[d][1] \in Runs
    /\ step[mod[d][1]] \in Writing \cup {"ok", "failed"}
    /\ mod[d][2] \in DOMAIN asked[mod[d][1]] /\ Home[mod[d][2]] = d

\* What a client run has generated is whole, and stays so.
StubsAreWhole ==
  \A r \in Runs : step[r] = "emitted" =>
    \A p \in DOMAIN asked[r] \cap Messages : disk[<<Home[p], p>>] = "whole"

\* Of two server runs under way, either is known to overlap another.
Lone ==
  \A r, o \in Runs : r # o /\ step[r] \in Writing /\ step[o] \in Writing => r \in overlapped

\* A run alone fills the mod.go it has opened, and nobody touches it until the end.
ModIsFilled ==
  \A r \in Runs \ overlapped : step[r] = "fill" =>
    \A q \in Here(r) : NameAt(q) = "mod.go" => disk[FileAt(q)] = "cut"

ModStays ==
  \A r \in Runs \ overlapped : step[r] \in Writing =>
    \A q \in Places \ left[r] :
      NameAt(q) = "mod.go" /\ Wanted(asked[r], q) /\ Alone(r, ProtoAt(q)) =>
        /\ mod[Home[ProtoAt(q)]] = <<r, ProtoAt(q)>>
        /\ disk[FileAt(q)] = "whole" \/ (step[r] = "fill" /\ FileAt(q) \in Targets(r))

Inv ==
  /\ Types /\ Declared /\ EditedIsKept /\ WriterIsMarked /\ CutIsKnown /\ Progress
  /\ ModIsAsked /\ StubsAreWhole /\ Lone /\ ModIsFilled /\ ModStays

-----------------------------------------------------------------------------
(***************************************************************************)
(* Places and files.                                                       *)
(***************************************************************************)
\* What a place is, and the file that is generated there.
LEMMA PlaceFacts ==
  ASSUME NEW q \in Places
  PROVE  /\ q[1] \in DOMAIN Protos /\ q[1] \in Int /\ q[2] \in Int /\ q[3] \in Int
         /\ ProtoAt(q) \in ProtoFiles
         /\ q[2] = 0 => NameAt(q) \in ToSet(Frame)
         /\ q[2] # 0 => NameAt(q) \in Services \cup Methods
<1>1. CASE q \in FramePlaces
  <2>1. PICK i \in DOMAIN Protos, k \in DOMAIN Frame : q = <<i, 0, k>>
    BY <1>1 DEF FramePlaces
  <2>2. q[1] = i /\ q[2] = 0 /\ q[3] = k /\ i \in Int /\ k \in Int
    BY <2>1, NamesAssumption DEF Frame
  <2>3. Protos[i] \in ProtoFiles /\ Frame[k] \in ToSet(Frame)
    BY <2>1, NamesAssumption DEF ToSet
  <2> QED BY <2>2, <2>3, <2>1 DEF ProtoAt, NameAt
<1>2. CASE q \notin FramePlaces
  <2>1. PICK i \in DOMAIN Protos :
          q \in UNION {HandlerPlaces(i, j) : j \in DOMAIN ServicesOf[Protos[i]]}
    BY <1>2 DEF Places
  <2>2. PICK j \in DOMAIN ServicesOf[Protos[i]] : q \in HandlerPlaces(i, j)
    BY <2>1
  <2>3. PICK k \in 0 .. Len(MethodsOf[ServicesOf[Protos[i]][j]]) : q = <<i, j, k>>
    BY <2>2 DEF HandlerPlaces
  <2>4. Protos[i] \in ProtoFiles
    BY NamesAssumption DEF ToSet
  <2>5. ServicesOf[Protos[i]] \in Seq(Services)
    BY <2>4, NamesAssumption
  <2>6. j \in 1 .. Len(ServicesOf[Protos[i]]) /\ ServicesOf[Protos[i]][j] \in Services
    BY <2>5
  <2>7. MethodsOf[ServicesOf[Protos[i]][j]] \in Seq(Methods)
    BY <2>6, NamesAssumption
  <2>8. k # 0 => MethodsOf[ServicesOf[Protos[i]][j]][k] \in Methods
    BY <2>7
  <2>9. q[1] = i /\ q[2] = j /\ q[3] = k /\ i \in Int /\ j \in Int /\ k \in Int /\ j # 0
    BY <2>3, <2>6, NamesAssumption
  <2> QED BY <2>9, <2>4, <2>6, <2>8 DEF ProtoAt, NameAt, ServiceAt
<1> QED BY <1>1, <1>2

LEMMA FileFacts ==
  ASSUME NEW q \in Places
  PROVE  /\ FileAt(q) \in Files
         /\ FileAt(q)[2] = NameAt(q)
         /\ NameAt(q) \notin ProtoFiles
         /\ NameAt(q) = "mod.go" => q[2] = 0 /\ FileAt(q) = <<Home[ProtoAt(q)], "mod.go">>
         /\ NameAt(q) # "mod.go" => \A d : FileAt(q) # <<d, "mod.go">>
         /\ Home[ProtoAt(q)] \in Homes
<1>1. "mod.go" \in ToSet(Frame) /\ "go.mod" \in ToSet(Frame)
  <2>1. Frame[3] = "mod.go" /\ Frame[1] = "go.mod" /\ 1 \in DOMAIN Frame /\ 3 \in DOMAIN Frame
    BY DEF Frame
  <2> QED BY <2>1 DEF ToSet
<1>2. NameAt(q) \in Names /\ NameAt(q) \notin ProtoFiles
  BY PlaceFacts, NamesAssumption DEF Names
<1>3. Home[ProtoAt(q)] \in Homes
  BY PlaceFacts DEF Homes
<1>4. FileAt(q) \in Files /\ FileAt(q)[2] = NameAt(q)
  BY <1>2, <1>3 DEF FileAt, Files
<1>5. NameAt(q) = "mod.go" => q[2] = 0
  BY <1>1, PlaceFacts, NamesAssumption
<1>6. NameAt(q) = "mod.go" => FileAt(q) = <<Home[ProtoAt(q)], "mod.go">>
  BY DEF FileAt
<1> QED BY <1>2, <1>3, <1>4, <1>5, <1>6

\* A file with the name of a proto file is none that the developer or the
\* server generator has to do with; mod.go is none that is kept.
LEMMA StubFacts ==
  ASSUME NEW p \in ProtoFiles
  PROVE  /\ <<Home[p], p>> \in Files /\ <<Home[p], p>> \notin Kept
         /\ \A q \in Places : FileAt(q) # <<Home[p], p>>
         /\ \A d : <<d, "mod.go">> # <<Home[p], p>>
<1>1. "mod.go" \in ToSet(Frame)
  <2>1. Frame[3] = "mod.go" /\ 3 \in DOMAIN Frame
    BY DEF Frame
  <2> QED BY <2>1 DEF ToSet
<1>2. p # "mod.go"
  BY <1>1, NamesAssumption
<1>3. \A q \in Places : FileAt(q)[2] # p
  BY FileFacts
<1> QED BY <1>2, <1>3 DEF Files, Homes, Names, Kept

LEMMA ModFacts ==
  ASSUME NEW d \in Homes
  PROVE  <<d, "mod.go">> \in Files /\ <<d, "mod.go">> \notin Kept
<1>1. "mod.go" \in ToSet(Frame)
  <2>1. Frame[3] = "mod.go" /\ 3 \in DOMAIN Frame
    BY DEF Frame
  <2> QED BY <2>1 DEF ToSet
<1> QED BY <1>1 DEF Files, Names, Kept, Always

\* A handler, and boot.go, are kept.
LEMMA KeptFacts ==
  ASSUME NEW q \in Places, NameAt(q) = "boot.go" \/ IsHandler(q)
  PROVE  FileAt(q) \in Kept /\ NameAt(q) # "mod.go"
<1>1. {"mod.go", "net.go"} \subseteq ToSet(Frame)
  <2>1. Frame[3] = "mod.go" /\ Frame[4] = "net.go" /\ {3, 4} \subseteq DOMAIN Frame
    BY DEF Frame
  <2> QED BY <2>1 DEF ToSet
<1>2. NameAt(q) \notin {"mod.go", "net.go"}
  BY <1>1, PlaceFacts, NamesAssumption DEF IsHandler
<1> QED BY <1>2, FileFacts DEF Kept, Always

\* A run is at one place at most.
LEMMA HereIsOne ==
  ASSUME Types, NEW r \in Runs, NEW q \in Here(r)
  PROVE  Here(r) = {q} /\ Targets(r) = {FileAt(q)} /\ q \in left[r] /\ q \in Places
<1>1. left[r] \subseteq Places
  BY DEF Types
<1>2. ASSUME NEW p \in Here(r) PROVE p = q
  <2>1. p \in Places /\ q \in Places
    BY <1>1 DEF Here
  <2>2. p = q \/ (Before(p, q) /\ Before(q, p))
    BY DEF Here
  <2> QED BY <2>1, <2>2, PlaceFacts DEF Before
<1>3. Here(r) = {q}
  BY <1>2
<1> QED BY <1>1, <1>3 DEF Targets, Here

\* What a run that stays as it is writes.
LEMMA Rest ==
  ASSUME NEW o \in Runs, left'[o] = left[o]
  PROVE  /\ Here(o)' = Here(o)
         /\ Targets(o)' = Targets(o)
         /\ step'[o] = step[o] => \A f : /\ Writes(o, f)' <=> Writes(o, f)
                                         /\ StopsAt(o, f)' <=> StopsAt(o, f)
  BY DEF Here, Targets, Writes, StopsAt

-----------------------------------------------------------------------------
(***************************************************************************)
(* The initial states, and the steps that leave all files alone.           *)
(***************************************************************************)
LEMMA InitInv == Init => Inv
<1> SUFFICES ASSUME Init PROVE Inv
  OBVIOUS
<1> USE DEF Init
<1>1. Types
  <2>1. defined \in [ProtoFiles -> SUBSET Services]
    <3>1. \A s \in Services : {s} \in SUBSET Services
      OBVIOUS
    <3> QED BY <3>1
  <2>2. <<>> \in Requests
    <3>1. <<>> \in [{} -> SUBSET Services]
      OBVIOUS
    <3> QED BY <3>1 DEF Requests
  <2> QED BY <2>1, <2>2 DEF Types
<1>2. Declared
  BY DEF Declared, OfProtos
<1>3. EditedIsKept /\ WriterIsMarked /\ CutIsKnown
  BY DEF EditedIsKept, WriterIsMarked, CutIsKnown, Kept
<1>9. StubsAreWhole /\ Lone
  BY DEF StubsAreWhole, Lone, Writing
<1>4. Progress
  BY DEF Progress, Writing
<1>5. ModIsAsked
  BY ModFacts DEF ModIsAsked
<1>6. ModIsFilled /\ ModStays
  BY DEF ModIsFilled, ModStays, Writing
<1> QED BY <1>1, <1>2, <1>3, <1>4, <1>5, <1>6, <1>9 DEF Inv

\* No run moves and no file changes.
LEMMA NothingMoves ==
  ASSUME Inv, UNCHANGED <<saved, files, run, past>>,
         defined' \in [ProtoFiles -> SUBSET Services], OfProtos(defined')
  PROVE  Inv'
<1> USE DEF files, run, past
<1>1. \A r \in Runs : /\ Here(r)' = Here(r) /\ Targets(r)' = Targets(r)
                      /\ \A f : (Writes(r, f)' <=> Writes(r, f)) /\ (StopsAt(r, f)' <=> StopsAt(r, f))
  BY Rest DEF StopsAt
<1>2. Types'
  BY DEF Inv, Types
<1>3. Declared'
  BY DEF Inv, Declared
<1>4. (EditedIsKept /\ WriterIsMarked /\ CutIsKnown /\ StubsAreWhole /\ Lone)'
  BY <1>1 DEF Inv, EditedIsKept, WriterIsMarked, CutIsKnown, StubsAreWhole, Lone
<1>5. Progress'
  BY <1>1 DEF Inv, Progress, Passed
<1>6. ModIsAsked'
  BY DEF Inv, ModIsAsked
<1>7. ModIsFilled'
  BY <1>1 DEF Inv, ModIsFilled
<1>8. ModStays'
  BY <1>1 DEF Inv, ModStays, Alone
<1> QED BY <1>2, <1>3, <1>4, <1>5, <1>6, <1>7, <1>8 DEF Inv

LEMMA DeclareStep ==
  ASSUME Inv, NEW p \in ProtoFiles, NEW s \in Services, Declare(p, s)
  PROVE  Inv'
<1>1. /\ s \in ToSet(ServicesOf[p])
      /\ defined' = [defined EXCEPT ![p] = @ \cup {s}]
      /\ UNCHANGED <<saved, files, run, past>>
  BY DEF Declare
<1>2. defined \in [ProtoFiles -> SUBSET Services] /\ OfProtos(defined)
  BY DEF Inv, Types, Declared
<1>3. defined' \in [ProtoFiles -> SUBSET Services] /\ OfProtos(defined')
  BY <1>1, <1>2 DEF OfProtos
<1> QED BY <1>1, <1>3, NothingMoves

\* A request is well typed if it is what is declared now, or what was stored.
LEMMA RequestFacts ==
  ASSUME Inv, NEW P \in SUBSET ProtoFiles
  PROVE  Current(P) \in Requests /\ OfProtos(Current(P)) /\ saved \in Requests /\ OfProtos(saved)
<1>1. Current(P) \in [P -> SUBSET Services]
  BY DEF Inv, Types, Current
<1>2. Current(P) \in Requests
  BY <1>1 DEF Requests
<1>3. OfProtos(Current(P))
  BY DEF Inv, Types, Declared, OfProtos, Current
<1> QED BY <1>2, <1>3 DEF Inv, Types, Declared

\* A run goes to a state in which it writes nothing.
LEMMA Rests ==
  ASSUME Inv, NEW r \in Runs, NEW t \in {"emit", "stored", "failed", "ok"},
         step' = [step EXCEPT ![r] = t],
         UNCHANGED <<disk, mod, past, left>>,
         \A o \in Runs \ {r} : asked'[o] = asked[o],
         step[r] = "idle" \/ asked'[r] = asked[r],
         t \in {"emit", "stored"} => step[r] = "idle",
         t = "failed" => step[r] \in Writing \cup {"emit"},
         t = "ok" => step[r] = "stat" /\ left[r] = {},
         (Types /\ Declared)'
  PROVE  Inv'
<1> USE DEF past
<1>1. /\ step'[r] = t /\ step[r] \in Writing \cup {"idle", "emit"}
      /\ \A o \in Runs \ {r} : step'[o] = step[o] /\ asked'[o] = asked[o]
      /\ r \in Runs
  BY DEF Inv, Types, Writing
<1>2. \A o \in Runs : Here(o)' = Here(o) /\ Targets(o)' = Targets(o)
  BY Rest
<1>3. \A o \in Runs \ {r} : \A f : Writes(o, f)' <=> Writes(o, f)
  BY <1>1, Rest
<1>4. \A f : ~Writes(r, f)'
  BY <1>1 DEF Writes
<1>5. EditedIsKept' /\ WriterIsMarked'
  BY <1>3, <1>4 DEF Inv, EditedIsKept, WriterIsMarked
<1>6. CutIsKnown'
  <2>1. \A o \in Runs, f \in Kept : StopsAt(o, f) => StopsAt(o, f)'
    BY <1>1, <1>2 DEF StopsAt, Writing
  <2> QED BY <2>1 DEF Inv, CutIsKnown
<1>7. Progress'
  BY <1>1, <1>2 DEF Inv, Progress, Passed, Writing
<1>8. ModIsAsked'
  BY <1>1 DEF Inv, ModIsAsked, Writing
<1>9. StubsAreWhole'
  BY <1>1 DEF Inv, StubsAreWhole
<1>10. Lone'
  BY <1>1 DEF Inv, Lone, Writing
<1>11. ModIsFilled'
  BY <1>1, <1>2 DEF Inv, ModIsFilled
<1>12. ModStays'
  BY <1>1, <1>2 DEF Inv, ModStays, Writing, Alone
<1> QED
  BY <1>5, <1>6, <1>7, <1>8, <1>9, <1>10, <1>11, <1>12 DEF Inv

-----------------------------------------------------------------------------
(***************************************************************************)
(* A run begins, looks for a file, and is done.                            *)
(***************************************************************************)
LEMMA BeginServerStep ==
  ASSUME Inv, NEW r \in Runs, NEW req \in Requests, OfProtos(req), BeginServer(r, req)
  PROVE  Inv'
<1> DEFINE beside == {o \in Runs : step[o] \in {"stat", "open", "fill"}}
<1>1. /\ step[r] = "idle" /\ step' = [step EXCEPT ![r] = "stat"]
      /\ asked' = [asked EXCEPT ![r] = req]
      /\ left' = [left EXCEPT ![r] = {q \in Places : Wanted(req, q)}]
      /\ overlapped' = overlapped \cup beside \cup (IF beside = {} THEN {} ELSE {r})
      /\ UNCHANGED <<defined, saved, disk, mod, mixed, raced, unseen>>
  BY DEF BeginServer, Goto, files
<1>2. /\ step'[r] = "stat" /\ asked'[r] = req
      /\ left'[r] = {q \in Places : Wanted(req, q)}
      /\ \A o \in Runs \ {r} :
           step'[o] = step[o] /\ asked'[o] = asked[o] /\ left'[o] = left[o]
  BY <1>1 DEF Inv, Types
<1>3. \A o \in Runs \ {r} : /\ Here(o)' = Here(o) /\ Targets(o)' = Targets(o)
                            /\ \A f : (Writes(o, f)' <=> Writes(o, f)) /\ (StopsAt(o, f)' <=> StopsAt(o, f))
  BY <1>2, Rest
<1>4. \A f : ~Writes(r, f)' /\ ~StopsAt(r, f)
  BY <1>1, <1>2 DEF Writes, StopsAt
<1>5. Types'
  BY <1>1 DEF Inv, Types
<1>6. Declared'
  BY <1>1, <1>2 DEF Inv, Declared
<1>7. EditedIsKept' /\ WriterIsMarked'
  BY <1>1, <1>3, <1>4 DEF Inv, EditedIsKept, WriterIsMarked
<1>8. CutIsKnown'
  BY <1>1, <1>3, <1>4 DEF Inv, CutIsKnown
<1>9. Progress'
  <2>1. \A q \in Places : q \in left'[r] <=> Wanted(asked'[r], q)
    BY <1>2
  <2>2. left'[r] \subseteq Places
    BY <1>2
  <2> QED BY <1>1, <1>2, <1>3, <2>1, <2>2 DEF Inv, Progress, Passed, Writing
<1>10. ModIsAsked'
  BY <1>1, <1>2 DEF Inv, ModIsAsked, Writing
<1>11. StubsAreWhole'
  BY <1>1, <1>2 DEF Inv, StubsAreWhole
<1>12. Lone'
  BY <1>1, <1>2 DEF Inv, Lone, Writing
<1>13. ModIsFilled'
  BY <1>1, <1>2, <1>3 DEF Inv, ModIsFilled
<1>14. ModStays'
  <2>1. \A q \in Places \ left'[r] : ~Wanted(asked'[r], q)
    BY <1>2
  <2>2. \A o \in Runs \ {r} : \A p : Alone(o, p)' <=> Alone(o, p)
    BY <1>2 DEF Alone
  <2>3. \A o \in Runs \ overlapped' : o \in Runs \ overlapped
    BY <1>1
  <2> QED BY SMTT(20), <1>1, <1>2, <1>3, <2>1, <2>2, <2>3 DEF Inv, ModStays
<1> QED
  BY <1>5, <1>6, <1>7, <1>8, <1>9, <1>10, <1>11, <1>12, <1>13, <1>14 DEF Inv

LEMMA BeginClientStep ==
  ASSUME Inv, NEW r \in Runs, NEW req \in Requests, OfProtos(req), BeginClient(r, req)
  PROVE  Inv'
<1>1. /\ step[r] = "idle" /\ step' = [step EXCEPT ![r] = "emit"]
      /\ asked' = [asked EXCEPT ![r] = req]
      /\ UNCHANGED <<defined, saved, disk, mod, left, past>>
  BY DEF BeginClient, Goto, files
<1>2. Types'
  BY <1>1 DEF Inv, Types, past
<1>3. Declared'
  BY <1>1 DEF Inv, Types, Declared, past
<1>4. \A o \in Runs \ {r} : asked'[o] = asked[o]
  BY <1>1 DEF Inv, Types, past
<1> QED BY <1>1, <1>2, <1>3, <1>4, Rests

LEMMA StoreRequestStep ==
  ASSUME Inv, NEW r \in Runs, NEW P \in SUBSET ProtoFiles, StoreRequest(r, P)
  PROVE  Inv'
<1>1. /\ step[r] = "idle" /\ step' = [step EXCEPT ![r] = "stored"]
      /\ saved' = Current(P)
      /\ UNCHANGED <<defined, disk, mod, asked, left, past>>
  BY DEF StoreRequest, Goto, files
<1>2. Types' /\ Declared'
  BY <1>1, RequestFacts DEF Inv, Types, Declared, past
<1> QED BY <1>1, <1>2, Rests

LEMMA FailStep ==
  ASSUME Inv, NEW r \in Runs, Fail(r)
  PROVE  Inv'
<1>1. /\ step[r] \in Writing \cup {"emit"} /\ step' = [step EXCEPT ![r] = "failed"]
      /\ UNCHANGED <<defined, saved, disk, mod, asked, left, past>>
  BY DEF Fail, Goto, files, Writing
<1>2. Types' /\ Declared'
  BY <1>1 DEF Inv, Types, Declared, past
<1> QED BY <1>1, <1>2, Rests

LEMMA FinishStep ==
  ASSUME Inv, NEW r \in Runs, Finish(r)
  PROVE  Inv'
<1>1. /\ step[r] = "stat" /\ left[r] = {} /\ step' = [step EXCEPT ![r] = "ok"]
      /\ UNCHANGED <<defined, saved, disk, mod, asked, left, past>>
  BY DEF Finish, Goto, files
<1>2. Types' /\ Declared'
  BY <1>1 DEF Inv, Types, Declared, past
<1> QED BY <1>1, <1>2, Rests

\* The run goes on to the next place, or is about to create the file.
LEMMA StatStep ==
  ASSUME Inv, NEW r \in Runs, Stat(r)
  PROVE  Inv'
<1>1. PICK q \in Here(r) :
        IF FileAt(q) \in Kept /\ disk[FileAt(q)] # "absent"
        THEN NextFile(r, q) /\ UNCHANGED step
        ELSE Goto(r, "open") /\ UNCHANGED left
  BY DEF Stat
<1>2. step[r] = "stat" /\ UNCHANGED <<defined, saved, disk, mod, asked, mixed, raced, unseen, overlapped>>
  BY DEF Stat, files, past
<1>3. Here(r) = {q} /\ Targets(r) = {FileAt(q)} /\ q \in left[r] /\ q \in Places
  BY HereIsOne DEF Inv
<1>4. /\ \A o \in Runs \ {r} : step'[o] = step[o] /\ left'[o] = left[o]
      /\ step'[r] \in {"stat", "open"}
      /\ left'[r] \subseteq left[r]
      /\ step'[r] = "open" => left'[r] = left[r]
      /\ FileAt(q) \in Kept /\ disk[FileAt(q)] # "absent" => step'[r] = "stat"
      /\ left'[r] # left[r] => left'[r] = left[r] \ {q} /\ FileAt(q) \in Kept
                               /\ disk[FileAt(q)] # "absent"
  <2>1. CASE FileAt(q) \in Kept /\ disk[FileAt(q)] # "absent"
    BY <1>1, <1>2, <2>1 DEF NextFile, Inv, Types
  <2>2. CASE ~(FileAt(q) \in Kept /\ disk[FileAt(q)] # "absent")
    BY <1>1, <1>2, <2>2 DEF Goto, Inv, Types
  <2> QED BY <2>1, <2>2
<1>5. \A o \in Runs \ {r} : /\ Here(o)' = Here(o) /\ Targets(o)' = Targets(o)
                            /\ \A f : Writes(o, f)' <=> Writes(o, f)
  BY <1>4, Rest
<1>6. \A f \in Kept : Writes(r, f)' => disk[f] = "absent"
  <2>1. CASE step'[r] = "open"
    <3>1. Targets(r)' = Targets(r)
      BY <1>4, <2>1, Rest
    <3> QED BY <1>3, <1>4, <2>1, <3>1 DEF Writes
  <2>2. CASE step'[r] # "open"
    BY <1>4, <2>2 DEF Writes
  <2> QED BY <2>1, <2>2
<1>7. Types'
  <2>1. step' \in [Runs -> {"idle", "stat", "open", "fill", "emit", "ok", "emitted",
                            "stored", "failed"}]
    BY <1>1 DEF NextFile, Goto, Inv, Types
  <2>2. left' \in [Runs -> SUBSET Places]
    BY <1>1 DEF NextFile, Goto, Inv, Types
  <2> QED BY <1>2, <2>1, <2>2 DEF Inv, Types
<1>8. Declared'
  BY <1>2 DEF Inv, Declared
<1>9. EditedIsKept' /\ WriterIsMarked'
  BY <1>2, <1>5, <1>6 DEF Inv, EditedIsKept, WriterIsMarked
<1>10. CutIsKnown'
  <2>1. \A o \in Runs : \A f : StopsAt(o, f) => StopsAt(o, f)'
    BY <1>2, <1>4, <1>5 DEF StopsAt
  <2> QED BY <1>2, <2>1 DEF Inv, CutIsKnown
<1>11. Progress'
  <2>1. \A p \in Places \ left'[r] :
          Wanted(asked[r], p) => disk[FileAt(p)] # "absent" \/ FileAt(p) \in unseen'
    BY <1>2, <1>4 DEF Inv, Progress, Passed, Writing
  <2> QED BY <1>2, <1>4, <1>5, <2>1 DEF Inv, Progress, Passed, Writing
<1>12. ModIsAsked'
  BY <1>2, <1>4 DEF Inv, ModIsAsked, Writing
<1>13. StubsAreWhole'
  BY <1>2, <1>4 DEF Inv, StubsAreWhole
<1>14. Lone'
  BY <1>2, <1>4 DEF Inv, Lone, Writing
<1>15. ModIsFilled'
  BY <1>2, <1>4, <1>5 DEF Inv, ModIsFilled
<1>16. ModStays'
  <2>1. NameAt(q) = "mod.go" => FileAt(q) \notin Kept
    BY <1>3, FileFacts, ModFacts
  <2>2. \A p \in Places \ left'[r] : NameAt(p) = "mod.go" => p \in Places \ left[r]
    BY <1>4, <2>1
  <2>3. \A o \in Runs : \A p : Alone(o, p)' <=> Alone(o, p)
    BY <1>2 DEF Alone
  <2> QED BY <1>2, <1>4, <1>5, <2>2, <2>3 DEF Inv, ModStays, Writing
<1> QED
  BY <1>7, <1>8, <1>9, <1>10, <1>11, <1>12, <1>13, <1>14, <1>15, <1>16 DEF Inv

\* An error of os.Stat: boot.go is about to be written, a handler passed over.
LEMMA StatFailsStep ==
  ASSUME Inv, NEW r \in Runs, StatFails(r)
  PROVE  Inv'
<1>1. PICK q \in Here(r) :
        \/ /\ NameAt(q) = "boot.go"
           /\ Goto(r, "open")
           /\ raced' = raced \cup {FileAt(q)}
           /\ UNCHANGED <<left, unseen>>
        \/ /\ IsHandler(q)
           /\ NextFile(r, q)
           /\ unseen' = unseen \cup {FileAt(q)}
           /\ UNCHANGED <<step, raced>>
  BY DEF StatFails
<1>2. step[r] = "stat" /\ UNCHANGED <<defined, saved, disk, mod, asked, mixed, overlapped>>
  BY DEF StatFails, files
<1>3. /\ Here(r) = {q} /\ Targets(r) = {FileAt(q)} /\ q \in left[r] /\ q \in Places
      /\ FileAt(q) \in Kept /\ NameAt(q) # "mod.go"
  BY <1>1, HereIsOne, KeptFacts DEF Inv
<1>4. /\ \A o \in Runs \ {r} : step'[o] = step[o] /\ left'[o] = left[o]
      /\ step'[r] \in {"stat", "open"}
      /\ left'[r] \subseteq left[r]
      /\ step'[r] = "open" => left'[r] = left[r] /\ FileAt(q) \in raced'
      /\ left'[r] # left[r] => left'[r] = left[r] \ {q} /\ FileAt(q) \in unseen'
      /\ raced \subseteq raced' /\ unseen \subseteq unseen'
  BY <1>1, <1>2 DEF NextFile, Goto, Inv, Types
<1>5. \A o \in Runs \ {r} : /\ Here(o)' = Here(o) /\ Targets(o)' = Targets(o)
                            /\ \A f : Writes(o, f)' <=> Writes(o, f)
  BY <1>4, Rest
<1>6. \A f \in Kept : Writes(r, f)' => f \in raced'
  <2>1. CASE step'[r] = "open"
    <3>1. Targets(r)' = Targets(r)
      BY <1>4, <2>1, Rest
    <3> QED BY <1>3, <1>4, <2>1, <3>1 DEF Writes
  <2>2. CASE step'[r] # "open"
    BY <1>4, <2>2 DEF Writes
  <2> QED BY <2>1, <2>2
<1>7. Types'
  <2>1. step' \in [Runs -> {"idle", "stat", "open", "fill", "emit", "ok", "emitted",
                            "stored", "failed"}]
    BY <1>1 DEF NextFile, Goto, Inv, Types
  <2>2. left' \in [Runs -> SUBSET Places]
    BY <1>1 DEF NextFile, Goto, Inv, Types
  <2>3. raced' \subseteq Kept /\ unseen' \subseteq Kept
    BY <1>1, <1>3 DEF Inv, Types
  <2> QED BY <1>2, <2>1, <2>2, <2>3 DEF Inv, Types
<1>8. Declared'
  BY <1>2 DEF Inv, Declared
<1>9. EditedIsKept' /\ WriterIsMarked'
  BY <1>2, <1>4, <1>5, <1>6 DEF Inv, EditedIsKept, WriterIsMarked
<1>10. CutIsKnown'
  <2>1. \A o \in Runs : \A f : StopsAt(o, f) => StopsAt(o, f)'
    BY <1>2, <1>4, <1>5 DEF StopsAt
  <2> QED BY <1>2, <2>1 DEF Inv, CutIsKnown
<1>11. Progress'
  <2>1. \A p \in Places \ left'[r] :
          Wanted(asked[r], p) => disk[FileAt(p)] # "absent" \/ FileAt(p) \in unseen'
    BY <1>2, <1>4 DEF Inv, Progress, Passed, Writing
  <2> QED BY <1>2, <1>4, <1>5, <2>1 DEF Inv, Progress, Passed, Writing
<1>12. ModIsAsked'
  BY <1>2, <1>4 DEF Inv, ModIsAsked, Writing
<1>13. StubsAreWhole'
  BY <1>2, <1>4 DEF Inv, StubsAreWhole
<1>14. Lone'
  BY <1>2, <1>4 DEF Inv, Lone, Writing
<1>15. ModIsFilled'
  BY <1>2, <1>4, <1>5 DEF Inv, ModIsFilled
<1>16. ModStays'
  <2>2. \A p \in Places \ left'[r] : NameAt(p) = "mod.go" => p \in Places \ left[r]
    BY <1>3, <1>4
  <2>3. \A o \in Runs : \A p : Alone(o, p)' <=> Alone(o, p)
    BY <1>2 DEF Alone
  <2> QED BY <1>2, <1>4, <1>5, <2>2, <2>3 DEF Inv, ModStays, Writing
<1> QED
  BY <1>7, <1>8, <1>9, <1>10, <1>11, <1>12, <1>13, <1>14, <1>15, <1>16 DEF Inv

-----------------------------------------------------------------------------
(***************************************************************************)
(* The steps that change files.                                            *)
(***************************************************************************)
LEMMA EditStep ==
  ASSUME Inv, NEW f \in Files, Edit(f)
  PROVE  Inv'
<1>1. /\ f \in Kept /\ disk[f] \in {"cut", "whole"}
      /\ disk' = [disk EXCEPT ![f] = "edited"]
      /\ mixed' = mixed \ {f}
      /\ raced' = IF \E r \in Runs : Writes(r, f) THEN raced \cup {f} ELSE raced \ {f}
      /\ UNCHANGED <<defined, saved, mod, step, asked, left, unseen, overlapped>>
  BY NamesAssumption DEF Edit, Put, run
<1>2. \A r \in Runs : /\ Here(r)' = Here(r) /\ Targets(r)' = Targets(r)
                      /\ \A g : (Writes(r, g)' <=> Writes(r, g)) /\ (StopsAt(r, g)' <=> StopsAt(r, g))
  BY <1>1, Rest
<1>3. /\ disk'[f] = "edited"
      /\ \A g : g # f => disk'[g] = disk[g]
      /\ \A g \in Files : disk'[g] = "absent" <=> disk[g] = "absent"
      /\ \A g \in Files \ Kept : disk'[g] = disk[g]
  BY <1>1 DEF Inv, Types
<1>4. Types'
  BY <1>1 DEF Inv, Types
<1>5. Declared'
  BY <1>1 DEF Inv, Declared
<1>6. EditedIsKept'
  BY <1>1, <1>3 DEF Inv, EditedIsKept
<1>7. WriterIsMarked'
  BY <1>1, <1>2, <1>3 DEF Inv, WriterIsMarked
<1>8. CutIsKnown'
  <2> SUFFICES ASSUME NEW g \in Kept, disk'[g] = "cut"
               PROVE  g \in mixed' \/ \E r \in Runs : StopsAt(r, g)'
    BY DEF CutIsKnown
  <2>1. g # f /\ disk[g] = "cut"
    BY <1>3
  <2> QED BY <1>1, <1>2, <2>1 DEF Inv, CutIsKnown
<1>9. Progress'
  <2>1. \A q \in Places : disk'[FileAt(q)] = "absent" <=> disk[FileAt(q)] = "absent"
    BY <1>3, FileFacts
  <2>2. \A r \in Runs : Here(r) \subseteq Places
    BY DEF Inv, Types, Here
  <2> QED BY <1>1, <1>2, <2>1, <2>2 DEF Inv, Progress, Passed
<1>10. ModIsAsked'
  <2>1. \A d \in Homes : disk'[<<d, "mod.go">>] = disk[<<d, "mod.go">>]
    BY <1>3, ModFacts
  <2> QED BY <1>1, <2>1 DEF Inv, ModIsAsked
<1>11. StubsAreWhole'
  <2>1. \A p \in ProtoFiles : disk'[<<Home[p], p>>] = disk[<<Home[p], p>>]
    BY <1>3, StubFacts
  <2> QED BY <1>1, <2>1, NamesAssumption DEF Inv, StubsAreWhole
<1>12. Lone'
  BY <1>1 DEF Inv, Lone
<1>13. \A q \in Places : NameAt(q) = "mod.go" => disk'[FileAt(q)] = disk[FileAt(q)]
  <2> SUFFICES ASSUME NEW q \in Places, NameAt(q) = "mod.go"
               PROVE  disk'[FileAt(q)] = disk[FileAt(q)]
    OBVIOUS
  <2>1. FileAt(q) \in Files \ Kept
    BY FileFacts, ModFacts
  <2> QED BY <1>3, <2>1
<1>14. ModIsFilled'
  <2>1. \A r \in Runs : Here(r) \subseteq Places
    BY DEF Inv, Types, Here
  <2> QED BY <1>1, <1>2, <1>13, <2>1 DEF Inv, ModIsFilled
<1>15. ModStays'
  BY <1>1, <1>2, <1>13 DEF Inv, ModStays, Alone
<1> QED
  BY <1>4, <1>5, <1>6, <1>7, <1>8, <1>9, <1>10, <1>11, <1>12, <1>14, <1>15 DEF Inv

LEMMA EmitStep ==
  ASSUME Inv, NEW r \in Runs, Emit(r)
  PROVE  Inv'
<1>1. /\ step[r] = "emit" /\ step' = [step EXCEPT ![r] = "emitted"]
      /\ disk' = [f \in Files |->
           IF \E p \in DOMAIN asked[r] \cap Messages : f = <<Home[p], p>>
           THEN "whole" ELSE disk[f]]
      /\ UNCHANGED <<defined, saved, mod, asked, left, mixed, raced, unseen, overlapped>>
  BY DEF Emit, Goto, past
<1>2. step'[r] = "emitted" /\ \A o \in Runs \ {r} : step'[o] = step[o]
  BY <1>1 DEF Inv, Types
<1>3. \A o \in Runs : Here(o)' = Here(o) /\ Targets(o)' = Targets(o)
  BY <1>1, Rest
<1>4. \A o \in Runs : \A f : Writes(o, f)' => Writes(o, f)
  BY <1>1, <1>2, <1>3 DEF Writes
<1>5. /\ \A f \in Kept : disk'[f] = disk[f]
      /\ \A f \in Files : disk'[f] \in {disk[f], "whole"}
      /\ \A q \in Places : disk'[FileAt(q)] = disk[FileAt(q)]
      /\ \A d \in Homes : disk'[<<d, "mod.go">>] = disk[<<d, "mod.go">>]
  <2>1. \A f \in Kept : f \in Files
    BY DEF Kept
  <2>2. \A q \in Places : FileAt(q) \in Files
    BY FileFacts
  <2> QED BY <1>1, <2>1, <2>2, StubFacts, ModFacts, NamesAssumption
<1>6. Types'
  <2>1. disk' \in [Files -> {"absent", "cut", "whole", "edited"}]
    BY <1>1 DEF Inv, Types
  <2> QED BY <1>1, <2>1 DEF Inv, Types
<1>7. Declared'
  BY <1>1 DEF Inv, Declared
<1>8. EditedIsKept'
  BY <1>5 DEF Inv, EditedIsKept
<1>9. WriterIsMarked'
  BY <1>1, <1>4, <1>5 DEF Inv, WriterIsMarked
<1>10. CutIsKnown'
  BY <1>1, <1>2, <1>3, <1>5 DEF Inv, CutIsKnown, StopsAt
<1>11. Progress'
  <2>1. \A o \in Runs : Here(o) \subseteq Places
    BY DEF Inv, Types, Here
  <2> QED BY <1>1, <1>2, <1>3, <1>5, <2>1 DEF Inv, Progress, Passed, Writing
<1>12. ModIsAsked'
  BY <1>1, <1>2, <1>5 DEF Inv, ModIsAsked, Writing
<1>13. StubsAreWhole'
  <2> SUFFICES ASSUME NEW o \in Runs, step'[o] = "emitted",
                      NEW p \in DOMAIN asked[o] \cap Messages
               PROVE  disk'[<<Home[p], p>>] = "whole"
    BY <1>1 DEF StubsAreWhole
  <2>1. <<Home[p], p>> \in Files
    BY StubFacts, NamesAssumption
  <2>2. CASE o = r
    BY <1>1, <2>1, <2>2
  <2>3. CASE o # r
    BY <1>2, <1>5, <2>1, <2>3 DEF Inv, StubsAreWhole
  <2> QED BY <2>2, <2>3
<1>14. Lone'
  BY <1>1, <1>2 DEF Inv, Lone, Writing
<1>15. ModIsFilled'
  <2>1. \A o \in Runs : Here(o) \subseteq Places
    BY DEF Inv, Types, Here
  <2> QED BY <1>1, <1>2, <1>3, <1>5, <2>1 DEF Inv, ModIsFilled
<1>16. ModStays'
  BY <1>1, <1>2, <1>3, <1>5 DEF Inv, ModStays, Alone, Writing
<1> QED
  BY <1>6, <1>7, <1>8, <1>9, <1>10, <1>11, <1>12, <1>13, <1>14, <1>15, <1>16 DEF Inv

\* The file is created, or truncated.
LEMMA OpenStep ==
  ASSUME Inv, NEW r \in Runs, Open(r)
  PROVE  Inv'
<1>1. PICK q \in Here(r) : disk' = [disk EXCEPT ![FileAt(q)] = "cut"]
  BY DEF Open, Put
<1>2. /\ step[r] = "open" /\ step' = [step EXCEPT ![r] = "fill"]
      /\ UNCHANGED <<defined, saved, mod, asked, left, mixed, raced, unseen, overlapped>>
  BY DEF Open, Goto, past
<1>3. Here(r) = {q} /\ Targets(r) = {FileAt(q)} /\ q \in left[r] /\ q \in Places
  BY HereIsOne DEF Inv
<1>4. step'[r] = "fill" /\ \A o \in Runs \ {r} : step'[o] = step[o]
  BY <1>2 DEF Inv, Types
<1>5. \A o \in Runs : Here(o)' = Here(o) /\ Targets(o)' = Targets(o)
  BY <1>2, Rest
<1>6. \A o \in Runs : \A f : Writes(o, f)' <=> Writes(o, f)
  BY <1>2, <1>4, <1>5 DEF Writes
<1>7. /\ FileAt(q) \in Files /\ disk'[FileAt(q)] = "cut"
      /\ \A f : f # FileAt(q) => disk'[f] = disk[f]
  BY <1>1, <1>3, FileFacts DEF Inv, Types
<1>8. /\ \A f \in Files : disk'[f] = "absent" => disk[f] = "absent"
      /\ \A f \in Files : disk'[f] = "edited" => disk[f] = "edited"
  BY <1>7
<1>9. Types'
  <2>1. disk' \in [Files -> {"absent", "cut", "whole", "edited"}]
    BY <1>1 DEF Inv, Types
  <2> QED BY <1>2, <2>1 DEF Inv, Types
<1>10. Declared'
  BY <1>2 DEF Inv, Declared
<1>11. EditedIsKept'
  BY <1>8 DEF Inv, EditedIsKept
<1>12. WriterIsMarked'
  BY <1>2, <1>6, <1>8 DEF Inv, WriterIsMarked, Kept
<1>13. CutIsKnown'
  <2> SUFFICES ASSUME NEW f \in Kept, disk'[f] = "cut"
               PROVE  f \in mixed' \/ \E o \in Runs : StopsAt(o, f)'
    BY DEF CutIsKnown
  <2>1. CASE f = FileAt(q)
    BY <1>3, <1>4, <1>5, <2>1 DEF StopsAt
  <2>2. CASE f # FileAt(q)
    <3>1. disk[f] = "cut"
      BY <1>7, <2>2
    <3>2. \A o \in Runs : StopsAt(o, f) => StopsAt(o, f)'
      BY <1>2, <1>4, <1>5 DEF StopsAt
    <3> QED BY <1>2, <1>5, <3>1, <3>2 DEF Inv, CutIsKnown
  <2> QED BY <2>1, <2>2
<1>14. Progress'
  <2>1. \A p \in Places : disk'[FileAt(p)] = "absent" => disk[FileAt(p)] = "absent"
    BY <1>8, FileFacts
  <2>2. \A o \in Runs : Here(o) \subseteq Places
    BY DEF Inv, Types, Here
  <2>3. \A p \in Here(r) : disk'[FileAt(p)] # "absent"
    BY <1>3, <1>7
  <2> QED BY <1>2, <1>4, <1>5, <2>1, <2>2, <2>3 DEF Inv, Progress, Passed, Writing
<1>15. ModIsAsked'
  <2>1. \A f : disk'[f] = "whole" => disk[f] = "whole"
    BY <1>7
  <2> QED BY <1>2, <1>4, <2>1 DEF Inv, ModIsAsked, Writing
<1>16. StubsAreWhole'
  <2>1. \A p \in ProtoFiles : disk'[<<Home[p], p>>] = disk[<<Home[p], p>>]
    BY <1>3, <1>7, StubFacts
  <2> QED BY <1>2, <1>4, <2>1, NamesAssumption DEF Inv, StubsAreWhole
<1>17. Lone'
  BY <1>2, <1>4 DEF Inv, Lone, Writing
<1>18. \A o \in Runs \ overlapped : step'[o] \in Writing => o = r
  BY <1>2, <1>4 DEF Inv, Lone, Writing
<1>19. ModIsFilled'
  BY <1>2, <1>3, <1>5, <1>7, <1>18 DEF ModIsFilled, Writing
<1>20. ModStays'
  <2> SUFFICES ASSUME r \notin overlapped, NEW p \in Places \ left[r],
                      NameAt(p) = "mod.go", Wanted(asked[r], p), Alone(r, ProtoAt(p))
               PROVE  /\ mod[Home[ProtoAt(p)]] = <<r, ProtoAt(p)>>
                      /\ disk'[FileAt(p)] = "whole" \/ FileAt(p) \in Targets(r)
    BY <1>2, <1>4, <1>5, <1>18 DEF ModStays, Alone
  <2>1. /\ mod[Home[ProtoAt(p)]] = <<r, ProtoAt(p)>>
        /\ disk[FileAt(p)] = "whole"
    BY <1>2 DEF Inv, ModStays, Writing
  <2> QED BY <1>3, <1>7, <2>1
<1> QED
  BY <1>9, <1>10, <1>11, <1>12, <1>13, <1>14, <1>15, <1>16, <1>17, <1>19, <1>20 DEF Inv

\* The file is written, over what is there by now, and passed; a mod.go is the
\* run's from now on.
LEMMA FillStep ==
  ASSUME Inv, NEW r \in Runs, Fill(r)
  PROVE  Inv'
<1>1. PICK q \in Here(r), s \in {"whole", "cut"} :
        /\ s = "cut" => disk[FileAt(q)] # "cut"
        /\ disk' = [disk EXCEPT ![FileAt(q)] = s]
        /\ mixed' = IF s = "cut" THEN mixed \cup ({FileAt(q)} \cap Kept) ELSE mixed \ {FileAt(q)}
        /\ mod' = IF NameAt(q) = "mod.go"
                  THEN [mod EXCEPT ![Home[ProtoAt(q)]] = <<r, ProtoAt(q)>>] ELSE mod
        /\ left' = [left EXCEPT ![r] = @ \ {q}]
  BY DEF Fill, Put, NextFile, ModIs
<1>2. /\ step[r] = "fill" /\ step' = [step EXCEPT ![r] = "stat"]
      /\ UNCHANGED <<defined, saved, asked, raced, unseen, overlapped>>
  BY DEF Fill, Goto
<1>3. Here(r) = {q} /\ Targets(r) = {FileAt(q)} /\ q \in left[r] /\ q \in Places
  BY HereIsOne DEF Inv
<1>4. /\ step'[r] = "stat" /\ left'[r] = left[r] \ {q}
      /\ \A o \in Runs \ {r} : step'[o] = step[o] /\ left'[o] = left[o]
  BY <1>1, <1>2 DEF Inv, Types
<1>5. \A o \in Runs \ {r} : Here(o)' = Here(o) /\ Targets(o)' = Targets(o)
  BY <1>4, Rest
<1>6. \A o \in Runs : \A f : Writes(o, f)' => Writes(o, f)
  BY <1>4, <1>5 DEF Writes
<1>7. /\ FileAt(q) \in Files /\ disk'[FileAt(q)] = s
      /\ \A f : f # FileAt(q) => disk'[f] = disk[f]
  BY <1>1, <1>3, FileFacts DEF Inv, Types
<1>8. /\ \A f \in Files : disk'[f] = "absent" => disk[f] = "absent"
      /\ \A f \in Files : disk'[f] = "edited" => disk[f] = "edited"
  BY <1>7
<1>9. Types'
  <2>1. disk' \in [Files -> {"absent", "cut", "whole", "edited"}]
    BY <1>1 DEF Inv, Types
  <2>2. left' \in [Runs -> SUBSET Places]
    BY <1>1 DEF Inv, Types
  <2>3. mixed' \subseteq Kept
    BY <1>1 DEF Inv, Types
  <2>4. mod' \in [Homes -> (Runs \cup {Nobody}) \X (ProtoFiles \cup {Nobody})]
    <3>1. ProtoAt(q) \in ProtoFiles
      BY <1>3, PlaceFacts
    <3> QED BY <1>1, <3>1 DEF Inv, Types
  <2> QED BY <1>2, <2>1, <2>2, <2>3, <2>4 DEF Inv, Types
<1>10. Declared'
  BY <1>2 DEF Inv, Declared
<1>11. EditedIsKept'
  BY <1>8 DEF Inv, EditedIsKept
<1>12. WriterIsMarked'
  BY <1>2, <1>6, <1>8 DEF Inv, WriterIsMarked, Kept
<1>13. CutIsKnown'
  <2> SUFFICES ASSUME NEW f \in Kept, disk'[f] = "cut"
               PROVE  f \in mixed' \/ \E o \in Runs : StopsAt(o, f)'
    BY DEF CutIsKnown
  <2>1. CASE f = FileAt(q)
    BY <1>1, <1>7, <2>1
  <2>2. CASE f # FileAt(q)
    <3>1. disk[f] = "cut" /\ f \notin Targets(r)
      BY <1>3, <1>7, <2>2
    <3>2. CASE f \in mixed
      BY <1>1, <2>2, <3>2
    <3>3. \A o \in Runs : StopsAt(o, f) => StopsAt(o, f)'
      BY <1>4, <1>5, <3>1 DEF StopsAt
    <3> QED BY <3>1, <3>2, <3>3 DEF Inv, CutIsKnown
  <2> QED BY <2>1, <2>2
<1>14. Progress'
  <2>1. \A p \in Places : disk'[FileAt(p)] = "absent" => disk[FileAt(p)] = "absent"
    BY <1>8, FileFacts
  <2>2. \A o \in Runs : Here(o) \subseteq Places
    BY DEF Inv, Types, Here
  <2>3. disk'[FileAt(q)] # "absent"
    BY <1>7
  <2>4. \A p \in Places \ left'[r] : Wanted(asked[r], p) => Passed(FileAt(p))'
    BY <1>2, <1>4, <2>1, <2>3 DEF Inv, Progress, Passed, Writing
  <2>5. \A p \in left'[r] : Wanted(asked[r], p)
    BY <1>4 DEF Inv, Progress
  <2> QED BY <1>2, <1>4, <1>5, <2>1, <2>2, <2>4, <2>5 DEF Inv, Progress, Passed, Writing
<1>15. ModIsAsked'
  <2> SUFFICES ASSUME NEW d \in Homes, disk'[<<d, "mod.go">>] = "whole"
               PROVE  /\ mod'[d][1] \in Runs
                      /\ step'[mod'[d][1]] \in Writing \cup {"ok", "failed"}
                      /\ mod'[d][2] \in DOMAIN asked[mod'[d][1]] /\ Home[mod'[d][2]] = d
    BY <1>2 DEF ModIsAsked
  <2>1. CASE NameAt(q) = "mod.go" /\ d = Home[ProtoAt(q)]
    <3>1. mod'[d] = <<r, ProtoAt(q)>>
      BY <1>1, <2>1 DEF Inv, Types
    <3>2. ProtoAt(q) \in DOMAIN asked[r]
      BY <1>3 DEF Inv, Progress, Wanted
    <3> QED BY <1>4, <2>1, <3>1, <3>2 DEF Writing
  <2>2. CASE ~(NameAt(q) = "mod.go" /\ d = Home[ProtoAt(q)])
    <3>1. mod'[d] = mod[d]
      BY <1>1, <2>2 DEF Inv, Types
    <3>2. FileAt(q) # <<d, "mod.go">>
      BY <1>3, <2>2, FileFacts
    <3>3. disk[<<d, "mod.go">>] = "whole"
      BY <1>7, <3>2
    <3> QED BY <1>4, <3>1, <3>3 DEF Inv, ModIsAsked, Writing
  <2> QED BY <2>1, <2>2
<1>16. StubsAreWhole'
  <2>1. \A p \in ProtoFiles : disk'[<<Home[p], p>>] = disk[<<Home[p], p>>]
    BY <1>3, <1>7, StubFacts
  <2> QED BY <1>2, <1>4, <2>1, NamesAssumption DEF Inv, StubsAreWhole
<1>17. Lone'
  BY <1>2, <1>4 DEF Inv, Lone, Writing
<1>18. \A o \in Runs \ overlapped : step'[o] \in Writing => o = r
  BY <1>2, <1>4 DEF Inv, Lone, Writing
<1>19. ModIsFilled'
  BY <1>2, <1>4, <1>18 DEF ModIsFilled, Writing
<1>20. ModStays'
  <2> SUFFICES ASSUME r \notin overlapped, NEW p \in Places \ left'[r],
                      NameAt(p) = "mod.go", Wanted(asked[r], p), Alone(r, ProtoAt(p))
               PROVE  mod'[Home[ProtoAt(p)]] = <<r, ProtoAt(p)>> /\ disk'[FileAt(p)] = "whole"
    BY <1>2, <1>18 DEF ModStays, Alone
  <2>1. NameAt(q) = "mod.go" => s = "whole" /\ mod'[Home[ProtoAt(q)]] = <<r, ProtoAt(q)>>
    BY <1>1, <1>2, <1>3, FileFacts DEF Inv, Types, ModIsFilled
  <2>2. CASE p = q
    BY <1>7, <2>1, <2>2
  <2>3. CASE p # q
    <3>1. /\ mod[Home[ProtoAt(p)]] = <<r, ProtoAt(p)>>
          /\ disk[FileAt(p)] = "whole" \/ FileAt(p) = FileAt(q)
      BY <1>2, <1>3, <1>4, <2>3 DEF Inv, ModStays, Writing
    <3>2. CASE NameAt(q) = "mod.go" /\ Home[ProtoAt(q)] = Home[ProtoAt(p)]
      <4>1. q[2] = 0 /\ Wanted(asked[r], q)
        BY <1>3, <3>2, FileFacts DEF Inv, Progress
      <4>2. ProtoAt(q) = ProtoAt(p)
        BY <3>2, <4>1 DEF Alone, Wanted
      <4>3. FileAt(q) = FileAt(p)
        BY <1>3, <3>2, FileFacts
      <4> QED BY <1>7, <2>1, <3>2, <4>2, <4>3
    <3>3. CASE ~(NameAt(q) = "mod.go" /\ Home[ProtoAt(q)] = Home[ProtoAt(p)])
      <4>1. mod'[Home[ProtoAt(p)]] = mod[Home[ProtoAt(p)]]
        BY <1>1, <3>3 DEF Inv, Types
      <4>2. FileAt(q) # FileAt(p)
        BY <1>3, <3>3, FileFacts
      <4> QED BY <1>7, <3>1, <4>1, <4>2
    <3> QED BY <3>2, <3>3
  <2> QED BY <2>2, <2>3
<1> QED
  BY <1>9, <1>10, <1>11, <1>12, <1>13, <1>14, <1>15, <1>16, <1>17, <1>19, <1>20 DEF Inv
-----------------------------------------------------------------------------
\* The invariant is inductive.
LEMMA NextInv == Inv /\ [Next]_vars => Inv'
<1> SUFFICES ASSUME Inv, [Next]_vars PROVE Inv'
  OBVIOUS
<1>1. CASE UNCHANGED vars
  <2>1. defined' \in [ProtoFiles -> SUBSET Services] /\ OfProtos(defined')
    BY <1>1 DEF vars, Inv, Types, Declared
  <2> QED BY <1>1, <2>1, NothingMoves DEF vars
<1>2. ASSUME NEW r \in Runs, NEW P \in SUBSET ProtoFiles,
             StoreRequest(r, P) \/ BeginServer(r, Current(P)) \/ BeginClient(r, Current(P))
      PROVE  Inv'
  BY <1>2, RequestFacts, StoreRequestStep, BeginServerStep, BeginClientStep
<1>3. ASSUME NEW r \in Runs, BeginServer(r, saved) \/ BeginClient(r, saved) PROVE Inv'
  <2>1. saved \in Requests /\ OfProtos(saved)
    BY RequestFacts
  <2> QED BY <1>3, <2>1, BeginServerStep, BeginClientStep
<1> QED
  BY <1>1, <1>2, <1>3, DeclareStep, EditStep, StatStep, StatFailsStep, OpenStep, FillStep, FinishStep,
     EmitStep, FailStep
  DEF Next

LEMMA Invariant == Spec => []Inv
  BY InitInv, NextInv, PTL DEF Spec

-----------------------------------------------------------------------------
\* The types, and a run that has ended well has come to all its places.
THEOREM TypeCorrect == Spec => []TypeOK
<1>1. Inv => TypeOK
  BY DEF Inv, Types, Progress, Writing, TypeOK
<1> QED BY <1>1, Invariant, PTL

\* A step from such a state leaves edited files alone, unless they are raced.
LEMMA NextStays ==
  ASSUME Inv, [Next]_vars, NEW f \in Files \ raced, disk[f] = "edited"
  PROVE  disk'[f] = "edited"
<1>1. f \in Kept /\ \A r \in Runs : ~Writes(r, f)
  BY DEF Inv, EditedIsKept, WriterIsMarked
<1>2. CASE UNCHANGED disk
  BY <1>2
<1>3. ASSUME NEW g \in Files, Edit(g) PROVE disk'[f] = "edited"
  BY <1>3 DEF Edit, Put, Inv, Types
<1>4. ASSUME NEW r \in Runs, Open(r) \/ Fill(r) PROVE disk'[f] = "edited"
  <2>1. PICK q \in Here(r), s \in {"whole", "cut"} : disk' = [disk EXCEPT ![FileAt(q)] = s]
    BY <1>4 DEF Open, Fill, Put
  <2>2. FileAt(q) # f
    BY <1>1, <1>4 DEF Writes, Open, Fill, Targets
  <2> QED BY <2>1, <2>2 DEF Inv, Types
<1>5. ASSUME NEW r \in Runs, Emit(r) PROVE disk'[f] = "edited"
  <2>1. \A p \in DOMAIN asked[r] \cap Messages : f # <<Home[p], p>>
    BY <1>1, StubFacts, NamesAssumption
  <2> QED BY <1>5, <2>1 DEF Emit
<1> QED
  BY <1>2, <1>3, <1>4, <1>5
  DEF Next, vars, files, Declare, BeginServer, BeginClient, StoreRequest, Stat, StatFails, Finish, Fail

\* What the developer has written into a generated file stays, but for a race,
\* or an error of os.Stat for boot.go.
THEOREM UserCode == Spec => UserCodeStays
<1>1. Inv /\ [Next]_vars => [\A f \in Files \ raced : disk[f] = "edited" => disk'[f] = "edited"]_vars
  BY NextStays
<1> QED BY <1>1, Invariant, PTL DEF Spec, UserCodeStays

\* Where a run has ended well, the files of what it was asked for are there,
\* but for handlers that could not be looked at.
LEMMA EndedIsThere ==
  ASSUME Inv, NEW r \in Runs, step[r] = "ok", NEW p \in DOMAIN asked[r],
         NEW s \in asked[r][p], NEW name \in {s} \cup ToSet(MethodsOf[s])
  PROVE  /\ <<Home[p], name>> \in Kept
         /\ Passed(<<Home[p], name>>)
<1>1. asked[r] \in Requests
  BY DEF Inv, Types
<1>2. p \in ProtoFiles /\ s \in ToSet(ServicesOf[p])
  BY <1>1 DEF Inv, Declared, OfProtos, Requests
<1>3. PICK i \in DOMAIN Protos : Protos[i] = p
  BY <1>2 DEF ProtoFiles, ToSet
<1>4. PICK j \in DOMAIN ServicesOf[p] : ServicesOf[p][j] = s
  BY <1>2 DEF ToSet
<1>5. ServicesOf[p] \in Seq(Services) /\ s \in Services /\ j # 0
  BY <1>2, <1>4, NamesAssumption
<1>6. MethodsOf[s] \in Seq(Methods)
  BY <1>5, NamesAssumption
<1>7. PICK k \in 0 .. Len(MethodsOf[s]) : name = IF k = 0 THEN s ELSE MethodsOf[s][k]
  <2>1. CASE name = s
    <3>1. Len(MethodsOf[s]) \in Nat /\ 0 \in 0 .. Len(MethodsOf[s])
      BY <1>6
    <3> QED BY <2>1, <3>1
  <2>2. CASE name # s
    <3>1. PICK k \in DOMAIN MethodsOf[s] : MethodsOf[s][k] = name
      BY <2>2 DEF ToSet
    <3> QED BY <1>6, <3>1
  <2> QED BY <2>1, <2>2
<1> DEFINE q == <<i, j, k>>
<1>8. q \in Places
  <2>1. q \in HandlerPlaces(i, j)
    BY <1>3, <1>4, <1>7 DEF HandlerPlaces
  <2> QED BY <1>3, <1>4, <2>1 DEF Places
<1>9. ProtoAt(q) = p /\ ServiceAt(q) = s /\ NameAt(q) = name
  BY <1>3, <1>4, <1>5, <1>7 DEF ProtoAt, ServiceAt, NameAt
<1>10. name \in Services \cup Methods
  BY <1>5, <1>8, <1>9, PlaceFacts
<1>11. FileAt(q) = <<Home[p], name>> /\ name \notin {"go.mod", "mod.go", "net.go"}
  <2>1. {"go.mod", "mod.go", "net.go"} \subseteq ToSet(Frame)
    <3>1. /\ Frame[1] = "go.mod" /\ Frame[3] = "mod.go" /\ Frame[4] = "net.go"
          /\ {1, 3, 4} \subseteq DOMAIN Frame
      BY DEF Frame
    <3> QED BY <3>1 DEF ToSet
  <2> QED BY <1>9, <1>10, <2>1, NamesAssumption DEF FileAt
<1>12. <<Home[p], name>> \in Kept
  <2>1. FileAt(q) \in Files /\ NameAt(q) \notin ProtoFiles
    BY <1>8, FileFacts
  <2> QED BY <1>9, <1>11, <2>1 DEF Kept, Always
<1>13. Wanted(asked[r], q) /\ q \notin left[r]
  BY <1>5, <1>9 DEF Wanted, Inv, Progress, Writing
<1> QED BY <1>8, <1>11, <1>12, <1>13 DEF Inv, Progress

(***************************************************************************)
(* What a mod.go of a successful run registers is handled, and the names   *)
(* it takes from a stub are there if the client generator has succeeded.   *)
(***************************************************************************)
THEOREM RegisteredIsHandled == Spec => []ServedIsHandled
<1>1. ASSUME Inv PROVE ServedIsHandled
  <2> SUFFICES ASSUME NEW d \in Homes, Ready(d)
      PROVE  /\ \A f \in Handlers(d) : Handled(f)
             /\ \A c \in Runs :
                  mod[d][2] \in Messages /\ step[c] = "emitted" /\ asked[c] = asked[mod[d][1]]
                    => disk[<<d, mod[d][2]>>] = "whole"
    BY DEF ServedIsHandled
  <2> DEFINE r == mod[d][1]
             p == mod[d][2]
  <2>1. r \in Runs /\ step[r] = "ok" /\ p \in DOMAIN asked[r] /\ Home[p] = d
    BY <1>1 DEF Ready, Inv, ModIsAsked
  <2>2. ASSUME NEW f \in Handlers(d) PROVE Handled(f)
    <3>1. PICK name \in UNION {{s} \cup ToSet(MethodsOf[s]) : s \in asked[r][p]} : f = <<d, name>>
      BY DEF Handlers, Registered
    <3>2. PICK s \in asked[r][p] : name \in {s} \cup ToSet(MethodsOf[s])
      BY <3>1
    <3>3. f \in Kept /\ Passed(f)
      BY <1>1, <2>1, <3>1, <3>2, EndedIsThere
    <3>4. disk[f] \in {"absent", "cut", "whole", "edited"}
      BY <1>1, <3>3 DEF Inv, Types, Kept
    <3> QED BY <1>1, <3>3, <3>4 DEF Handled, StopsAt, Passed, Inv, CutIsKnown, StopsAt
  <2>3. ASSUME NEW c \in Runs, p \in Messages, step[c] = "emitted", asked[c] = asked[r]
        PROVE  disk[<<d, p>>] = "whole"
    BY <1>1, <2>1, <2>3 DEF Inv, StubsAreWhole
  <2> QED BY <2>2, <2>3
<1> QED BY <1>1, Invariant, PTL

\* A run that ends well, with no other beside it, has registered its request.
LEMMA EndsRegistered ==
  ASSUME Inv, [Next]_vars, NEW r \in Runs \ overlapped, step[r] = "stat", step'[r] = "ok",
         NEW p \in DOMAIN asked[r], asked[r][p] # {}, Alone(r, p)
  PROVE  Ready(Home[p])' /\ asked[r][p] = Registered(Home[p])'
<1>1. Finish(r)
  <2>1. ASSUME NEW o \in Runs, NEW t, step' = [step EXCEPT ![o] = t]
        PROVE  o = r /\ t = "ok"
    BY <2>1 DEF Inv, Types
  <2>2. ~UNCHANGED step
    OBVIOUS
  <2>3. ~UNCHANGED vars /\ \A q, s : ~Declare(q, s) /\ \A f : ~Edit(f)
    BY <2>2 DEF vars, run, Declare, Edit
  <2>4. \A o \in Runs : /\ \A req : ~BeginServer(o, req) /\ ~BeginClient(o, req)
                        /\ \A P : ~StoreRequest(o, P)
    BY <2>1 DEF BeginServer, BeginClient, StoreRequest, Goto
  <2>5. \A o \in Runs : ~Stat(o) /\ ~StatFails(o)
    BY <2>1, <2>2 DEF Stat, StatFails, Goto
  <2>6. \A o \in Runs : ~Open(o) /\ ~Fill(o) /\ ~Emit(o) /\ ~Fail(o)
    BY <2>1 DEF Open, Fill, Emit, Fail, Goto
  <2>7. \A o \in Runs : Finish(o) => o = r
    BY <2>1 DEF Finish, Goto
  <2> QED BY <2>3, <2>4, <2>5, <2>6, <2>7 DEF Next
<1>2. left[r] = {} /\ UNCHANGED <<disk, mod, asked>>
  BY <1>1 DEF Finish, files
<1>3. p \in ProtoFiles
  BY DEF Inv, Types, Requests
<1>4. PICK i \in DOMAIN Protos : Protos[i] = p
  BY <1>3 DEF ProtoFiles, ToSet
<1> DEFINE q == <<i, 0, 3>>
<1>5. q \in Places /\ ProtoAt(q) = p /\ NameAt(q) = "mod.go"
  <2>1. 3 \in DOMAIN Frame /\ Frame[3] = "mod.go"
    BY DEF Frame
  <2>2. q \in FramePlaces
    BY <2>1, <1>4 DEF FramePlaces
  <2> QED BY <1>4, <2>1, <2>2 DEF Places, ProtoAt, NameAt
<1>6. Wanted(asked[r], q)
  BY <1>5 DEF Wanted
<1>7. mod[Home[p]] = <<r, p>> /\ disk[<<Home[p], "mod.go">>] = "whole"
  BY <1>2, <1>5, <1>6, FileFacts DEF Inv, ModStays, Writing
<1> QED BY <1>2, <1>7 DEF Ready, Registered

THEOREM Registers == Spec => AllRegistered
<1>1. Inv /\ [Next]_vars =>
        [\A r \in Runs \ overlapped : step[r] = "stat" /\ step'[r] = "ok" =>
           \A p \in DOMAIN asked[r] : asked[r][p] # {} /\ Alone(r, p) =>
             Ready(Home[p])' /\ asked[r][p] = Registered(Home[p])']_vars
  BY EndsRegistered
<1> QED BY <1>1, Invariant, PTL DEF Spec, AllRegistered
=============================================================================
