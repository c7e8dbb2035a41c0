--------------------------- MODULE GeneratorFiles ---------------------------
\* The proto files, and the files that are generated for them.
EXTENDS Integers, SequencesExt

CONSTANTS
  Protos,       \* the proto files, as a sequence in protoc's order
  Home,         \* the directory each generates into: that of its Go package
  ServicesOf,   \* the services each may come to declare, in order
  MethodsOf,    \* the methods of each service, in order
  Messages,     \* the proto files that declare a message
  Runs,         \* the runs of either generator
  Edited,       \* the generated files that the developer edits
  Nobody        \* no service, no run

ProtoFiles  == ToSet(Protos)
Services    == UNION {ToSet(ServicesOf[p]) : p \in ProtoFiles}
Methods     == UNION {ToSet(MethodsOf[s]) : s \in Services}

\* The files every server has, in the order they are generated in.
Frame  == <<"go.mod", "main.go", "mod.go", "net.go", "boot.go">>
\* Generated afresh by every run; all others only if they are missing.
Always == {"mod.go", "net.go"}
Names  == ToSet(Frame) \cup Services \cup Methods \cup ProtoFiles
Homes  == {Home[p] : p \in ProtoFiles}
Files  == (Homes \X Names) \cup {<<Nobody, "go.mod">>}
Kept   == {f \in Files : f[2] \notin Always \cup ProtoFiles}

ASSUME NamesAssumption ==
  /\ Protos \in Seq(ProtoFiles)
  /\ ServicesOf \in [ProtoFiles -> Seq(Services)]
  /\ MethodsOf \in [Services -> Seq(Methods)]
  /\ ProtoFiles \cap (ToSet(Frame) \cup Services \cup Methods) = {}
  /\ ToSet(Frame) \cap (Services \cup Methods) = {}
  /\ Nobody \notin Services \cup Runs
  /\ Edited \subseteq Kept
  /\ Messages \subseteq ProtoFiles

(***************************************************************************)
(* The places in the loops of genServerSkeleton, each of which generates   *)
(* one file: <<i, 0, k>> is that of the k-th file of the frame, for the    *)
(* i-th proto file; <<i, j, 0>> that of the handler of its j-th service,   *)
(* and <<i, j, k>> that of the service's k-th method.                      *)
(***************************************************************************)
FramePlaces == {<<i, 0, k>> : i \in DOMAIN Protos, k \in DOMAIN Frame}

HandlerPlaces(i, j) ==
  {<<i, j, k>> : k \in 0 .. Len(MethodsOf[ServicesOf[Protos[i]][j]])}

Places ==
  FramePlaces \cup
  UNION {UNION {HandlerPlaces(i, j) : j \in DOMAIN ServicesOf[Protos[i]]} : i \in DOMAIN Protos}

\* The loops come to place q before place p.
Before(q, p) ==
  \/ q[1] < p[1]
  \/ q[1] = p[1] /\ q[2] < p[2]
  \/ q[1] = p[1] /\ q[2] = p[2] /\ q[3] < p[3]

ProtoAt(q)   == Protos[q[1]]
ServiceAt(q) == ServicesOf[ProtoAt(q)][q[2]]

NameAt(q) ==
  IF q[2] = 0 THEN Frame[q[3]]
  ELSE IF q[3] = 0 THEN ServiceAt(q) ELSE MethodsOf[ServiceAt(q)][q[3]]

\* The file of a service's handler, not of one of its methods.
IsHandler(q) == q[2] # 0 /\ q[3] = 0

FileAt(q) == <<IF NameAt(q) = "go.mod" THEN Nobody ELSE Home[ProtoAt(q)], NameAt(q)>>

\* What of it a request asks for: nothing of a file without a service.
Wanted(req, q) ==
  /\ ProtoAt(q) \in DOMAIN req
  /\ IF q[2] = 0 THEN req[ProtoAt(q)] # {} ELSE ServiceAt(q) \in req[ProtoAt(q)]
=============================================================================
