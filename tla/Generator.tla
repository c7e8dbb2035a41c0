------------------------------ MODULE Generator ------------------------------
(***************************************************************************)
(* The code generators: protoc-gen-grpc-server writes the skeleton of a    *)
(* server straight into the project, file by file, and keeps what is       *)
(* already there; protoc-gen-grpc-client hands one stub per proto file to  *)
(* protoc, all of them at its end or none.  Runs of either may overlap,    *)
(* may fail at any step, and are repeated as the proto files grow and the  *)
(* developer fills in the handlers.                                        *)
(*                                                                         *)
(* A file is named by its directory (one per Go package, none for the      *)
(* project's go.mod) and a name; of its content it matters whether it is   *)
(* all there, and whether the developer has been at it.                    *)
(***************************************************************************)
EXTENDS GeneratorFiles

VARIABLES
  defined,   \* the services each proto file declares now
  saved,     \* req.pb: the request a run with debug on has stored, or empty
  disk,      \* the state of each file
  mod,       \* the run and the proto file that wrote each mod.go last
  step,      \* where each run stands
  asked,     \* its request: what the files to generate declare
  left,      \* the places a server run has still to come to
  mixed,     \* history: the kept files written over a longer text
  raced,     \* history: the files that a run is to write although it may have
             \* found them there, or they were edited since it looked
  unseen,    \* history: the handlers passed over for an error of os.Stat
  overlapped \* history: the server runs that had another beside them

files == <<disk, mod>>
run   == <<step, asked, left>>
past  == <<mixed, raced, unseen, overlapped>>
vars  == <<defined, saved, files, run, past>>

\* The place r is at: none or one.
Here(r)    == {q \in left[r] : \A p \in left[r] : p = q \/ Before(q, p)}
Targets(r) == {FileAt(q) : q \in Here(r)}

\* r has found f missing, or is writing it.
Writes(r, f) == step[r] \in {"open", "fill"} /\ f \in Targets(r)

Requests  == UNION {[P -> SUBSET Services] : P \in SUBSET ProtoFiles}

Init ==
  /\ defined \in [ProtoFiles -> {{s} : s \in Services} \cup {{}}]
  /\ \A p \in ProtoFiles : defined[p] \subseteq ToSet(ServicesOf[p])
  /\ saved = <<>>
  /\ disk = [f \in Files |-> "absent"]
  /\ mod = [d \in Homes |-> <<Nobody, Nobody>>]
  /\ step = [r \in Runs |-> "idle"]
  /\ asked = [r \in Runs |-> <<>>]
  /\ left = [r \in Runs |-> {}]
  /\ mixed = {}
  /\ raced = {}
  /\ unseen = {}
  /\ overlapped = {}

Goto(r, s) == step' = [step EXCEPT ![r] = s]
Put(f, s)  == disk' = [disk EXCEPT ![f] = s]
Current(P) == [p \in P |-> defined[p]]
-----------------------------------------------------------------------------
\* The developer declares a service, and writes code into a generated file.
Declare(p, s) ==
  /\ s \in ToSet(ServicesOf[p]) \ defined[p]
  /\ defined' = [defined EXCEPT ![p] = @ \cup {s}]
  /\ UNCHANGED <<saved, files, run, past>>

Edit(f) ==
  /\ f \in Edited
  /\ disk[f] \in {"cut", "whole"}
  /\ Put(f, "edited")
  /\ mixed' = mixed \ {f}
  /\ raced' = IF \E r \in Runs : Writes(r, f) THEN raced \cup {f} ELSE raced \ {f}
  /\ UNCHANGED <<defined, saved, mod, run, unseen, overlapped>>

\* A run begins with what protoc passes it, or with -d, with what was stored.
BeginServer(r, req) ==
  /\ step[r] = "idle"
  /\ req # <<>>
  /\ asked' = [asked EXCEPT ![r] = req]
  /\ left' = [left EXCEPT ![r] = {q \in Places : Wanted(req, q)}]
  /\ Goto(r, "stat")
  /\ LET beside == {o \in Runs : step[o] \in {"stat", "open", "fill"}}
     IN  overlapped' = overlapped \cup beside \cup (IF beside = {} THEN {} ELSE {r})
  /\ UNCHANGED <<defined, saved, files, mixed, raced, unseen>>

BeginClient(r, req) ==
  /\ step[r] = "idle"
  /\ req # <<>>
  /\ asked' = [asked EXCEPT ![r] = req]
  /\ Goto(r, "emit")
  /\ UNCHANGED <<defined, saved, files, left, past>>

\* With debug on, the request is stored and nothing generated.
StoreRequest(r, P) ==
  /\ step[r] = "idle"
  /\ P # {}
  /\ saved' = Current(P)
  /\ Goto(r, "stored")
  /\ UNCHANGED <<defined, files, asked, left, past>>

\* Seeded fault: an error is logged, and the run ends well.
FailQuietly(r) ==
  /\ step[r] \in {"stat", "open", "fill", "emit"}
  /\ Goto(r, IF step[r] = "emit" THEN "emitted" ELSE "ok")
  /\ UNCHANGED <<defined, saved, files, asked, left, past>>

\* log.Fatal, or the end of the process, whatever is half written.
Fail(r) ==
  /\ step[r] \in {"stat", "open", "fill", "emit"}
  /\ Goto(r, "failed")
  /\ UNCHANGED <<defined, saved, files, asked, left, past>>
-----------------------------------------------------------------------------
(***************************************************************************)
(* A server run, file by file: is it there, create or truncate it, write.  *)
(***************************************************************************)
NextFile(r, q) == left' = [left EXCEPT ![r] = @ \ {q}]

\* Seeded fault: only go.mod is looked for.
StatModule(r) ==
  /\ step[r] = "stat"
  /\ \E q \in Here(r) :
       IF NameAt(q) = "go.mod" /\ disk[FileAt(q)] # "absent"
       THEN NextFile(r, q) /\ UNCHANGED step
       ELSE Goto(r, "open") /\ UNCHANGED left
  /\ UNCHANGED <<defined, saved, files, asked, past>>

\* Seeded fault: mod.go and net.go are generated once, like all the others.
StatAll(r) ==
  /\ step[r] = "stat"
  /\ \E q \in Here(r) :
       IF disk[FileAt(q)] # "absent"
       THEN NextFile(r, q) /\ UNCHANGED step
       ELSE Goto(r, "open") /\ UNCHANGED left
  /\ UNCHANGED <<defined, saved, files, asked, past>>

Stat(r) ==
  /\ step[r] = "stat"
  /\ \E q \in Here(r) :
       IF FileAt(q) \in Kept /\ disk[FileAt(q)] # "absent"
       THEN NextFile(r, q) /\ UNCHANGED step
       ELSE Goto(r, "open") /\ UNCHANGED left
  /\ UNCHANGED <<defined, saved, files, asked, past>>

(***************************************************************************)
(* os.Stat fails with another error than that the file is missing.  For    *)
(* boot.go any error has it created, or truncated; for a handler any but   *)
(* that one passes for "exists"; and for the others it ends the run.       *)
(***************************************************************************)
StatFails(r) ==
  /\ step[r] = "stat"
  /\ \E q \in Here(r) :
       \/ /\ NameAt(q) = "boot.go"
          /\ Goto(r, "open")
          /\ raced' = raced \cup {FileAt(q)}
          /\ UNCHANGED <<left, unseen>>
       \/ /\ IsHandler(q)
          /\ NextFile(r, q)
          /\ unseen' = unseen \cup {FileAt(q)}
          /\ UNCHANGED <<step, raced>>
  /\ UNCHANGED <<defined, saved, files, asked, mixed, overlapped>>

\* "go mod init" refuses to write a go.mod that is there by now.
Open(r) ==
  /\ step[r] = "open"
  /\ \E q \in Here(r) :
       /\ NameAt(q) = "go.mod" => disk[FileAt(q)] = "absent"
       /\ Put(FileAt(q), "cut")
  /\ Goto(r, "fill")
  /\ UNCHANGED <<defined, saved, mod, asked, left, past>>

ModIs(r, q) ==
  mod' = IF NameAt(q) = "mod.go" THEN [mod EXCEPT ![Home[ProtoAt(q)]] = <<r, ProtoAt(q)>>] ELSE mod

\* Seeded fault: outside the frame, an error of the template is passed over.
FillFrame(r) ==
  /\ step[r] = "fill"
  /\ \E q \in Here(r) :
       /\ IF q[2] = 0 THEN Put(FileAt(q), "whole") ELSE UNCHANGED disk
       /\ ModIs(r, q)
       /\ NextFile(r, q)
  /\ Goto(r, "stat")
  /\ UNCHANGED <<defined, saved, asked, past>>

\* Over what another run, or the developer, has put there since the file was
\* truncated: the longer text's end may stay behind.
Fill(r) ==
  /\ step[r] = "fill"
  /\ \E q \in Here(r), s \in {"whole", "cut"} :
       /\ s = "cut" => disk[FileAt(q)] # "cut"
       /\ Put(FileAt(q), s)
       /\ mixed' = IF s = "cut" THEN mixed \cup ({FileAt(q)} \cap Kept) ELSE mixed \ {FileAt(q)}
       /\ ModIs(r, q)
       /\ NextFile(r, q)
  /\ Goto(r, "stat")
  /\ UNCHANGED <<defined, saved, asked, raced, unseen, overlapped>>

Finish(r) ==
  /\ step[r] = "stat"
  /\ left[r] = {}
  /\ Goto(r, "ok")
  /\ UNCHANGED <<defined, saved, files, asked, left, past>>
-----------------------------------------------------------------------------
(***************************************************************************)
(* A client run: a stub for every file that has a message, all at the end. *)
(***************************************************************************)
Emit(r) ==
  /\ step[r] = "emit"
  /\ disk' = [f \in Files |->
       IF \E p \in DOMAIN asked[r] \cap Messages : f = <<Home[p], p>> THEN "whole" ELSE disk[f]]
  /\ Goto(r, "emitted")
  /\ UNCHANGED <<defined, saved, mod, asked, left, past>>
-----------------------------------------------------------------------------
Next ==
  \/ \E p \in ProtoFiles, s \in Services : Declare(p, s)
  \/ \E f \in Files : Edit(f)
  \/ \E r \in Runs :
       \/ \E P \in SUBSET ProtoFiles :
            StoreRequest(r, P) \/ BeginServer(r, Current(P)) \/ BeginClient(r, Current(P))
       \/ BeginServer(r, saved) \/ BeginClient(r, saved)
       \/ Stat(r) \/ StatFails(r) \/ Open(r) \/ Fill(r) \/ Finish(r)
       \/ Emit(r) \/ Fail(r)

Spec == Init /\ [][Next]_vars
-----------------------------------------------------------------------------
\* Types; and a run that has ended well has come to all its places.
TypeOK ==
  /\ defined \in [ProtoFiles -> SUBSET Services]
  /\ saved \in Requests
  /\ disk \in [Files -> {"absent", "cut", "whole", "edited"}]
  /\ mod \in [Homes -> (Runs \cup {Nobody}) \X (ProtoFiles \cup {Nobody})]
  /\ step \in [Runs -> {"idle", "stat", "open", "fill", "emit", "ok", "emitted",
                      "stored", "failed"}]
  /\ asked \in [Runs -> Requests]
  /\ left \in [Runs -> SUBSET Places]
  /\ mixed \subseteq Kept /\ raced \subseteq Kept /\ unseen \subseteq Kept
  /\ overlapped \subseteq Runs
  /\ \A r \in Runs : left[r] # {} => step[r] \in {"stat", "open", "fill", "failed"}

(***************************************************************************)
(* What the developer has written stays, through all runs to come, unless  *)
(* one had found the file missing before it was there at all, and creates  *)
(* it only now, over what the developer has put there meanwhile; or the    *)
(* file is boot.go, and a run is about to truncate it, as os.Stat gave it  *)
(* some error.                                                             *)
(***************************************************************************)
UserCodeStays == [][\A f \in Files \ raced : disk[f] = "edited" => disk'[f] = "edited"]_vars

\* mod.go of directory d is whole, and of a server run that succeeded.
Ready(d) == disk[<<d, "mod.go">>] = "whole" /\ step[mod[d][1]] = "ok"

\* The services it registers, and the files that handle them.
Registered(d) == asked[mod[d][1]][mod[d][2]]
Handlers(d)   == {d} \X UNION {{s} \cup ToSet(MethodsOf[s]) : s \in Registered(d)}

\* r is writing f, or has failed there.
StopsAt(r, f) == step[r] \in {"fill", "failed"} /\ f \in Targets(r)

(***************************************************************************)
(* f is all there; or cut off, by a run that is at it or has failed at it, *)
(* or by one that has written over another's longer text (a later run      *)
(* finds it there, and keeps it); or a handler that a run has passed over  *)
(* for an error of os.Stat.                                                *)
(***************************************************************************)
Handled(f) ==
  \/ disk[f] \in {"whole", "edited"}
  \/ disk[f] = "cut" /\ (f \in mixed \/ \E r \in Runs : StopsAt(r, f))
  \/ disk[f] = "absent" /\ f \in unseen

(***************************************************************************)
(* Every service that such a mod.go registers has its handler and methods, *)
(* whatever other runs do at the time and whichever has written mod.go     *)
(* last, with no other exceptions than those of Handled.  And where a run  *)
(* of the client generator has succeeded with the same request, the names  *)
(* that mod.go takes from the stub are there, if its proto file declares a *)
(* message.                                                                *)
(***************************************************************************)
ServedIsHandled ==
  \A d \in Homes : Ready(d) =>
    /\ \A f \in Handlers(d) : Handled(f)
    /\ \A c \in Runs :
         mod[d][2] \in Messages /\ step[c] = "emitted" /\ asked[c] = asked[mod[d][1]]
           => disk[<<d, mod[d][2]>>] = "whole"

\* No other file of the request is of the same package.
Alone(r, p) == \A q \in DOMAIN asked[r] \ {p} : asked[r][q] # {} => Home[q] # Home[p]

(***************************************************************************)
(* A server run that ends well, with no other beside it, leaves every      *)
(* service of its request registered, whatever was registered before,      *)
(* unless another of its files is of the same package: the last one wins.  *)
(***************************************************************************)
AllRegistered ==
  [][\A r \in Runs \ overlapped : step[r] = "stat" /\ step'[r] = "ok" =>
       \A p \in DOMAIN asked[r] : asked[r][p] # {} /\ Alone(r, p) =>
         Ready(Home[p])' /\ asked[r][p] = Registered(Home[p])']_vars
=============================================================================
