---------------------------- MODULE ArtifactStore ----------------------------
(***************************************************************************)
(* FileProofArtifactStore: concurrent put() calls that publish a proof     *)
(* under its digest with a temporary file, fsync and a hard link, and the  *)
(* crashes that can come between two of those steps.                       *)
(*                                                                         *)
(* Each action is one file-system call of put(), because each is awaited.  *)
(* A proof is named by its digest; two proofs with one digest are out of   *)
(* scope.  The file system is modelled from how put() uses it: a file has  *)
(* its whole content or a part of it, the content is on disk once it has   *)
(* been synced, and a link to it is on disk once the directory has been    *)
(* written back, which no code asks for.                                   *)
(***************************************************************************)
EXTENDS Integers

CONSTANTS
    Digest,         \* the proofs
    Writer,         \* concurrent calls of put()
    Pid,            \* process ids the operating system hands out
    None,
    MaxPuts,        \* bound: calls of put()
    MaxCrashes      \* bound: crashes

File == [whole: BOOLEAN, synced: BOOLEAN]

TempPath == Digest \X Pid \X (0..MaxPuts)

ASSUME StoreAssumption ==
    /\ MaxPuts \in Nat /\ MaxCrashes \in Nat
    /\ None \notin Digest \cup File \cup TempPath

VARIABLES
    pc, proof, temp,    \* [Writer -> ...]: where put() is, its proof, its temporary path
    failed,             \* [Writer -> write_result is an error]
    files,              \* [temporary paths that exist -> File]
    final,              \* [Digest -> the file linked under the final path, or None]
    linkOnDisk,         \* digests whose final link survives a crash of the host
    pid, sequence,      \* the process and its TEMP_SEQUENCE
    acked,              \* digests put() returned to a caller
    puts, crashes,
    boots,              \* crashes that took the host down
    orphans             \* history: temporary paths no put() will remove

writerVars == <<pc, proof, temp, failed>>
diskVars == <<files, final, linkOnDisk>>
vars == <<writerVars, diskVars, pid, sequence, acked, puts, crashes, boots, orphans>>

Location == {"idle", "create", "write", "sync", "link", "recheck", "remove"}

Init ==
    /\ pc = [w \in Writer |-> "idle"]
    /\ proof = [w \in Writer |-> None]
    /\ temp = [w \in Writer |-> None]
    /\ failed = [w \in Writer |-> FALSE]
    /\ files = <<>>
    /\ final = [d \in Digest |-> None]
    /\ linkOnDisk = {}
    /\ pid \in Pid /\ sequence = 0
    /\ acked = {}
    /\ puts = 0 /\ crashes = 0 /\ boots = 0
    /\ orphans = {}

-----------------------------------------------------------------------------

Goto(w, l) == pc' = [pc EXCEPT ![w] = l]

\* Errors of the block around the write end in write_result.
Fail(w) == Goto(w, "remove") /\ failed' = [failed EXCEPT ![w] = TRUE]

\* get(): the bytes, nothing, or an error for a file that is not the proof.
Get(d) ==
    CASE final[d] = None -> "missing"
      [] final[d] # None /\ final[d].whole -> "found"
      [] OTHER -> "corrupt"

\* get_artifact and head_artifact: the status of the HTTP response.
GetArtifact(d) ==
    CASE Get(d) = "found" -> 200
      [] Get(d) = "missing" -> 404
      [] Get(d) = "corrupt" -> 500

WriteFile(p, f) == files' = [q \in DOMAIN files \cup {p} |-> IF q = p THEN f ELSE files[q]]

\* put() returns without having written: the proof is there, or get() failed.
PutExisting(d) ==
    /\ puts < MaxPuts
    /\ \E w \in Writer : pc[w] = "idle"
    /\ Get(d) # "missing"
    /\ acked' = IF Get(d) = "found" THEN acked \cup {d} ELSE acked
    /\ puts' = puts + 1
    /\ UNCHANGED <<writerVars, diskVars, pid, sequence, crashes, boots, orphans>>

\* put() finds nothing under the digest and takes a temporary path.
PutNew(w, d) ==
    /\ puts < MaxPuts
    /\ pc[w] = "idle"
    /\ Get(d) = "missing"
    /\ Goto(w, "create")
    /\ proof' = [proof EXCEPT ![w] = d]
    /\ temp' = [temp EXCEPT ![w] = <<d, pid, sequence>>]
    /\ sequence' = sequence + 1
    /\ puts' = puts + 1
    /\ UNCHANGED <<failed, diskVars, pid, acked, crashes, boots, orphans>>

\* open with create_new: it fails if the path exists, or for reasons of its own.
Create(w) ==
    /\ pc[w] = "create"
    /\ \/ /\ temp[w] \notin DOMAIN files
          /\ WriteFile(temp[w], [whole |-> FALSE, synced |-> FALSE])
          /\ Goto(w, "write")
          /\ UNCHANGED failed
       \/ Fail(w) /\ UNCHANGED files
    /\ UNCHANGED <<proof, temp, final, linkOnDisk, pid, sequence, acked, puts, crashes, boots, orphans>>

\* Mutant: the file is linked before it is synced.
WriteThenLink(w) ==
    /\ pc[w] = "write"
    /\ \/ /\ WriteFile(temp[w], [whole |-> TRUE, synced |-> FALSE])
          /\ Goto(w, "link")
          /\ UNCHANGED failed
       \/ Fail(w) /\ UNCHANGED files
    /\ UNCHANGED <<proof, temp, final, linkOnDisk, pid, sequence, acked, puts, crashes, boots, orphans>>

\* write_all; on an error a part of the proof is left in the file.
Write(w) ==
    /\ pc[w] = "write"
    /\ \/ /\ WriteFile(temp[w], [whole |-> TRUE, synced |-> FALSE])
          /\ Goto(w, "sync")
          /\ UNCHANGED failed
       \/ Fail(w) /\ UNCHANGED files
    /\ UNCHANGED <<proof, temp, final, linkOnDisk, pid, sequence, acked, puts, crashes, boots, orphans>>

\* sync_all of the file; its directory entry is not synced.
Sync(w) ==
    /\ pc[w] = "sync"
    /\ \/ /\ WriteFile(temp[w], [whole |-> TRUE, synced |-> TRUE])
          /\ Goto(w, "link")
          /\ UNCHANGED failed
       \/ Fail(w) /\ UNCHANGED files
    /\ UNCHANGED <<proof, temp, final, linkOnDisk, pid, sequence, acked, puts, crashes, boots, orphans>>

\* hard_link to the final path, unless another put() of the same proof won.
Link(w) ==
    /\ pc[w] = "link"
    /\ \/ /\ final[proof[w]] = None
          /\ final' = [final EXCEPT ![proof[w]] = files[temp[w]]]
          /\ Goto(w, "remove")
          /\ UNCHANGED failed
       \/ /\ final[proof[w]] # None
          /\ Goto(w, "recheck")
          /\ UNCHANGED <<failed, final>>
       \/ Fail(w) /\ UNCHANGED final
    /\ UNCHANGED <<proof, temp, files, linkOnDisk, pid, sequence, acked, puts, crashes, boots, orphans>>

\* After AlreadyExists the linked file must be this very proof.
Recheck(w) ==
    /\ pc[w] = "recheck"
    /\ \/ /\ Get(proof[w]) = "found"
          /\ Goto(w, "remove")
          /\ UNCHANGED failed
       \/ Fail(w)
    /\ UNCHANGED <<proof, temp, diskVars, pid, sequence, acked, puts, crashes, boots, orphans>>

\* Mutant: write_result is dropped, every put() reports success.
RemoveSwallowsError(w) ==
    /\ pc[w] = "remove"
    /\ files' = [p \in DOMAIN files \ {temp[w]} |-> files[p]]
    /\ acked' = acked \cup {proof[w]}
    /\ Goto(w, "idle")
    /\ proof' = [proof EXCEPT ![w] = None]
    /\ temp' = [temp EXCEPT ![w] = None]
    /\ failed' = [failed EXCEPT ![w] = FALSE]
    /\ UNCHANGED <<final, linkOnDisk, pid, sequence, puts, crashes, boots, orphans>>

\* remove_file, whose own error is ignored, then put() returns write_result.
\* After a failed create_new the path may be one an earlier process left.
Remove(w) ==
    /\ pc[w] = "remove"
    /\ \/ /\ files' = [p \in DOMAIN files \ {temp[w]} |-> files[p]]
          /\ orphans' = orphans \ {temp[w]}
       \/ /\ temp[w] \in DOMAIN files
          /\ orphans' = orphans \cup {temp[w]}
          /\ UNCHANGED files
    /\ acked' = IF failed[w] THEN acked ELSE acked \cup {proof[w]}
    /\ Goto(w, "idle")
    /\ proof' = [proof EXCEPT ![w] = None]
    /\ temp' = [temp EXCEPT ![w] = None]
    /\ failed' = [failed EXCEPT ![w] = FALSE]
    /\ UNCHANGED <<final, linkOnDisk, pid, sequence, puts, crashes, boots>>

-----------------------------------------------------------------------------
(* The file system and crashes.                                            *)

\* The host writes its directories back in its own time.
WriteBack ==
    /\ linkOnDisk' = {d \in Digest : final[d] # None}
    /\ linkOnDisk' # linkOnDisk
    /\ UNCHANGED <<writerVars, files, final, pid, sequence, acked, puts, crashes, boots, orphans>>

\* A new process: no put() in progress, TEMP_SEQUENCE is 0 again, and in a
\* container the process id is often the same.
NewProcess ==
    /\ crashes < MaxCrashes
    /\ crashes' = crashes + 1
    /\ pc' = [w \in Writer |-> "idle"]
    /\ proof' = [w \in Writer |-> None]
    /\ temp' = [w \in Writer |-> None]
    /\ failed' = [w \in Writer |-> FALSE]
    /\ pid' \in Pid /\ sequence' = 0
    /\ UNCHANGED <<acked, puts>>

ProcessCrash ==
    /\ NewProcess
    /\ orphans' = DOMAIN files
    /\ UNCHANGED <<diskVars, boots>>

\* What is left of a file after the host lost its memory.
Surviving(f) == IF f.synced THEN {f} ELSE {f, [f EXCEPT !.whole = FALSE]}

\* Links that are not on disk may vanish, content that was not synced may be
\* cut short.  Temporary files may vanish too.
PowerLoss ==
    /\ NewProcess
    /\ boots' = boots + 1
    /\ \E left \in SUBSET DOMAIN files :
         /\ files' = [p \in left |-> files[p]]
         /\ orphans' = left
    /\ final' \in [Digest -> File \cup {None}]
    /\ \A d \in Digest :
         \/ final[d] = None /\ final'[d] = None
         \/ final[d] # None /\ final'[d] \in Surviving(final[d])
         \/ d \notin linkOnDisk /\ final'[d] = None
    /\ linkOnDisk' = {d \in Digest : final'[d] # None}

Next ==
    \/ \E d \in Digest : PutExisting(d)
    \/ \E w \in Writer, d \in Digest : PutNew(w, d)
    \/ \E w \in Writer :
         \/ Create(w) \/ Write(w) \/ Sync(w) \/ Link(w) \/ Recheck(w) \/ Remove(w)
    \/ WriteBack
    \/ ProcessCrash
    \/ PowerLoss

Spec == Init /\ [][Next]_vars

-----------------------------------------------------------------------------
(* Properties.                                                             *)

\* The types; put() writes, syncs and links only a temporary file that exists.
TypeOK ==
    /\ pc \in [Writer -> Location]
    /\ proof \in [Writer -> Digest \cup {None}]
    /\ temp \in [Writer -> TempPath \cup {None}]
    /\ failed \in [Writer -> BOOLEAN]
    /\ DOMAIN files \subseteq TempPath
    /\ \A p \in DOMAIN files : files[p] \in File
    /\ final \in [Digest -> File \cup {None}]
    /\ linkOnDisk \subseteq Digest
    /\ pid \in Pid /\ sequence \in 0..MaxPuts
    /\ acked \subseteq Digest
    /\ puts \in 0..MaxPuts /\ crashes \in 0..MaxCrashes /\ boots \in 0..crashes
    /\ orphans \subseteq TempPath
    /\ \A w \in Writer : pc[w] # "idle" => proof[w] \in Digest /\ temp[w] \in TempPath
    /\ \A w \in Writer : pc[w] \in {"write", "sync", "link"} => temp[w] \in DOMAIN files

\* Whatever put() calls run and crashes happen, of the process or of the host:
\* a file under a final path is the whole proof, never a part of it.
VisibleIsWhole == \A d \in Digest : final[d] # None => final[d].whole

\* Every temporary file belongs to the one put() that will remove it, or was
\* left by a crash or a removal that failed.
TempsAreOwned ==
    /\ \A p \in DOMAIN files : p \in orphans \/ \E w \in Writer : temp[w] = p
    /\ \A v, w \in Writer : temp[v] = temp[w] /\ temp[v] # None => v = w

\* The invariant of the store.
StoreInv == TypeOK /\ VisibleIsWhole /\ TempsAreOwned

Served == {d \in Digest : GetArtifact(d) = 200}

Abstract == INSTANCE ArtifactStoreSpec WITH
    available <- Served, durable <- Served \cap linkOnDisk

\* put(), crashes of the process and crashes of the host implement the abstract
\* store behind the HTTP service: only a proof that is served is acknowledged,
\* and one goes away only with the host, and only when its link had not been
\* written back; restarts, failed puts of the same proof and leftovers do not
\* take it away.
ImplementsStore == Abstract!Spec

\* artifacts.rs: "Metadata returned after an artifact is durably stored."
AcknowledgedIsDurable == acked \subseteq Served
=============================================================================
