------------------------- MODULE ArtifactStoreProofs -------------------------
(***************************************************************************)
(* The artifact store on disk keeps only whole proofs in sight, through    *)
(* any number of concurrent put() calls and crashes, and implements the    *)
(* abstract store.                                                         *)
(***************************************************************************)
EXTENDS ArtifactStore, TLAPS

-----------------------------------------------------------------------------
(* The inductive invariant.                                                *)

WholeFile == [whole |-> TRUE, synced |-> TRUE]

\* The file put() writes is a file, and not the absence of one.
LEMMA WholeIsFile == WholeFile \in File /\ WholeFile # None
<1>1. WholeFile \in File
  BY DEF WholeFile, File
<1> QED BY <1>1, StoreAssumption

\* A temporary path names the process and a sequence number it has used up, so
\* no two put() calls of a process share one.
PathsInv ==
    /\ sequence <= puts
    /\ \A w \in Writer :
          /\ pc[w] = "idle" => temp[w] = None
          /\ pc[w] # "idle" => temp[w][2] = pid /\ temp[w][3] < sequence

\* Only a file that was written and synced is linked, so that a host that loses
\* its memory cannot cut it short; and put() that ends without an error leaves a
\* link behind.
LinksInv ==
    /\ \A w \in Writer : pc[w] = "link" => files[temp[w]] = WholeFile
    /\ \A w \in Writer : pc[w] = "remove" /\ ~failed[w] => final[proof[w]] # None
    /\ \A d \in Digest : final[d] # None => final[d] = WholeFile
    /\ \A d \in linkOnDisk : final[d] # None

StoreIInv == StoreInv /\ PathsInv /\ LinksInv

\* VisibleIsWhole is what LinksInv says of the links, so it needs no proof of its
\* own below.
LEMMA StoreIInvParts ==
    ASSUME TypeOK', TempsAreOwned', PathsInv', LinksInv'
    PROVE  StoreIInv'
<1>1. VisibleIsWhole'
  BY DEF LinksInv, VisibleIsWhole, WholeFile
<1> QED BY <1>1 DEF StoreIInv, StoreInv

\* What the invariant says of one put() in progress.
LEMMA InProgress ==
    ASSUME StoreIInv, NEW w \in Writer, pc[w] # "idle"
    PROVE  /\ temp[w] \in TempPath /\ temp[w] # None /\ proof[w] \in Digest
           /\ \A v \in Writer \ {w} : temp[v] # temp[w]
BY StoreAssumption DEF StoreIInv, StoreInv, TypeOK, TempsAreOwned

\* An empty directory.
LEMMA InitStore == Init => StoreIInv
<1> SUFFICES ASSUME Init PROVE StoreIInv
  OBVIOUS
<1> USE StoreAssumption DEF Init
<1>1. DOMAIN files = {}
  OBVIOUS
<1>2. TypeOK
  BY <1>1 DEF TypeOK, Location
<1>3. VisibleIsWhole /\ TempsAreOwned
  BY <1>1 DEF VisibleIsWhole, TempsAreOwned
<1>4. PathsInv
  BY DEF PathsInv
<1>5. LinksInv
  BY DEF LinksInv
<1> QED BY <1>2, <1>3, <1>4, <1>5 DEF StoreIInv, StoreInv

\* put() before it writes anything.
LEMMA PutKeeps ==
    ASSUME StoreIInv, (\E d \in Digest : PutExisting(d)) \/ (\E w \in Writer, d \in Digest : PutNew(w, d))
    PROVE  StoreIInv'
<1> USE StoreAssumption DEF StoreIInv, StoreInv, writerVars, diskVars
<1>1. ASSUME NEW d \in Digest, PutExisting(d) PROVE StoreIInv'
  <2>1. UNCHANGED <<pc, proof, temp, failed, files, final, linkOnDisk, pid, sequence, crashes, boots, orphans>>
    BY <1>1 DEF PutExisting
  <2>2. puts' = puts + 1 /\ puts < MaxPuts /\ acked' \subseteq Digest
    BY <1>1 DEF PutExisting, TypeOK
  <2>3. TypeOK'
    BY <2>1, <2>2 DEF TypeOK
  <2>4. TempsAreOwned' /\ LinksInv'
    BY <2>1 DEF TempsAreOwned, LinksInv
  <2>5. PathsInv'
    BY <2>1, <2>2 DEF PathsInv, TypeOK
  <2> QED BY <2>3, <2>4, <2>5, StoreIInvParts
<1>2. ASSUME NEW w \in Writer, NEW d \in Digest, PutNew(w, d) PROVE StoreIInv'
  <2> DEFINE path == <<d, pid, sequence>>
  <2>1. /\ pc[w] = "idle" /\ puts < MaxPuts
        /\ pc' = [pc EXCEPT ![w] = "create"]
        /\ proof' = [proof EXCEPT ![w] = d]
        /\ temp' = [temp EXCEPT ![w] = path]
        /\ sequence' = sequence + 1 /\ puts' = puts + 1
        /\ UNCHANGED <<failed, files, final, linkOnDisk, pid, acked, crashes, boots, orphans>>
    BY <1>2 DEF PutNew, Goto
  <2>2. sequence \in Nat /\ puts \in Nat /\ sequence <= puts /\ sequence' \in 0..MaxPuts
        /\ puts' \in 0..MaxPuts
    BY <2>1 DEF PathsInv, TypeOK
  <2>3. path \in TempPath /\ path[2] = pid /\ path[3] = sequence
    BY <2>2 DEF TempPath, TypeOK
  <2> HIDE DEF path
  <2>4. /\ pc'[w] = "create" /\ proof'[w] = d /\ temp'[w] = path
        /\ \A v \in Writer \ {w} : pc'[v] = pc[v] /\ proof'[v] = proof[v] /\ temp'[v] = temp[v]
    BY <2>1 DEF TypeOK
  <2>5. \A v \in Writer \ {w} : temp[v] # path
    BY <2>2, <2>3 DEF PathsInv
  <2>6. TypeOK'
    BY <2>1, <2>2, <2>3, <2>4 DEF TypeOK, Location
  <2>7. TempsAreOwned'
    <3>1. \A p \in DOMAIN files : p \in orphans \/ \E v \in Writer : temp'[v] = p
      <4> SUFFICES ASSUME NEW p \in DOMAIN files, p \notin orphans
                   PROVE  \E v \in Writer : temp'[v] = p
        OBVIOUS
      <4>1. PICK v \in Writer : temp[v] = p
        BY DEF TempsAreOwned
      <4>2. v # w
        BY <2>1, <4>1 DEF PathsInv, TypeOK
      <4> QED BY <2>4, <4>1, <4>2
    <3> QED BY <2>1, <2>4, <2>5, <3>1 DEF TempsAreOwned
  <2>8. PathsInv'
    <3>1. ASSUME NEW v \in Writer \ {w}, pc[v] # "idle"
          PROVE  temp[v][2] = pid /\ temp[v][3] < sequence + 1
      <4>1. temp[v][3] \in Nat
        BY <3>1 DEF TypeOK, TempPath
      <4>2. temp[v][2] = pid /\ temp[v][3] < sequence
        BY <3>1 DEF PathsInv
      <4> QED BY <2>2, <4>1, <4>2
    <3>2. path[2] = pid /\ path[3] < sequence + 1
      BY <2>2, <2>3
    <3>3. sequence' <= puts'
      BY <2>1, <2>2
    <3>4. \A v \in Writer \ {w} : pc[v] = "idle" => temp[v] = None
      BY DEF PathsInv
    <3> QED BY <2>1, <2>4, <3>1, <3>2, <3>3, <3>4 DEF PathsInv
  <2>9. LinksInv'
    BY <2>1, <2>4 DEF LinksInv
  <2> QED BY <2>6, <2>7, <2>8, <2>9, StoreIInvParts
<1> QED BY <1>1, <1>2

\* One call of put() on its way moves to l, having written f under its temporary
\* path or not.
LEMMA WriterKeeps ==
    ASSUME StoreIInv, NEW w \in Writer, pc[w] # "idle",
           NEW l \in Location \ {"idle"}, Goto(w, l),
           \/ UNCHANGED files
           \/ \E f \in File : WriteFile(temp[w], f),
           failed' = failed \/ (l = "remove" /\ failed' = [failed EXCEPT ![w] = TRUE]),
           l \in {"write", "sync", "link"} => temp[w] \in DOMAIN files',
           l = "link" => files'[temp[w]] = WholeFile,
           l = "remove" /\ ~failed'[w] => final[proof[w]] # None,
           UNCHANGED <<proof, temp, final, linkOnDisk, pid, sequence, acked, puts, crashes,
                       boots, orphans>>
    PROVE  StoreIInv'
<1> USE StoreAssumption DEF StoreIInv, StoreInv
<1>1. /\ pc'[w] = l /\ \A v \in Writer \ {w} : pc'[v] = pc[v]
      /\ pc' \in [Writer -> Location]
  BY DEF Goto, TypeOK
<1>2. /\ failed' \in [Writer -> BOOLEAN]
      /\ \A v \in Writer \ {w} : failed'[v] = failed[v]
  BY DEF TypeOK
<1>3. temp[w] \in TempPath /\ \A v \in Writer \ {w} : temp[v] # temp[w]
  BY InProgress
<1>4. /\ DOMAIN files' \subseteq DOMAIN files \cup {temp[w]}
      /\ DOMAIN files \subseteq DOMAIN files'
      /\ \A q \in DOMAIN files' : files'[q] \in File
      /\ \A q \in DOMAIN files : q # temp[w] => files'[q] = files[q]
  <2>1. CASE UNCHANGED files
    BY <2>1 DEF TypeOK
  <2>2. ASSUME NEW f \in File, WriteFile(temp[w], f) PROVE <1>4!:
    BY <2>2 DEF WriteFile, TypeOK
  <2> QED BY <2>1, <2>2
<1>5. TypeOK'
  BY <1>1, <1>2, <1>3, <1>4 DEF TypeOK
<1>6. TempsAreOwned'
  BY <1>3, <1>4 DEF TempsAreOwned
<1>7. PathsInv'
  BY <1>1 DEF PathsInv
<1>8. LinksInv'
  <2>1. \A v \in Writer : pc'[v] = "link" => files'[temp[v]] = WholeFile
    <3> SUFFICES ASSUME NEW v \in Writer, v # w, pc[v] = "link"
                 PROVE  files'[temp[v]] = WholeFile
      BY <1>1
    <3>1. temp[v] \in DOMAIN files /\ temp[v] # temp[w] /\ files[temp[v]] = WholeFile
      BY <1>3 DEF TypeOK, LinksInv
    <3> QED BY <1>4, <3>1
  <2>2. \A v \in Writer : pc'[v] = "remove" /\ ~failed'[v] => final[proof[v]] # None
    BY <1>1, <1>2 DEF LinksInv
  <2> QED BY <2>1, <2>2 DEF LinksInv
<1> QED BY <1>5, <1>6, <1>7, <1>8, StoreIInvParts

\* One call of put() between its first and its last file-system call.
LEMMA StepKeeps ==
    ASSUME StoreIInv, NEW w \in Writer,
           Create(w) \/ Write(w) \/ Sync(w) \/ Link(w) \/ Recheck(w)
    PROVE  StoreIInv'
<1> USE DEF Location, diskVars
<1>a. ASSUME pc[w] # "idle", Fail(w), UNCHANGED files,
             UNCHANGED <<proof, temp, final, linkOnDisk, pid, sequence, acked, puts, crashes,
                         boots, orphans>>
      PROVE  StoreIInv'
  <2>1. failed'[w] = TRUE
    BY <1>a DEF Fail, StoreIInv, StoreInv, TypeOK
  <2> QED BY <1>a, <2>1, WriterKeeps DEF Fail
<1>b. ASSUME NEW f, WriteFile(temp[w], f)
      PROVE  temp[w] \in DOMAIN files' /\ files'[temp[w]] = f
  BY <1>b DEF WriteFile
<1>1. CASE Create(w)
  <2> DEFINE f == [whole |-> FALSE, synced |-> FALSE]
  <2>1. CASE Goto(w, "write") /\ WriteFile(temp[w], f) /\ UNCHANGED failed
    <3>1. f \in File
      BY DEF File
    <3>2. temp[w] \in DOMAIN files'
      BY <2>1, <1>b
    <3> QED BY <1>1, <2>1, <3>1, <3>2, WriterKeeps DEF Create
  <2> QED BY <1>1, <1>a, <2>1 DEF Create
<1>2. CASE Write(w)
  <2> DEFINE f == [whole |-> TRUE, synced |-> FALSE]
  <2>1. CASE Goto(w, "sync") /\ WriteFile(temp[w], f) /\ UNCHANGED failed
    <3>1. f \in File
      BY DEF File
    <3>2. temp[w] \in DOMAIN files'
      BY <2>1, <1>b
    <3> QED BY <1>2, <2>1, <3>1, <3>2, WriterKeeps DEF Write
  <2> QED BY <1>2, <1>a, <2>1 DEF Write
<1>3. CASE Sync(w)
  <2>1. CASE Goto(w, "link") /\ WriteFile(temp[w], WholeFile) /\ UNCHANGED failed
    <3>1. WholeFile \in File
      BY DEF File, WholeFile
    <3>2. temp[w] \in DOMAIN files' /\ files'[temp[w]] = WholeFile
      BY <2>1, <1>b
    <3> QED BY <1>3, <2>1, <3>1, <3>2, WriterKeeps DEF Sync
  <2> QED BY <1>3, <1>a, <2>1 DEF Sync, WholeFile
<1>4. CASE Link(w)
  <2>1. CASE UNCHANGED final
    <3>1. CASE Goto(w, "recheck") /\ UNCHANGED failed
      BY <1>4, <2>1, <3>1, WriterKeeps DEF Link
    <3>2. CASE Fail(w)
      BY <1>4, <2>1, <3>2, <1>a DEF Link
    <3>3. CASE final[proof[w]] = None /\ final' = [final EXCEPT ![proof[w]] = files[temp[w]]]
      <4>1. proof[w] \in Digest /\ files[temp[w]] = WholeFile
        BY <1>4, InProgress DEF Link, StoreIInv, LinksInv
      <4> QED BY <2>1, <3>3, <4>1, WholeIsFile DEF StoreIInv, StoreInv, TypeOK
    <3> QED BY <1>4, <3>1, <3>2, <3>3 DEF Link
  <2>2. CASE /\ final[proof[w]] = None
             /\ final' = [final EXCEPT ![proof[w]] = files[temp[w]]]
             /\ Goto(w, "remove") /\ UNCHANGED failed
    <3> USE StoreAssumption DEF StoreIInv, StoreInv
    <3>a. proof[w] \in Digest /\ files[temp[w]] = WholeFile
      BY <1>4, InProgress DEF Link, LinksInv
    <3>1. /\ proof[w] \in Digest /\ files[temp[w]] = WholeFile
          /\ WholeFile # None /\ WholeFile \in File
      BY <3>a, WholeIsFile
    <3>2. /\ final' \in [Digest -> File \cup {None}]
          /\ final'[proof[w]] = WholeFile
          /\ \A d \in Digest : d # proof[w] => final'[d] = final[d]
      BY <2>2, <3>1 DEF TypeOK
    <3>3. /\ pc' \in [Writer -> Location] /\ pc'[w] = "remove"
          /\ \A v \in Writer \ {w} : pc'[v] = pc[v]
      BY <2>2 DEF Goto, TypeOK
    <3>4. UNCHANGED <<proof, temp, failed, files, linkOnDisk, pid, sequence, acked, puts,
                      crashes, boots, orphans>>
      BY <1>4, <2>2 DEF Link
    <3>5. TypeOK'
      BY <1>4, <3>2, <3>3, <3>4 DEF TypeOK, Link
    <3>6. TempsAreOwned' /\ PathsInv'
      BY <1>4, <3>3, <3>4 DEF TempsAreOwned, PathsInv, Link
    <3>7. LinksInv'
      <4>1. \A d \in Digest : final[d] # None => final'[d] # None
        BY <3>1, <3>2
      <4>2. \A v \in Writer : pc'[v] = "remove" /\ ~failed[v] => final'[proof[v]] # None
        <5> SUFFICES ASSUME NEW v \in Writer \ {w}, pc[v] = "remove", ~failed[v]
                     PROVE  final'[proof[v]] # None
          BY <3>1, <3>2, <3>3
        <5>1. proof[v] \in Digest /\ final[proof[v]] # None
          BY DEF TypeOK, LinksInv
        <5> QED BY <4>1, <5>1
      <4>3. \A d \in linkOnDisk : d \in Digest /\ final[d] # None
        BY DEF TypeOK, LinksInv
      <4> QED BY <3>1, <3>2, <3>3, <3>4, <4>1, <4>2, <4>3 DEF LinksInv
    <3> QED BY <3>5, <3>6, <3>7, StoreIInvParts
  <2> QED BY <1>4, <2>1, <2>2 DEF Link
<1>5. CASE Recheck(w)
  <2>1. CASE Get(proof[w]) = "found" /\ Goto(w, "remove") /\ UNCHANGED failed
    <3>1. final[proof[w]] # None
      BY <2>1 DEF Get
    <3> QED BY <1>5, <2>1, <3>1, WriterKeeps DEF Recheck
  <2> QED BY <1>5, <1>a, <2>1 DEF Recheck
<1> QED BY <1>1, <1>2, <1>3, <1>4, <1>5

\* The last call: the temporary path is removed, or stays behind as an orphan.
LEMMA RemoveKeeps ==
    ASSUME StoreIInv, NEW w \in Writer, Remove(w)
    PROVE  StoreIInv'
<1> USE StoreAssumption DEF StoreIInv, StoreInv
<1>1. temp[w] \in TempPath /\ proof[w] \in Digest /\ \A v \in Writer \ {w} : temp[v] # temp[w]
  BY InProgress DEF Remove
<1>2. /\ pc' = [pc EXCEPT ![w] = "idle"] /\ proof' = [proof EXCEPT ![w] = None]
      /\ temp' = [temp EXCEPT ![w] = None] /\ failed' = [failed EXCEPT ![w] = FALSE]
      /\ UNCHANGED <<final, linkOnDisk, pid, sequence, puts, crashes, boots>>
      /\ acked' \subseteq acked \cup {proof[w]}
  BY DEF Remove, Goto
<1>3. /\ pc'[w] = "idle" /\ proof'[w] = None /\ temp'[w] = None
      /\ \A v \in Writer \ {w} :
            /\ pc'[v] = pc[v] /\ proof'[v] = proof[v] /\ temp'[v] = temp[v]
            /\ failed'[v] = failed[v]
  BY <1>2 DEF TypeOK
<1>4. /\ DOMAIN files' \subseteq DOMAIN files
      /\ \A q \in DOMAIN files' : files'[q] = files[q]
      /\ \A q \in DOMAIN files : q # temp[w] => q \in DOMAIN files'
      /\ temp[w] \in DOMAIN files' => temp[w] \in orphans'
      /\ \A q \in orphans : q # temp[w] => q \in orphans'
      /\ orphans' \subseteq orphans \cup {temp[w]}
  BY DEF Remove
<1>5. TypeOK'
  BY <1>1, <1>2, <1>3, <1>4 DEF TypeOK, Location
<1>6. TempsAreOwned'
  BY <1>1, <1>3, <1>4 DEF TempsAreOwned
<1>7. PathsInv'
  BY <1>2, <1>3 DEF PathsInv
<1>8. LinksInv'
  BY <1>1, <1>2, <1>3, <1>4 DEF LinksInv, TypeOK
<1> QED BY <1>5, <1>6, <1>7, <1>8, StoreIInvParts

\* The host writes back, the process dies, or the host does.
LEMMA HostKeeps ==
    ASSUME StoreIInv, WriteBack \/ ProcessCrash \/ PowerLoss
    PROVE  StoreIInv'
<1> USE StoreAssumption DEF StoreIInv, StoreInv, writerVars, diskVars
<1>1. CASE WriteBack
  BY <1>1, StoreIInvParts DEF WriteBack, TypeOK, TempsAreOwned, PathsInv, LinksInv
<1>a. ASSUME NewProcess
      PROVE  /\ pc' \in [Writer -> Location] /\ proof' \in [Writer -> Digest \cup {None}]
             /\ temp' \in [Writer -> TempPath \cup {None}] /\ failed' \in [Writer -> BOOLEAN]
             /\ \A w \in Writer : pc'[w] = "idle" /\ temp'[w] = None
             /\ pid' \in Pid /\ sequence' = 0 /\ sequence' \in 0..MaxPuts
             /\ crashes' \in 0..MaxCrashes /\ crashes' = crashes + 1
             /\ UNCHANGED <<acked, puts>>
             /\ PathsInv'
  BY <1>a DEF NewProcess, TypeOK, PathsInv, Location
<1>2. CASE ProcessCrash
  <2>1. NewProcess /\ orphans' = DOMAIN files /\ UNCHANGED <<files, final, linkOnDisk, boots>>
    BY <1>2 DEF ProcessCrash
  <2>2. TypeOK'
    BY <1>a, <2>1 DEF TypeOK
  <2>3. TempsAreOwned' /\ LinksInv'
    BY <1>a, <2>1 DEF TempsAreOwned, LinksInv
  <2> QED BY <1>a, <2>1, <2>2, <2>3, StoreIInvParts
<1>3. CASE PowerLoss
  <2>1. NewProcess /\ boots' = boots + 1 /\ final' \in [Digest -> File \cup {None}]
        /\ linkOnDisk' = {d \in Digest : final'[d] # None}
    BY <1>3 DEF PowerLoss
  <2>2. PICK left \in SUBSET DOMAIN files :
          files' = [p \in left |-> files[p]] /\ orphans' = left
    BY <1>3 DEF PowerLoss
  <2>3. \A d \in Digest : final'[d] # None => final'[d] = WholeFile
    BY <1>3 DEF PowerLoss, LinksInv, Surviving, WholeFile
  <2>4. TypeOK'
    BY <1>a, <2>1, <2>2 DEF TypeOK
  <2>5. TempsAreOwned'
    BY <1>a, <2>1, <2>2 DEF TempsAreOwned
  <2>6. LinksInv'
    BY <1>a, <2>1, <2>3 DEF LinksInv
  <2> QED BY <1>a, <2>1, <2>4, <2>5, <2>6, StoreIInvParts
<1> QED BY <1>1, <1>2, <1>3

\* Every step keeps the invariant.
LEMMA NextStore == StoreIInv /\ [Next]_vars => StoreIInv'
<1> SUFFICES ASSUME StoreIInv, [Next]_vars PROVE StoreIInv'
  OBVIOUS
<1>1. CASE UNCHANGED vars
  BY <1>1
  DEF vars, writerVars, diskVars, StoreIInv, StoreInv, TypeOK, VisibleIsWhole, TempsAreOwned,
      PathsInv, LinksInv
<1> QED BY <1>1, PutKeeps, StepKeeps, RemoveKeeps, HostKeeps DEF Next

\* Through any number of concurrent put() calls, crashes of the process and
\* crashes of the host, a file under a final path is the whole proof, put() never
\* writes into another call's temporary file, and every temporary file has an
\* owner or was left by a crash or a failed removal.
THEOREM StoreAlwaysSafe == Spec => []StoreInv
<1>1. StoreIInv => StoreInv
  BY DEF StoreIInv
<1> QED BY <1>1, InitStore, NextStore, PTL DEF Spec

-----------------------------------------------------------------------------
(* The refinement.                                                         *)

\* What the service serves with status 200 is what is linked: get() never meets
\* a file that is not the proof.
LEMMA ServedIsLinked == StoreIInv => Served = {d \in Digest : final[d] # None}
<1> SUFFICES ASSUME StoreIInv PROVE Served = {d \in Digest : final[d] # None}
  OBVIOUS
<1>1. ASSUME NEW d \in Digest, final[d] = None PROVE GetArtifact(d) # 200
  <2>1. Get(d) = "missing"
    BY <1>1 DEF Get
  <2> QED BY <2>1 DEF GetArtifact
<1>2. ASSUME NEW d \in Digest, final[d] # None PROVE GetArtifact(d) = 200
  <2>1. final[d].whole
    BY <1>2 DEF StoreIInv, StoreInv, VisibleIsWhole
  <2>2. Get(d) = "found"
    BY <1>2, <2>1 DEF Get
  <2> QED BY <2>2 DEF GetArtifact
<1> QED BY <1>1, <1>2 DEF Served

\* A proof get() finds is served.
LEMMA FoundIsServed ==
    ASSUME NEW d \in Digest, Get(d) = "found"
    PROVE  d \in Served
BY DEF Served, GetArtifact

\* A step that leaves links and directories alone changes nothing of what is
\* served and of what is durable.
LEMMA SameLinks ==
    ASSUME StoreIInv, StoreIInv', UNCHANGED <<final, linkOnDisk>>
    PROVE  Served' = Served /\ (Served \cap linkOnDisk)' = Served \cap linkOnDisk
<1>1. (StoreIInv => Served = {d \in Digest : final[d] # None})'
  BY ServedIsLinked, PTL
<1> QED BY <1>1, ServedIsLinked

\* A step of put() that neither links a proof nor returns.
LEMMA SilentStep ==
    ASSUME StoreIInv, StoreIInv', UNCHANGED <<final, linkOnDisk, acked, boots>>
    PROVE  UNCHANGED Abstract!vars
BY SameLinks DEF Abstract!vars

\* A step of put() that returns, and has linked the proof or found it.
LEMMA AcknowledgingStep ==
    ASSUME StoreIInv, StoreIInv', UNCHANGED <<final, linkOnDisk, boots>>,
           NEW d \in Served, acked' = acked \cup {d}
    PROVE  Abstract!Next
<1>1. d \in Digest
  BY DEF Served
<1> QED BY <1>1, SameLinks DEF Abstract!Next, Abstract!Acknowledge

\* put() that wins links its proof: it is served from now on, and not yet
\* durable, because the directory was written back before it was there.
LEMMA LinkStores ==
    ASSUME StoreIInv, StoreIInv', NEW w \in Writer, Link(w)
    PROVE  [Abstract!Next]_(Abstract!vars)
<1>1. CASE UNCHANGED final
  BY <1>1, SilentStep DEF Link
<1>2. CASE /\ final[proof[w]] = None
           /\ final' = [final EXCEPT ![proof[w]] = files[temp[w]]]
  <2>1. proof[w] \in Digest /\ files[temp[w]] # None /\ final \in [Digest -> File \cup {None}]
    BY InProgress, WholeIsFile DEF Link, StoreIInv, StoreInv, LinksInv, TypeOK
  <2>2. (StoreIInv => Served = {d \in Digest : final[d] # None})'
    BY ServedIsLinked, PTL
  <2>3. Served' = Served \cup {proof[w]}
    BY <1>2, <2>1, <2>2, ServedIsLinked
  <2>4. proof[w] \notin linkOnDisk
    BY <1>2 DEF StoreIInv, LinksInv
  <2>5. UNCHANGED <<linkOnDisk, acked, boots>>
    BY DEF Link
  <2>6. Abstract!Store(proof[w])
    BY <2>3, <2>4, <2>5 DEF Abstract!Store
  <2> QED BY <2>1, <2>6 DEF Abstract!Next
<1> QED BY <1>1, <1>2 DEF Link

\* put() that returns without an error names a proof that is served.
LEMMA ReturnAcknowledges ==
    ASSUME StoreIInv, StoreIInv',
           (\E d \in Digest : PutExisting(d)) \/ (\E w \in Writer : Remove(w))
    PROVE  [Abstract!Next]_(Abstract!vars)
<1>1. ASSUME NEW d \in Digest, PutExisting(d) PROVE [Abstract!Next]_(Abstract!vars)
  <2>1. UNCHANGED <<final, linkOnDisk, boots>>
    BY <1>1 DEF PutExisting, diskVars
  <2>2. CASE Get(d) = "found"
    BY <1>1, <2>1, <2>2, FoundIsServed, AcknowledgingStep DEF PutExisting
  <2>3. CASE Get(d) # "found"
    BY <1>1, <2>1, <2>3, SilentStep DEF PutExisting
  <2> QED BY <2>2, <2>3
<1>2. ASSUME NEW w \in Writer, Remove(w) PROVE [Abstract!Next]_(Abstract!vars)
  <2>1. UNCHANGED <<final, linkOnDisk, boots>>
    BY <1>2 DEF Remove
  <2>2. CASE failed[w]
    BY <1>2, <2>1, <2>2, SilentStep DEF Remove
  <2>3. CASE ~failed[w]
    <3>1. proof[w] \in Digest /\ final[proof[w]] # None
      BY <1>2, <2>3, InProgress DEF Remove, StoreIInv, LinksInv
    <3>2. proof[w] \in Served
      BY <3>1, ServedIsLinked
    <3> QED BY <1>2, <2>1, <2>3, <3>2, AcknowledgingStep DEF Remove
  <2> QED BY <2>2, <2>3
<1> QED BY <1>1, <1>2

\* The host writes back what is linked.
LEMMA WriteBackPersists ==
    ASSUME StoreIInv, StoreIInv', WriteBack
    PROVE  Abstract!Persist
<1>1. UNCHANGED <<final, acked, boots>> /\ linkOnDisk' = Served
  BY ServedIsLinked DEF WriteBack
<1>2. (StoreIInv => Served = {d \in Digest : final[d] # None})'
  BY ServedIsLinked, PTL
<1>3. Served' = Served
  BY <1>1, <1>2, ServedIsLinked
<1> QED BY <1>1, <1>3 DEF Abstract!Persist

\* The host goes down: a proof whose link was on disk is whole and synced, so it
\* is still served.
LEMMA PowerLossIsHostDown ==
    ASSUME StoreIInv, StoreIInv', PowerLoss
    PROVE  Abstract!HostDown
<1>1. (StoreIInv => Served = {d \in Digest : final[d] # None})'
  BY ServedIsLinked, PTL
<1>2. Served' = linkOnDisk'
  BY <1>1 DEF PowerLoss
<1>3. ASSUME NEW d \in Served' PROVE d \in Served
  <2>1. d \in Digest /\ final'[d] # None
    BY <1>1, <1>3
  <2>2. final[d] # None
    BY <2>1 DEF PowerLoss
  <2> QED BY <2>1, <2>2, ServedIsLinked
<1>4. ASSUME NEW d \in Served \cap linkOnDisk PROVE d \in Served'
  <2>1. d \in Digest /\ final[d] # None /\ d \in linkOnDisk
    BY <1>4, ServedIsLinked
  <2>2. final'[d] \in Surviving(final[d])
    BY <2>1 DEF PowerLoss
  <2>3. final[d] = WholeFile
    BY <2>1 DEF StoreIInv, LinksInv
  <2>4. Surviving(WholeFile) = {WholeFile}
    BY DEF Surviving, WholeFile
  <2> QED BY <1>1, <2>1, <2>2, <2>3, <2>4, WholeIsFile
<1>5. boots' = boots + 1 /\ UNCHANGED acked
  BY DEF PowerLoss, NewProcess
<1> QED BY <1>2, <1>3, <1>4, <1>5 DEF Abstract!HostDown

\* Every step is a step of the abstract store or none.
LEMMA StepImplements ==
    StoreIInv /\ StoreIInv' /\ [Next]_vars => [Abstract!Next]_(Abstract!vars)
<1> SUFFICES ASSUME StoreIInv, StoreIInv', [Next]_vars PROVE [Abstract!Next]_(Abstract!vars)
  OBVIOUS
<1>1. CASE UNCHANGED vars
  BY <1>1, SilentStep DEF vars, diskVars
<1>2. ASSUME NEW w \in Writer, NEW d \in Digest, PutNew(w, d) PROVE UNCHANGED Abstract!vars
  BY <1>2, SilentStep DEF PutNew, diskVars
<1>3. ASSUME NEW w \in Writer, Create(w) \/ Write(w) \/ Sync(w) \/ Recheck(w)
      PROVE  UNCHANGED Abstract!vars
  BY <1>3, SilentStep DEF Create, Write, Sync, Recheck, diskVars
<1>4. CASE ProcessCrash
  BY <1>4, SilentStep DEF ProcessCrash, NewProcess, diskVars
<1>5. CASE WriteBack
  BY <1>5, WriteBackPersists DEF Abstract!Next
<1>6. CASE PowerLoss
  BY <1>6, PowerLossIsHostDown DEF Abstract!Next
<1> QED BY <1>1, <1>2, <1>3, <1>4, <1>5, <1>6, LinkStores, ReturnAcknowledges DEF Next

\* put(), with every crash between two of its steps, implements the abstract
\* store: what it acknowledges is served, and a proof stops being served only
\* when the host goes down before its link was written back.
THEOREM StoreImplements == Spec => ImplementsStore
<1>1. Init => Abstract!Init
  <2> SUFFICES ASSUME Init PROVE Abstract!Init
    OBVIOUS
  <2>1. Served = {}
    BY InitStore, ServedIsLinked DEF Init
  <2> QED BY <2>1 DEF Init, Abstract!Init
<1> QED BY <1>1, InitStore, NextStore, StepImplements, PTL
        DEF Spec, ImplementsStore, Abstract!Spec
=============================================================================
