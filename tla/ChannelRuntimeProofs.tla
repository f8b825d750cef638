------------------------ MODULE ChannelRuntimeProofs ------------------------
(***************************************************************************)
(* Proofs about reading a workspace while somebody edits it, for any       *)
(* channels, files, bodies and edits: what a context is made of was there, *)
(* a load fails for a reason, and a listing is honest.                     *)
(*                                                                         *)
(* What an operation knows at a step it knows as `at some moment since it  *)
(* began a look found this', and edits only add moments.  Every part of    *)
(* the invariant is of that form.                                          *)
(***************************************************************************)
EXTENDS ChannelRuntime, WellFoundedInduction, TLAPS

Tools == UNION {Grants[d] : d \in DOMAIN Grants}

Entries == UNION {EntriesOf(p) : p \in Paths}

IsDisk(d) ==
  /\ d \in Seq([Channels -> [Paths -> Entries]])
  /\ Len(d) \in 1 .. MaxEdits + 1
  /\ \A m \in 1 .. Len(d), ch \in Channels, p \in Paths : d[m][ch][p] \in EntriesOf(p)

\* What there was to see at a path from the n-th moment on.
Seen(d, ch, n, p) == {See(d[m][ch], p) : m \in {m \in DOMAIN d : n <= m}}

Sound(d, ch, n, p) == Seen(d, ch, n, p) \ {"missing", "odd"} # {}

-----------------------------------------------------------------------------
(* A branch *)

Opening == Stages \cup {"directory", "listing"}
Reading == {"lookup", "check", "open"}

BranchOf(k) ==
  [pc : Opening \cup Reading \cup {"done"},
   left : SUBSET DocumentsOf(k),
   docs : [DocumentsOf(k) -> DOMAIN Grants \cup {"none"}]]

Fresh(k) ==
  [pc |-> CASE k # "skills" -> "directory"
            [] k = "skills" /\ Files[k] = <<>> -> "done"
            [] OTHER -> "workspace",
   left |-> {},
   docs |-> [f \in DocumentsOf(k) |-> "none"]]

\* What a branch has to read was seen, from the n-th moment on.
BranchInv(d, n, k, b) ==
  /\ b \in BranchOf(k)
  /\ k = "skills" => b.pc # "listing" /\ (Files[k] = <<>> => b.pc = "done")
  /\ k # "skills" => b.pc \notin Stages \cup {"lookup"}
  /\ k = "memory" => b.left \subseteq Approved
  /\ b.pc \in Reading <=> b.left # {}
  /\ b.pc = "listing" => "dir" \in Seen(d, Loaded, n, k)
  /\ k # "skills" =>
       \A f \in b.left : Seen(d, Loaded, n, f) \ {"missing"} # {}
  /\ b.pc = "open" \/ (k = "skills" /\ b.pc = "check") =>
       Sound(d, Loaded, n, First(k, b.left))

\* A document is still to be read, was rightly passed over, or was there.
Accounted(d, n, k, b, f) ==
  IF b.docs[f] = "none"
    THEN \/ b.pc \in Opening \/ f \in b.left
         \/ k # "skills" /\ \/ k = "memory" /\ f \notin Approved
                            \/ "missing" \in Seen(d, Loaded, n, f)
    ELSE /\ k = "memory" => f \in Approved
         /\ b.docs[f] \in Seen(d, Loaded, n, f)

-----------------------------------------------------------------------------
(* The load and the listing *)

LoadRecord ==
  [pc : Stages \cup {"idle", "check", "read", "documents", "loaded", "failed"},
   from : Nat, config : DOMAIN Configs \cup {"none"}, tools : SUBSET Tools,
   failure : Failures \cup {"none"}]

\* Why a load that began at the n-th moment fails.
Cause(d, n, failure) ==
  CASE failure = "ChannelNotFound" -> "missing" \in Seen(d, Loaded, n, "workspace")
    [] failure = "ConfigNotFound" -> "missing" \in Seen(d, Loaded, n, "config")
    [] failure = "InvalidConfig" ->
         \E b \in DOMAIN Configs : Configs[b].verdict = "invalid"
                                   /\ b \in Seen(d, Loaded, n, "config")
    [] failure = "ConfigMismatch" ->
         \E b \in DOMAIN Configs : Configs[b].verdict = "foreign"
                                   /\ b \in Seen(d, Loaded, n, "config")
    [] failure = "SkillNotFound" ->
         \E f \in DocumentsOf("skills") :
           Seen(d, Loaded, n, f) \cap {"missing", "odd"} # {}
    [] failure = "Unsafe" ->
         \E f \in Documents \cup {"config"} : "odd" \in Seen(d, Loaded, n, f)
    [] OTHER ->
         \E p \in Paths : \E x, y \in Seen(d, Loaded, n, p) :
           x \in {"missing", "odd"} /\ y # x

Gathered(d, n, config, bs) ==
  /\ config = See(d[n][Loaded], "config")
  /\ \A k \in Kinds : \A f \in DocumentsOf(k) : Accounted(d, n, k, bs[k], f)

LoadInv(d, l, bs) ==
  /\ l \in LoadRecord
  /\ l.from <= Len(d) /\ (l.pc # "idle" => l.from >= 1)
  /\ l.failure # "none" <=> l.pc = "failed"
  /\ l.pc \in {"canonical", "check", "read"} => Sound(d, Loaded, l.from, "config")
  /\ l.pc \in {"documents", "loaded"} =>
       /\ l.config \in DOMAIN Configs
       /\ \E n \in l.from .. Len(d) : Gathered(d, n, l.config, bs)
  /\ l.pc \notin {"documents", "loaded", "failed"} =>
       \A k \in Kinds : bs[k] = Fresh(k)
  /\ l.pc = "failed" => Cause(d, l.from, l.failure)

\* The answer of a load that has ended well.
Answer(l, bs) ==
  l.pc = "loaded" =>
    /\ \A k \in Kinds : bs[k].pc = "done"
    /\ l.tools = Configs[l.config].tools \cap
         UNION {Grants[t] : t \in {bs["skills"].docs[f] : f \in DocumentsOf("skills")}
                                    \ {"none"}}

ListRecord ==
  [pc : Stages \cup {"idle", "readdir", "next", "listed", "failed"},
   from : Nat, left : SUBSET Channels, current : Channels \cup {"none"},
   found : SUBSET Channels, failure : Failures \cup {"none"}]

\* A channel that is not listed, to be probed or being probed was not there.
ListInv(d, l) ==
  /\ l \in ListRecord
  /\ l.from <= Len(d) /\ (l.pc # "idle" => l.from >= 1)
  /\ l.failure # "none" <=> l.pc = "failed"
  /\ l.pc \in {"idle", "readdir"} => l.found = {}
  /\ \A ch \in l.found : Sound(d, ch, l.from, "config")
  /\ l.pc \in Stages => l.current \in Channels
  /\ l.pc = "canonical" => Sound(d, l.current, l.from, "config")
  /\ l.pc = "listed" => l.left = {}
  /\ l.pc \notin {"idle", "readdir", "failed"} =>
       \A ch \in Channels \ (Strays \cup l.found \cup l.left) :
         (l.pc \in Stages /\ ch = l.current) \/ "missing" \in Seen(d, ch, l.from, "config")
  /\ l.failure = "Unsafe" =>
       Strays # {} \/ \E ch \in Channels : "odd" \in Seen(d, ch, l.from, "config")
  /\ l.failure = "Io" =>
       \E ch \in Channels : /\ "missing" \in Seen(d, ch, l.from, "config")
                            /\ \E x \in Seen(d, ch, l.from, "config") : x # "missing"

RuntimeInv ==
  /\ IsDisk(disk)
  /\ DOMAIN branch = Kinds
  /\ \A k \in Kinds : BranchInv(disk, load.from, k, branch[k])
  /\ LoadInv(disk, load, branch)
  /\ Answer(load, branch)
  /\ ListInv(disk, list)

-----------------------------------------------------------------------------
(* Looking at the disk *)

\* What may stand at each path.
LEMMA EntryTypes ==
  /\ \A p \in Directories : p \in Paths /\ EntriesOf(p) = {"dir", "missing"}
  /\ "config" \in Paths
  /\ EntriesOf("config") = {"missing", "odd"} \cup DOMAIN Configs
  /\ \A k \in Kinds : \A f \in DocumentsOf(k) :
       /\ f \in Documents /\ f \in Paths /\ f \notin Directories /\ f # "config"
       /\ EntriesOf(f) = {"missing", "odd"} \cup DOMAIN Grants
  /\ \A p \in Paths : "missing" \in EntriesOf(p)
<1>1. "config" \notin Directories
  BY DEF Directories, Kinds
<1>2. \A k \in Kinds : \A f \in DocumentsOf(k) : f \in Documents
  BY DEF Documents
<1> QED BY <1>1, <1>2, NamesAssumption DEF EntriesOf, Paths

\* What is above a path is directories.
LEMMA AboveTypes ==
  /\ \A p \in Paths : Above(p) \subseteq Directories
  /\ Above("workspace") = {}
  /\ "workspace" \in Above("config") /\ "workspace" \in Above("harness")
  /\ \A k \in Kinds : \A f \in DocumentsOf(k) :
       k \in Above(f) /\ \A e \in Above(k) : e \in Above(f)
<1>1. \A k \in Kinds : \A f \in DocumentsOf(k) :
        Above(f) = {"workspace", "harness"} \cup {j \in Kinds : f \in DocumentsOf(j)}
  BY EntryTypes DEF Above, Directories, Kinds
<1>2. \A k \in Kinds : Above(k) = {"workspace", "harness"}
  BY DEF Above, Kinds
<1>3. /\ Above("workspace") = {} /\ Above("harness") = {"workspace"}
      /\ Above("config") = {"workspace", "harness"}
  BY DEF Above, Kinds
<1>4. \A p \in Documents : \E k \in Kinds : p \in DocumentsOf(k)
  BY DEF Documents
<1> QED BY <1>1, <1>2, <1>3, <1>4 DEF Paths, Directories

\* A look finds an entry of the path's kind, and nothing below what is missing.
LEMMA Looks ==
  ASSUME NEW d, IsDisk(d), NEW m \in 1 .. Len(d), NEW ch \in Channels
  PROVE  /\ \A p \in Paths : See(d[m][ch], p) \in EntriesOf(p)
         /\ See(d[m][ch], "workspace") = "missing" => See(d[m][ch], "config") = "missing"
         /\ \A k \in Kinds : \A f \in DocumentsOf(k) :
              See(d[m][ch], k) = "missing" => See(d[m][ch], f) = "missing"
<1>1. \A p \in Paths : d[m][ch][p] \in EntriesOf(p)
  BY DEF IsDisk
<1> QED BY <1>1, EntryTypes, AboveTypes DEF See

\* What was seen at a path is an entry it may have.
LEMMA SeenTyped ==
  ASSUME NEW d, IsDisk(d), NEW ch \in Channels, NEW n, NEW p \in Paths
  PROVE  Seen(d, ch, n, p) \subseteq EntriesOf(p)
<1>1. DOMAIN d = 1 .. Len(d)
  BY DEF IsDisk
<1> QED BY <1>1, Looks DEF Seen

\* A look finds something that is seen from any earlier moment on.
LEMMA LookSeen ==
  ASSUME NEW d, IsDisk(d), NEW ch, NEW p, NEW n \in Nat, n <= Len(d)
  PROVE  See(d[Len(d)][ch], p) \in Seen(d, ch, n, p)
<1>1. Len(d) \in DOMAIN d
  BY DEF IsDisk
<1> QED BY <1>1 DEF Seen

Grown(d, e) == IsDisk(d) /\ IsDisk(e) /\ Len(e) = Len(d) + 1
               /\ \A m \in 1 .. Len(d) : e[m] = d[m]

\* What was seen stays seen when the disk changes,
LEMMA SeenGrows ==
  ASSUME NEW d, NEW e, Grown(d, e), NEW ch, NEW n, NEW p
  PROVE  Seen(d, ch, n, p) \subseteq Seen(e, ch, n, p)
<1>1. DOMAIN d = 1 .. Len(d) /\ DOMAIN e = 1 .. Len(e) /\ Len(d) \in Nat
  BY DEF Grown, IsDisk
<1>2. \A m \in DOMAIN d : m \in DOMAIN e /\ e[m] = d[m]
  BY <1>1 DEF Grown
<1> QED BY <1>2 DEF Seen

\* The first of the files left is one of them.
LEMMA FirstIsLeft ==
  ASSUME NEW k \in Kinds, NEW left \in SUBSET DocumentsOf(k), left # {}
  PROVE  First(k, left) \in left
<1> DEFINE Places == {n \in 1 .. Len(Files[k]) : Files[k][n] \in left}
<1>1. Len(Files[k]) \in Nat
  BY FilesAssumption
<1>2. Places # {} /\ Places \subseteq Nat
  BY <1>1 DEF DocumentsOf
<1>3. PICK n \in Places : \A m \in Places : ~ (<<m, n>> \in OpToRel(<, Nat))
  BY <1>2, NatLessThanWellFounded, WFMin, Zenon
<1>4. \A m \in Places : ~ (m < n)
  BY <1>2, <1>3 DEF OpToRel
<1>5. Earlier(k, n) \cap left = {}
  BY <1>1, <1>4 DEF Earlier
<1> QED BY <1>3, <1>5 DEF First

-----------------------------------------------------------------------------
(* Edits only add moments *)

\* what a branch knows stays true,
LEMMA BranchGrows ==
  ASSUME NEW d, NEW e, Grown(d, e), NEW n, NEW k, NEW b, BranchInv(d, n, k, b)
  PROVE  BranchInv(e, n, k, b)
BY SeenGrows DEF BranchInv, Sound

\* what it has read or passed over stays accounted for,
LEMMA AccountedGrows ==
  ASSUME NEW d, NEW e, Grown(d, e), NEW n, NEW k, NEW b, NEW f, Accounted(d, n, k, b, f)
  PROVE  Accounted(e, n, k, b, f)
BY SeenGrows DEF Accounted

\* a failure keeps its cause,
LEMMA CauseGrows ==
  ASSUME NEW d, NEW e, Grown(d, e), NEW n, NEW failure \in Failures, Cause(d, n, failure)
  PROVE  Cause(e, n, failure)
<1>1. CASE failure = "InvalidConfig"
  BY <1>1, SeenGrows DEF Cause
<1>2. CASE failure = "ConfigMismatch"
  BY <1>2, SeenGrows DEF Cause
<1>3. CASE failure = "SkillNotFound"
  BY <1>3, SeenGrows DEF Cause
<1>4. CASE failure = "Unsafe"
  BY <1>4, SeenGrows DEF Cause
<1>5. CASE failure = "Io"
  BY <1>5, SeenGrows DEF Cause
<1>6. CASE failure \in {"ChannelNotFound", "ConfigNotFound"}
  BY <1>6, SeenGrows DEF Cause
<1> QED BY <1>1, <1>2, <1>3, <1>4, <1>5, <1>6 DEF Failures

\* a load all it knows,
LEMMA LoadGrows ==
  ASSUME NEW d, NEW e, Grown(d, e), NEW l, NEW bs, LoadInv(d, l, bs)
  PROVE  LoadInv(e, l, bs)
<1>1. /\ l \in LoadRecord /\ l.from <= Len(e) /\ Len(d) \in Nat
      /\ l.pc = "failed" => l.failure \in Failures
  BY DEF LoadInv, LoadRecord, Grown, IsDisk
<1>2. l.pc \in {"canonical", "check", "read"} => Sound(e, Loaded, l.from, "config")
  BY SeenGrows DEF LoadInv, Sound
<1>3. ASSUME NEW n \in l.from .. Len(d), Gathered(d, n, l.config, bs), l.from >= 1
      PROVE  n \in l.from .. Len(e) /\ Gathered(e, n, l.config, bs)
  <2>1. n \in 1 .. Len(d) /\ n \in l.from .. Len(e)
    BY <1>1, <1>3 DEF Grown, IsDisk, LoadRecord
  <2> QED BY <1>3, <2>1, AccountedGrows DEF Gathered, Grown
<1>4. l.pc = "failed" => Cause(e, l.from, l.failure)
  BY <1>1, CauseGrows DEF LoadInv
<1> QED BY <1>1, <1>2, <1>3, <1>4 DEF LoadInv

\* and so does a listing.
LEMMA ListGrows ==
  ASSUME NEW d, NEW e, Grown(d, e), NEW l, ListInv(d, l)
  PROVE  ListInv(e, l)
<1>1. l.from <= Len(e)
  BY DEF ListInv, ListRecord, Grown, IsDisk
<1>2. \A ch, p : Seen(d, ch, l.from, p) \subseteq Seen(e, ch, l.from, p)
  BY SeenGrows
<1> QED BY <1>1, <1>2 DEF ListInv, Sound

\* An edit adds one state to the history of the disk.
LEMMA EditGrows ==
  ASSUME IsDisk(disk), Edit
  PROVE  Grown(disk, disk')
<1>1. PICK e \in Edits :
        LET now == disk[Len(disk)] IN
        disk' = Append(disk, [now EXCEPT ![e[1]][e[2]] = e[3]])
  BY DEF Edit
<1> DEFINE now == disk[Len(disk)]
           then == [now EXCEPT ![e[1]][e[2]] = e[3]]
<1>2. /\ e[1] \in Channels /\ e[2] \in Paths /\ e[3] \in EntriesOf(e[2])
      /\ EntriesOf(e[2]) \subseteq Entries
  BY FilesAssumption DEF Entries
<1>3. Len(disk) \in Nat /\ Len(disk) >= 1 /\ Len(disk) <= MaxEdits /\ MaxEdits \in Nat
  BY LoadBoundsAssumption DEF IsDisk, Edit
<1>4. now \in [Channels -> [Paths -> Entries]]
  BY <1>3 DEF IsDisk
<1>5. then \in [Channels -> [Paths -> Entries]]
  BY <1>2, <1>4
<1>6. ASSUME NEW ch \in Channels, NEW p \in Paths PROVE then[ch][p] \in EntriesOf(p)
  <2>1. now[ch][p] \in EntriesOf(p)
    BY <1>3 DEF IsDisk
  <2> QED BY <1>2, <1>4, <2>1
<1>7. disk' = Append(disk, then) /\ disk \in Seq([Channels -> [Paths -> Entries]])
  BY <1>1 DEF IsDisk
<1> HIDE DEF then, now
<1>8. /\ disk' \in Seq([Channels -> [Paths -> Entries]])
      /\ Len(disk') = Len(disk) + 1
      /\ \A m \in 1 .. Len(disk) : disk'[m] = disk[m]
      /\ disk'[Len(disk) + 1] = then
  BY <1>5, <1>7
<1>9. \A m \in 1 .. Len(disk') : m \in 1 .. Len(disk) \/ m = Len(disk) + 1
  BY <1>3, <1>8
<1>10. \A m \in 1 .. Len(disk), ch \in Channels, p \in Paths :
         disk[m][ch][p] \in EntriesOf(p)
  BY DEF IsDisk
<1>11. \A m \in 1 .. Len(disk'), ch \in Channels, p \in Paths :
         disk'[m][ch][p] \in EntriesOf(p)
  BY <1>6, <1>8, <1>9, <1>10
<1>12. Len(disk') \in 1 .. MaxEdits + 1
  BY <1>3, <1>8
<1>13. IsDisk(disk')
  BY <1>8, <1>11, <1>12 DEF IsDisk
<1> QED BY <1>8, <1>13 DEF Grown

\* Whoever edits harms nobody.
LEMMA EditKeeps == RuntimeInv /\ Edit => RuntimeInv'
<1> SUFFICES ASSUME RuntimeInv, Edit PROVE RuntimeInv'
  OBVIOUS
<1>1. Grown(disk, disk') /\ UNCHANGED <<load, branch, list>>
  BY EditGrows DEF RuntimeInv, Edit
<1>2. IsDisk(disk')
  BY <1>1 DEF Grown
<1>3. \A k \in Kinds : BranchInv(disk', load.from, k, branch[k])
  BY <1>1, BranchGrows DEF RuntimeInv
<1>4. LoadInv(disk', load, branch) /\ ListInv(disk', list)
  BY <1>1, LoadGrows, ListGrows DEF RuntimeInv
<1> QED BY <1>1, <1>2, <1>3, <1>4 DEF RuntimeInv

-----------------------------------------------------------------------------
(* What a step of the load or of a branch has to establish *)

\* A probe of a workspace that does not answer has seen the reason.
LEMMA Probed ==
  ASSUME IsDisk(disk), NEW ch \in Channels, NEW n \in Nat, n <= Len(disk),
         NEW stage \in Stages
  PROVE  LET found == Probe(ch, stage)
             config == Seen(disk, ch, n, "config")
         IN /\ found \in {"ok", "ChannelNotFound", "ConfigNotFound", "Unsafe", "Io"}
            /\ found = "ChannelNotFound" =>
                 "missing" \in Seen(disk, ch, n, "workspace") /\ "missing" \in config
            /\ found \in {"ConfigNotFound", "Io"} => "missing" \in config
            /\ found = "Io" => stage = "canonical"
            /\ found = "Unsafe" => "odd" \in config
            /\ found = "ok" /\ stage = "harness" => Sound(disk, ch, n, "config")
<1>1. Look(ch, "workspace") \in Seen(disk, ch, n, "workspace")
      /\ Look(ch, "config") \in Seen(disk, ch, n, "config")
  BY LookSeen DEF Look
<1>2. Look(ch, "workspace") = "missing" => Look(ch, "config") = "missing"
  <2>1. Len(disk) \in 1 .. Len(disk)
    BY DEF IsDisk
  <2> QED BY <2>1, Looks DEF Look
<1>3. CASE stage = "workspace"
  BY <1>1, <1>2, <1>3 DEF Probe
<1>4. CASE stage = "harness"
  BY <1>1, <1>4 DEF Probe, Sound
<1>5. CASE stage = "canonical"
  BY <1>1, <1>5 DEF Probe
<1> QED BY <1>3, <1>4, <1>5 DEF Stages

\* A look at a path of the loaded channel is one more sight of it.
LEMMA Looked ==
  ASSUME IsDisk(disk), NEW n \in Nat, n <= Len(disk), NEW p \in Paths
  PROVE  Look(Loaded, p) \in Seen(disk, Loaded, n, p) \cap EntriesOf(p)
<1>1. Look(Loaded, p) \in Seen(disk, Loaded, n, p)
  BY LookSeen DEF Look
<1> QED BY <1>1, SeenTyped, ChannelsAssumption

\* A check or a read that finds a file in disorder is a cause to fail; one that
\* finds it missing only because it was there before.
LEMMA Checked ==
  ASSUME IsDisk(disk), NEW n \in Nat, n <= Len(disk), NEW p \in Documents \cup {"config"},
         Seen(disk, Loaded, n, p) \ {"missing"} # {}
  PROVE  /\ CheckFile(p) # "ok" => CheckFile(p) \in Failures /\ Cause(disk, n, CheckFile(p))
         /\ CheckFile(p) = "ok" => Sound(disk, Loaded, n, p)
<1>1. p \in Paths /\ Look(Loaded, p) \in Seen(disk, Loaded, n, p)
  BY Looked DEF Paths
<1>2. CASE Look(Loaded, p) = "missing"
  BY <1>1, <1>2 DEF CheckFile, Cause, Failures
<1>3. CASE Look(Loaded, p) = "odd"
  BY <1>1, <1>3 DEF CheckFile, Cause, Failures
<1>4. CASE Look(Loaded, p) \notin {"missing", "odd"}
  BY <1>1, <1>4 DEF CheckFile, Sound
<1> QED BY <1>2, <1>3, <1>4

\* A file that was seen but cannot be read was changed meanwhile.
LEMMA Opened ==
  ASSUME IsDisk(disk), NEW n \in Nat, n <= Len(disk), NEW p \in Documents \cup {"config"},
         Sound(disk, Loaded, n, p)
  PROVE  /\ OpenFile(p) # "ok" => OpenFile(p) = "Io" /\ Cause(disk, n, "Io")
         /\ OpenFile(p) = "ok" => Look(Loaded, p) \notin {"missing", "odd"}
<1>1. p \in Paths /\ Look(Loaded, p) \in Seen(disk, Loaded, n, p)
  BY Looked DEF Paths
<1> QED BY <1>1 DEF OpenFile, Cause, Sound

\* A load that fails with a cause is in order.
LEMMA FailKeeps ==
  ASSUME RuntimeInv, load.pc # "idle", NEW failure \in Failures,
         Cause(disk, load.from, failure), LoadFails(failure), UNCHANGED <<disk, branch, list>>
  PROVE  RuntimeInv'
<1>1. load \in LoadRecord /\ failure # "none"
  BY DEF RuntimeInv, LoadInv, Failures
<1>2. /\ load' \in LoadRecord /\ load'.pc = "failed" /\ load'.failure = failure
      /\ load'.from = load.from
  BY <1>1 DEF LoadFails, LoadRecord
<1>3. LoadInv(disk, load', branch) /\ Answer(load', branch)
  BY <1>1, <1>2 DEF LoadInv, RuntimeInv, Answer
<1> QED BY <1>2, <1>3 DEF RuntimeInv

\* A step of one branch harms neither the load nor the other branches.
LEMMA BranchStepKeeps ==
  ASSUME RuntimeInv, load.pc = "documents", NEW k \in Kinds, NEW found, NEW next,
         BranchStep(k, found, next),
         found # "ok" => found \in Failures /\ Cause(disk, load.from, found),
         found = "ok" =>
           /\ BranchInv(disk, load.from, k, next)
           /\ \A n \in 1 .. Len(disk), f \in DocumentsOf(k) :
                Accounted(disk, n, k, branch[k], f) => Accounted(disk, n, k, next, f)
  PROVE  RuntimeInv'
<1>1. CASE found # "ok"
  BY <1>1, FailKeeps DEF BranchStep
<1>2. CASE found = "ok"
  <2>1. UNCHANGED <<disk, load, list>> /\ branch' = [branch EXCEPT ![k] = next]
    BY <1>2 DEF BranchStep
  <2>2. /\ DOMAIN branch' = Kinds /\ branch'[k] = next
        /\ \A j \in Kinds \ {k} : branch'[j] = branch[j]
    BY <2>1 DEF RuntimeInv
  <2>3. \A j \in Kinds : BranchInv(disk, load.from, j, branch'[j])
    BY <1>2, <2>2 DEF RuntimeInv
  <2>4. PICK n \in load.from .. Len(disk) : Gathered(disk, n, load.config, branch)
    BY DEF RuntimeInv, LoadInv
  <2>5. n \in 1 .. Len(disk)
    BY DEF RuntimeInv, LoadInv, LoadRecord, IsDisk
  <2>6. Gathered(disk, n, load.config, branch')
    BY <1>2, <2>2, <2>4, <2>5 DEF Gathered
  <2>7. LoadInv(disk, load, branch') /\ Answer(load, branch')
    BY <2>6 DEF RuntimeInv, LoadInv, Answer
  <2> QED BY <2>1, <2>2, <2>3, <2>7 DEF RuntimeInv
<1> QED BY <1>1, <1>2

-----------------------------------------------------------------------------
(* The branches *)

\* While its branches read, the config of a load was seen to be there.
LEMMA InDocuments ==
  ASSUME RuntimeInv, load.pc = "documents"
  PROVE  /\ IsDisk(disk) /\ load.from \in 1 .. Len(disk) /\ load.from \in Nat
         /\ load.from <= Len(disk) /\ load.from >= 1
         /\ Sound(disk, Loaded, load.from, "config")
<1>1. /\ IsDisk(disk) /\ load.from \in 1 .. Len(disk) /\ load.from \in Nat
      /\ load.from <= Len(disk) /\ load.from >= 1 /\ DOMAIN disk = 1 .. Len(disk)
  BY DEF RuntimeInv, LoadInv, LoadRecord, IsDisk
<1>2. PICK n \in load.from .. Len(disk) : load.config = See(disk[n][Loaded], "config")
  BY DEF RuntimeInv, LoadInv, Gathered
<1>3. load.config \in Seen(disk, Loaded, load.from, "config")
  BY <1>1, <1>2 DEF Seen
<1>4. load.config \notin {"missing", "odd"}
  BY NamesAssumption DEF RuntimeInv, LoadInv
<1> QED BY <1>1, <1>3, <1>4 DEF Sound

LEMMA ResolveAgainKeeps == RuntimeInv /\ ResolveWorkspaceAgain => RuntimeInv'
<1> SUFFICES ASSUME RuntimeInv, ResolveWorkspaceAgain PROVE RuntimeInv'
  OBVIOUS
<1> DEFINE b == branch["skills"]
           found == Probe(Loaded, b.pc)
           next == [b EXCEPT !.pc = IF @ = "canonical" THEN "directory" ELSE NextStage[@]]
<1>1. /\ load.pc = "documents" /\ b.pc \in Stages /\ "skills" \in Kinds
      /\ BranchInv(disk, load.from, "skills", b) /\ BranchStep("skills", found, next)
  BY DEF ResolveWorkspaceAgain, RuntimeInv, Kinds
<1>2. found # "ok" => found \in Failures /\ Cause(disk, load.from, found)
  <2>1. "config" \in Paths
    BY EntryTypes
  <2> QED BY <1>1, <2>1, InDocuments, Probed, ChannelsAssumption DEF Failures, Cause, Sound
<1>3. /\ next.pc \in Opening \ {"listing"} /\ next.left = b.left /\ next.docs = b.docs
      /\ next \in BranchOf("skills")
  BY <1>1 DEF BranchInv, BranchOf, Opening, Stages, NextStage
<1>4. b.pc \in Opening /\ b.left = {} /\ next.pc \notin Reading \cup {"done"}
  BY <1>1, <1>3 DEF BranchInv, Opening, Reading, Stages
<1>5. Files["skills"] # <<>>
  BY <1>4, <1>1 DEF BranchInv, Opening, Stages
<1> HIDE DEF b, found, next
<1>6. BranchInv(disk, load.from, "skills", next)
  BY <1>3, <1>4, <1>5 DEF BranchInv, Reading
<1>7. \A n \in 1 .. Len(disk), f \in DocumentsOf("skills") :
        Accounted(disk, n, "skills", b, f) => Accounted(disk, n, "skills", next, f)
  BY <1>3, <1>4 DEF Accounted
<1> QED BY <1>1, <1>2, <1>6, <1>7, BranchStepKeeps DEF b

\* Where files are wanted there are documents.
LEMMA SomeDocument ==
  ASSUME NEW k \in Kinds, Files[k] # <<>>
  PROVE  DocumentsOf(k) # {}
<1> DEFINE S == DocumentsOf(k)
           s == Files[k]
<1>1. s \in Seq(S) /\ s # <<>>
  BY FilesAssumption
<1> HIDE DEF S, s
<1>2. Len(s) \in Nat \ {0} /\ s[1] \in S
  BY <1>1
<1> QED BY <1>2 DEF S

\* Where a branch stands when it has the files of `left` to read.
LEMMA WithKeeps ==
  ASSUME NEW k \in Kinds, NEW left \in SUBSET DocumentsOf(k),
         NEW docs \in [DocumentsOf(k) -> DOMAIN Grants \cup {"none"}],
         NEW d, NEW n, k = "skills" => Files[k] # <<>>,
         k = "memory" => left \subseteq Approved,
         k # "skills" => \A f \in left : Seen(d, Loaded, n, f) \ {"missing"} # {}
  PROVE  BranchInv(d, n, k, With(k, left, docs))
<1>1. With(k, left, docs) \in BranchOf(k)
  BY DEF With, BranchOf, Opening, Reading
<1> QED BY <1>1 DEF With, BranchInv, Opening, Reading, Stages

LEMMA AssertDirectoryKeeps ==
  ASSUME RuntimeInv, NEW k \in Kinds, AssertDirectory(k)
  PROVE  RuntimeInv'
<1> DEFINE b == branch[k]
<1>1. /\ load.pc = "documents" /\ b.pc = "directory" /\ b.left = {}
      /\ BranchInv(disk, load.from, k, b) /\ b \in BranchOf(k)
  BY DEF AssertDirectory, At, RuntimeInv, BranchInv, Reading
<1>2. k \in Paths /\ EntriesOf(k) = {"dir", "missing"}
  BY EntryTypes DEF Directories
<1>3. /\ Look(Loaded, k) = "missing" =>
           \A n \in 1 .. Len(disk) : \A f \in DocumentsOf(k) :
             "missing" \in Seen(disk, Loaded, n, f)
      /\ \A n \in 1 .. Len(disk) : Look(Loaded, k) \in Seen(disk, Loaded, n, k)
  <2>1. \A n \in 1 .. Len(disk) : n \in Nat /\ n <= Len(disk)
    BY InDocuments, <1>1 DEF IsDisk
  <2>2. Loaded \in Channels /\ Len(disk) \in 1 .. Len(disk) /\ IsDisk(disk)
    BY InDocuments, <1>1, ChannelsAssumption DEF IsDisk
  <2>3. Look(Loaded, k) = "missing" =>
          \A f \in DocumentsOf(k) : Look(Loaded, f) = "missing"
    BY <2>2, Looks DEF Look
  <2>4. \A f \in DocumentsOf(k) : f \in Paths
    BY EntryTypes
  <2> QED BY <1>1, <1>2, <2>1, <2>2, <2>3, <2>4, Looked
<1>4. k = "skills" => Files[k] # <<>>
  BY <1>1 DEF BranchInv
<1>5. ASSUME Look(Loaded, k) = "dir", k = "skills" PROVE RuntimeInv'
  <2> DEFINE next == With(k, DocumentsOf(k), b.docs)
  <2>1. BranchStep(k, "ok", next)
    BY <1>5 DEF AssertDirectory
  <2>2. b.docs \in [DocumentsOf(k) -> DOMAIN Grants \cup {"none"}]
    BY <1>1 DEF BranchOf
  <2>3. BranchInv(disk, load.from, k, next)
    BY <1>4, <1>5, <2>2, WithKeeps
  <2>4. \A n \in 1 .. Len(disk), f \in DocumentsOf(k) :
          Accounted(disk, n, k, b, f) => Accounted(disk, n, k, next, f)
    BY DEF Accounted, With
  <2> QED BY <1>1, <2>1, <2>3, <2>4, BranchStepKeeps
<1>6. ASSUME Look(Loaded, k) = "dir", k # "skills" PROVE RuntimeInv'
  <2> DEFINE next == [b EXCEPT !.pc = "listing"]
  <2>1. BranchStep(k, "ok", next)
    BY <1>6 DEF AssertDirectory
  <2>2. next \in BranchOf(k) /\ next.pc = "listing" /\ next.left = {} /\ next.docs = b.docs
    BY <1>1 DEF BranchOf, Opening
  <2>3. "dir" \in Seen(disk, Loaded, load.from, k)
    BY <1>1, <1>3, <1>6, InDocuments
  <2> HIDE DEF next
  <2>4. BranchInv(disk, load.from, k, next)
    BY <1>6, <2>2, <2>3 DEF BranchInv, Reading, Stages
  <2>5. \A n \in 1 .. Len(disk), f \in DocumentsOf(k) : Accounted(disk, n, k, b, f)
          => Accounted(disk, n, k, next, f)
    BY <2>2 DEF Accounted, Opening
  <2> QED BY <1>1, <2>1, <2>4, <2>5, BranchStepKeeps
<1>7. ASSUME Look(Loaded, k) = "missing" PROVE RuntimeInv'
  <2> DEFINE next == [b EXCEPT !.pc = "done"]
             found == IF k = "skills" THEN "SkillNotFound" ELSE "ok"
  <2>1. BranchStep(k, found, next)
    BY <1>7 DEF AssertDirectory
  <2>2. next \in BranchOf(k) /\ next.pc = "done" /\ next.left = {} /\ next.docs = b.docs
    BY <1>1 DEF BranchOf
  <2>3. found # "ok" => found \in Failures /\ Cause(disk, load.from, found)
    <3> SUFFICES ASSUME k = "skills"
                 PROVE  Cause(disk, load.from, "SkillNotFound") /\ "SkillNotFound" \in Failures
      OBVIOUS
    <3>1. DocumentsOf(k) # {}
      BY <1>4, SomeDocument
    <3> QED BY <1>1, <1>3, <1>7, <3>1, InDocuments DEF Cause, Failures
  <2>4. k # "skills" => BranchInv(disk, load.from, k, next)
    BY <2>2 DEF BranchInv, Reading, Stages
  <2>5. \A n \in 1 .. Len(disk), f \in DocumentsOf(k) : k # "skills" =>
          (Accounted(disk, n, k, b, f) => Accounted(disk, n, k, next, f))
    BY <1>3, <1>7, <2>2 DEF Accounted
  <2> QED BY <1>1, <2>1, <2>3, <2>4, <2>5, BranchStepKeeps
<1> QED BY <1>5, <1>6, <1>7 DEF AssertDirectory

LEMMA ListDirectoryKeeps ==
  ASSUME RuntimeInv, NEW k \in Kinds, ListDirectory(k)
  PROVE  RuntimeInv'
<1> DEFINE b == branch[k]
           found == IF Look(Loaded, k) = "missing" THEN "Io" ELSE "ok"
           left == {f \in DocumentsOf(k) : Look(Loaded, f) # "missing" /\ Wanted(k, f)}
           next == With(k, left, b.docs)
<1>1. /\ load.pc = "documents" /\ b.pc = "listing" /\ BranchStep(k, found, next)
      /\ BranchInv(disk, load.from, k, b) /\ b \in BranchOf(k)
  BY DEF ListDirectory, At, RuntimeInv, BranchInv
<1>2. k # "skills" /\ "dir" \in Seen(disk, Loaded, load.from, k)
  BY <1>1 DEF BranchInv
<1>3. k \in Paths /\ \A f \in DocumentsOf(k) : f \in Paths
  BY EntryTypes DEF Directories
<1>4. \A n \in 1 .. Len(disk) : \A p \in Paths : Look(Loaded, p) \in Seen(disk, Loaded, n, p)
  BY <1>1, InDocuments, Looked DEF IsDisk
<1>5. found # "ok" => found \in Failures /\ Cause(disk, load.from, found)
  BY <1>1, <1>2, <1>3, <1>4, InDocuments DEF Failures, Cause
<1>6. BranchInv(disk, load.from, k, next)
  <2>1. b.docs \in [DocumentsOf(k) -> DOMAIN Grants \cup {"none"}]
    BY <1>1 DEF BranchOf
  <2>2. \A f \in left : Seen(disk, Loaded, load.from, f) \ {"missing"} # {}
    BY <1>1, <1>3, <1>4, InDocuments
  <2> QED BY <1>2, <2>1, <2>2, WithKeeps DEF Wanted
<1>7. \A n \in 1 .. Len(disk), f \in DocumentsOf(k) :
        Accounted(disk, n, k, b, f) => Accounted(disk, n, k, next, f)
  BY <1>2, <1>3, <1>4 DEF Accounted, With, Wanted
<1> QED BY <1>1, <1>5, <1>6, <1>7, BranchStepKeeps

\* What a branch knows of the file it reads.
LEMMA CurrentFacts ==
  ASSUME RuntimeInv, NEW k \in Kinds, load.pc = "documents", branch[k].pc \in Reading
  PROVE  LET b == branch[k]
             f == Current(k)
         IN /\ f \in b.left /\ f \in DocumentsOf(k) /\ f \in Documents /\ f \in Paths
            /\ f = First(k, b.left)
            /\ b \in BranchOf(k) /\ BranchInv(disk, load.from, k, b)
            /\ k = "memory" => f \in Approved
            /\ b.pc = "check" => Seen(disk, Loaded, load.from, f) \ {"missing"} # {}
            /\ b.pc = "open" => Sound(disk, Loaded, load.from, f)
<1> DEFINE b == branch[k]
<1>1. BranchInv(disk, load.from, k, b) /\ b \in BranchOf(k)
  BY DEF RuntimeInv, BranchInv
<1>2. b.left # {} /\ b.left \in SUBSET DocumentsOf(k)
  BY <1>1 DEF BranchInv, BranchOf
<1>3. Current(k) = First(k, b.left) /\ First(k, b.left) \in b.left
  BY <1>2, FirstIsLeft DEF Current
<1> QED BY <1>1, <1>2, <1>3, EntryTypes DEF BranchInv, Sound

LEMMA LookUpSkillKeeps == RuntimeInv /\ LookUpSkill => RuntimeInv'
<1> SUFFICES ASSUME RuntimeInv, LookUpSkill PROVE RuntimeInv'
  OBVIOUS
<1> DEFINE b == branch["skills"]
           f == Current("skills")
           found == IF Look(Loaded, f) \in {"missing", "odd"} THEN "SkillNotFound" ELSE "ok"
           next == [b EXCEPT !.pc = "check"]
<1>1. /\ load.pc = "documents" /\ b.pc = "lookup" /\ "skills" \in Kinds
      /\ BranchStep("skills", found, next)
  BY DEF LookUpSkill, At, Kinds
<1>2. /\ f \in DocumentsOf("skills") /\ f \in Paths /\ f = First("skills", b.left)
      /\ b \in BranchOf("skills") /\ BranchInv(disk, load.from, "skills", b)
  BY <1>1, CurrentFacts DEF Reading
<1>3. Look(Loaded, f) \in Seen(disk, Loaded, load.from, f)
  BY <1>1, <1>2, InDocuments, Looked
<1>4. found # "ok" => found \in Failures /\ Cause(disk, load.from, found)
  BY <1>2, <1>3 DEF Failures, Cause
<1>5. next \in BranchOf("skills") /\ next.pc = "check" /\ next.left = b.left /\ next.docs = b.docs
  BY <1>2 DEF BranchOf, Reading
<1> HIDE DEF next
<1>6. found = "ok" => BranchInv(disk, load.from, "skills", next)
  BY <1>1, <1>2, <1>3, <1>5 DEF BranchInv, Reading, Sound
<1>7. \A n \in 1 .. Len(disk), g \in DocumentsOf("skills") :
        Accounted(disk, n, "skills", b, g) => Accounted(disk, n, "skills", next, g)
  BY <1>1, <1>5 DEF Accounted, Opening, Stages
<1> QED BY <1>1, <1>4, <1>6, <1>7, BranchStepKeeps

LEMMA CheckDocumentKeeps ==
  ASSUME RuntimeInv, NEW k \in Kinds, CheckDocument(k)
  PROVE  RuntimeInv'
<1> DEFINE b == branch[k]
           f == Current(k)
           found == CheckFile(f)
           next == [b EXCEPT !.pc = "open"]
<1>1. load.pc = "documents" /\ b.pc = "check" /\ BranchStep(k, found, next)
  BY DEF CheckDocument, At
<1>2. /\ f \in Documents /\ f = First(k, b.left)
      /\ b \in BranchOf(k) /\ BranchInv(disk, load.from, k, b)
      /\ Seen(disk, Loaded, load.from, f) \ {"missing"} # {}
  BY <1>1, CurrentFacts DEF Reading
<1>3. /\ found # "ok" => found \in Failures /\ Cause(disk, load.from, found)
      /\ found = "ok" => Sound(disk, Loaded, load.from, f)
  BY <1>1, <1>2, InDocuments, Checked
<1>4. next \in BranchOf(k) /\ next.pc = "open" /\ next.left = b.left /\ next.docs = b.docs
  BY <1>2 DEF BranchOf, Reading
<1> HIDE DEF next, found
<1>5. found = "ok" => BranchInv(disk, load.from, k, next)
  BY <1>1, <1>2, <1>3, <1>4 DEF BranchInv, Reading, Stages
<1>6. \A n \in 1 .. Len(disk), g \in DocumentsOf(k) :
        Accounted(disk, n, k, b, g) => Accounted(disk, n, k, next, g)
  BY <1>1, <1>4 DEF Accounted, Opening, Stages
<1> QED BY <1>1, <1>3, <1>5, <1>6, BranchStepKeeps

LEMMA ReadDocumentKeeps ==
  ASSUME RuntimeInv, NEW k \in Kinds, ReadDocument(k)
  PROVE  RuntimeInv'
<1> DEFINE b == branch[k]
           f == Current(k)
           found == OpenFile(f)
           body == Look(Loaded, f)
           left == b.left \ {f}
           docs == [b.docs EXCEPT ![f] = body]
           next == With(k, left, docs)
<1>1. load.pc = "documents" /\ b.pc = "open" /\ BranchStep(k, found, next)
  BY DEF ReadDocument, At
<1>2. /\ f \in Documents /\ f \in DocumentsOf(k) /\ f \in Paths /\ f \in b.left
      /\ b \in BranchOf(k) /\ BranchInv(disk, load.from, k, b)
      /\ k = "memory" => f \in Approved
      /\ Sound(disk, Loaded, load.from, f)
  BY <1>1, CurrentFacts DEF Reading
<1>3. /\ found # "ok" => found = "Io" /\ Cause(disk, load.from, "Io")
      /\ found = "ok" => body \notin {"missing", "odd"}
  BY <1>1, <1>2, InDocuments, Opened
<1>4. /\ \A n \in 1 .. Len(disk) : body \in Seen(disk, Loaded, n, f)
      /\ body \in EntriesOf(f)
  BY <1>1, <1>2, InDocuments, Looked DEF IsDisk
<1>5. /\ b.left \in SUBSET DocumentsOf(k)
      /\ k = "memory" => b.left \subseteq Approved
      /\ b.docs \in [DocumentsOf(k) -> DOMAIN Grants \cup {"none"}]
      /\ k # "skills" =>
           \A g \in b.left : Seen(disk, Loaded, load.from, g) \ {"missing"} # {}
      /\ k = "skills" => Files[k] # <<>>
  BY <1>1, <1>2 DEF BranchInv, BranchOf
<1>6. ASSUME found = "ok"
      PROVE  /\ BranchInv(disk, load.from, k, next)
             /\ \A n \in 1 .. Len(disk), g \in DocumentsOf(k) :
                  Accounted(disk, n, k, b, g) => Accounted(disk, n, k, next, g)
  <2>1. body \in DOMAIN Grants /\ body # "none"
    BY <1>2, <1>3, <1>4, <1>6, EntryTypes, NamesAssumption
  <2> HIDE DEF body, f
  <2>2. /\ docs \in [DocumentsOf(k) -> DOMAIN Grants \cup {"none"}]
        /\ \A g \in DocumentsOf(k) : docs[g] = IF g = f THEN body ELSE b.docs[g]
    BY <1>2, <1>5, <2>1
  <2>3. next.docs = docs /\ next.left = left
    BY DEF With
  <2>4. BranchInv(disk, load.from, k, next)
    <3>1. left \in SUBSET DocumentsOf(k) /\ left \subseteq b.left
      BY <1>5
    <3> HIDE DEF left, docs
    <3> QED BY <1>5, <2>2, <3>1, WithKeeps
  <2> HIDE DEF next, docs
  <2>5. ASSUME NEW n \in 1 .. Len(disk), NEW g \in DocumentsOf(k), Accounted(disk, n, k, b, g)
        PROVE  Accounted(disk, n, k, next, g)
    <3>1. CASE g = f
      <4>1. next.docs[g] = body
        BY <2>2, <2>3, <3>1
      <4> QED BY <1>2, <1>4, <2>1, <3>1, <4>1 DEF Accounted
    <3>2. CASE g # f
      <4>1. next.docs[g] = b.docs[g] /\ (g \in b.left => g \in next.left)
        BY <2>2, <2>3, <3>2
      <4> QED BY <1>1, <2>5, <4>1 DEF Accounted, Opening, Stages
    <3> QED BY <3>1, <3>2
  <2> QED BY <2>4, <2>5
<1>7. found # "ok" => found \in Failures /\ Cause(disk, load.from, found)
  BY <1>3 DEF Failures
<1> QED BY <1>1, <1>6, <1>7, BranchStepKeeps

-----------------------------------------------------------------------------
(* The load *)

\* The branches have not begun before the config is read.
LEMMA Starts ==
  ASSUME NEW d, NEW n, NEW k \in Kinds
  PROVE  /\ BranchInv(d, n, k, Fresh(k))
         /\ n \in 1 .. Len(d) => \A f \in DocumentsOf(k) : Accounted(d, n, k, Fresh(k), f)
<1> DEFINE pc == CASE k # "skills" -> "directory"
                   [] k = "skills" /\ Files[k] = <<>> -> "done"
                   [] OTHER -> "workspace"
           docs == [f \in DocumentsOf(k) |-> "none"]
<1>1. /\ k # "skills" => pc = "directory"
      /\ k = "skills" => pc = IF Files[k] = <<>> THEN "done" ELSE "workspace"
  <2>1. CASE k # "skills"
    BY <2>1
  <2>2. CASE k = "skills" /\ Files[k] = <<>>
    BY <2>2
  <2>3. CASE k = "skills" /\ Files[k] # <<>>
    BY <2>3
  <2> QED BY <2>1, <2>2, <2>3
<1>2. /\ docs \in [DocumentsOf(k) -> DOMAIN Grants \cup {"none"}]
      /\ \A f \in DocumentsOf(k) : docs[f] = "none"
  OBVIOUS
<1>3. Fresh(k) = [pc |-> pc, left |-> {}, docs |-> docs]
  BY DEF Fresh
<1> HIDE DEF pc, docs
<1>4. /\ Fresh(k) \in BranchOf(k) /\ Fresh(k).left = {}
      /\ \A f \in DocumentsOf(k) : Fresh(k).docs[f] = "none"
      /\ k # "skills" => Fresh(k).pc = "directory"
      /\ k = "skills" => Fresh(k).pc = IF Files[k] = <<>> THEN "done" ELSE "workspace"
  BY <1>1, <1>2, <1>3 DEF BranchOf, Opening, Stages
<1>5. Files[k] = <<>> => DocumentsOf(k) = {}
  BY DEF DocumentsOf
<1> DEFINE b == Fresh(k)
<1> HIDE DEF b
<1>6. BranchInv(d, n, k, b)
  BY <1>4 DEF b, BranchInv, Reading, Stages
<1>7. ASSUME NEW f \in DocumentsOf(k) PROVE Accounted(d, n, k, b, f)
  BY <1>4, <1>5 DEF b, Accounted, Opening, Stages
<1> QED BY <1>6, <1>7 DEF b

LEMMA BeginLoadKeeps == RuntimeInv /\ BeginLoad => RuntimeInv'
<1> SUFFICES ASSUME RuntimeInv, BeginLoad PROVE RuntimeInv'
  OBVIOUS
<1>1. /\ load \in LoadRecord /\ load.pc = "idle" /\ load.failure = "none"
      /\ \A k \in Kinds : branch[k] = Fresh(k)
      /\ Len(disk) \in Nat /\ Len(disk) >= 1 /\ UNCHANGED <<disk, branch, list>>
  BY DEF RuntimeInv, LoadInv, BeginLoad, Free, IsDisk, LoadRecord
<1>2. /\ load' \in LoadRecord /\ load'.pc = "workspace" /\ load'.from = Len(disk)
      /\ load'.failure = "none"
  BY <1>1 DEF BeginLoad, LoadRecord, Stages
<1>3. LoadInv(disk, load', branch) /\ Answer(load', branch)
  BY <1>1, <1>2 DEF LoadInv, Answer
<1>4. \A k \in Kinds : BranchInv(disk, load'.from, k, branch[k])
  BY <1>1, Starts
<1> QED BY <1>1, <1>3, <1>4 DEF RuntimeInv

\* A step of the load before its branches.
LEMMA LoadStepKeeps ==
  ASSUME RuntimeInv, load.pc \in Stages \cup {"check", "read"}, NEW found, NEW next,
         LoadStep(found, next),
         found # "ok" => found \in Failures /\ Cause(disk, load.from, found),
         found = "ok" => LoadInv(disk, next, branch) /\ next.from = load.from
                         /\ next.pc # "loaded"
  PROVE  RuntimeInv'
<1>1. CASE found # "ok"
  BY <1>1, FailKeeps DEF LoadStep, Stages
<1>2. CASE found = "ok"
  BY <1>2 DEF LoadStep, RuntimeInv, Answer
<1> QED BY <1>1, <1>2

\* Before its config is read a load has touched no branch.
LEMMA InLoad ==
  ASSUME RuntimeInv, load.pc \in Stages \cup {"check", "read"}
  PROVE  /\ IsDisk(disk) /\ load.from \in 1 .. Len(disk) /\ load.from \in Nat
         /\ load.from <= Len(disk) /\ load.from >= 1 /\ load \in LoadRecord
         /\ load.failure = "none" /\ \A k \in Kinds : branch[k] = Fresh(k)
         /\ load.pc \in {"canonical", "check", "read"} =>
              Sound(disk, Loaded, load.from, "config")
BY DEF RuntimeInv, LoadInv, LoadRecord, IsDisk, Stages

LEMMA ResolveWorkspaceKeeps == RuntimeInv /\ ResolveWorkspace => RuntimeInv'
<1> SUFFICES ASSUME RuntimeInv, ResolveWorkspace PROVE RuntimeInv'
  OBVIOUS
<1> DEFINE found == Probe(Loaded, load.pc)
           next == [load EXCEPT !.pc = IF @ = "canonical" THEN "check" ELSE NextStage[@]]
<1>1. load.pc \in Stages /\ LoadStep(found, next)
  BY DEF ResolveWorkspace
<1>2. found # "ok" => found \in Failures /\ Cause(disk, load.from, found)
  <2>1. "config" \in Paths
    BY EntryTypes
  <2> QED BY <1>1, <2>1, InLoad, Probed, ChannelsAssumption DEF Failures, Cause, Sound
<1>3. /\ next \in LoadRecord /\ next.from = load.from /\ next.failure = load.failure
      /\ next.pc \in {"harness", "canonical", "check"}
      /\ next.pc = "canonical" => load.pc = "harness"
      /\ next.pc = "check" => load.pc = "canonical"
  BY <1>1, InLoad DEF LoadRecord, Stages, NextStage
<1>4. load.pc = "harness" /\ found = "ok" => Sound(disk, Loaded, load.from, "config")
  BY <1>1, InLoad, Probed, ChannelsAssumption
<1> HIDE DEF next, found
<1>5. found = "ok" => LoadInv(disk, next, branch)
  BY <1>1, <1>3, <1>4, InLoad DEF LoadInv
<1> QED BY <1>1, <1>2, <1>3, <1>5, LoadStepKeeps

LEMMA CheckConfigKeeps == RuntimeInv /\ CheckConfig => RuntimeInv'
<1> SUFFICES ASSUME RuntimeInv, CheckConfig PROVE RuntimeInv'
  OBVIOUS
<1> DEFINE found == CheckFile("config")
           next == [load EXCEPT !.pc = "read"]
<1>1. load.pc = "check" /\ LoadStep(found, next)
  BY DEF CheckConfig
<1>2. found # "ok" => found \in Failures /\ Cause(disk, load.from, found)
  BY <1>1, InLoad, Checked DEF Sound
<1>3. /\ next \in LoadRecord /\ next.from = load.from /\ next.failure = load.failure
      /\ next.pc = "read"
  BY <1>1, InLoad DEF LoadRecord
<1> HIDE DEF next, found
<1>4. found = "ok" => LoadInv(disk, next, branch)
  BY <1>1, <1>3, InLoad DEF LoadInv
<1> QED BY <1>1, <1>2, <1>3, <1>4, LoadStepKeeps

LEMMA ReadConfigKeeps == RuntimeInv /\ ReadConfig => RuntimeInv'
<1> SUFFICES ASSUME RuntimeInv, ReadConfig PROVE RuntimeInv'
  OBVIOUS
<1> DEFINE body == Look(Loaded, "config")
           found == IF OpenFile("config") = "ok" THEN Judge(body) ELSE "Io"
           next == [load EXCEPT !.pc = "documents", !.config = body]
<1>1. load.pc = "read" /\ LoadStep(found, next)
  BY DEF ReadConfig
<1>2. /\ OpenFile("config") # "ok" => Cause(disk, load.from, "Io")
      /\ OpenFile("config") = "ok" => body \notin {"missing", "odd"}
  BY <1>1, InLoad, Opened
<1>3. body \in Seen(disk, Loaded, load.from, "config") /\ body \in EntriesOf("config")
  BY <1>1, InLoad, Looked, EntryTypes
<1>4. OpenFile("config") = "ok" => body \in DOMAIN Configs
  BY <1>2, <1>3, EntryTypes
<1>5. found # "ok" => found \in Failures /\ Cause(disk, load.from, found)
  <2>1. CASE OpenFile("config") # "ok"
    BY <1>2, <2>1 DEF Failures
  <2>2. CASE OpenFile("config") = "ok" /\ Configs[body].verdict = "invalid"
    BY <1>3, <1>4, <2>2 DEF Failures, Judge, Cause
  <2>3. CASE OpenFile("config") = "ok" /\ Configs[body].verdict = "foreign"
    BY <1>3, <1>4, <2>3 DEF Failures, Judge, Cause
  <2> QED BY <2>1, <2>2, <2>3 DEF Judge
<1>6. found = "ok" => OpenFile("config") = "ok"
  OBVIOUS
<1>7. ASSUME found = "ok" PROVE LoadInv(disk, next, branch)
  <2>1. /\ next \in LoadRecord /\ next.from = load.from /\ next.failure = load.failure
        /\ next.pc = "documents" /\ next.config = body
    BY <1>1, <1>4, <1>6, <1>7, InLoad DEF LoadRecord
  <2>2. Len(disk) \in load.from .. Len(disk) /\ Len(disk) \in 1 .. Len(disk)
    BY <1>1, InLoad DEF IsDisk
  <2>3. Gathered(disk, Len(disk), body, branch)
    BY <1>1, <2>2, InLoad, Starts DEF Gathered, Look
  <2> HIDE DEF next
  <2> QED BY <1>1, <1>4, <1>6, <1>7, <2>1, <2>2, <2>3, InLoad DEF LoadInv
<1>8. next.from = load.from /\ next.pc # "loaded"
  BY <1>1, InLoad DEF LoadRecord
<1> QED BY <1>1, <1>5, <1>7, <1>8, LoadStepKeeps DEF Stages

LEMMA AssembleContextKeeps == RuntimeInv /\ AssembleContext => RuntimeInv'
<1> SUFFICES ASSUME RuntimeInv, AssembleContext PROVE RuntimeInv'
  OBVIOUS
<1> DEFINE tools == EffectiveTools(Configs[load.config].tools)
<1>1. /\ load \in LoadRecord /\ load.pc = "documents" /\ load.failure = "none"
      /\ \A k \in Kinds : branch[k].pc = "done"
      /\ load' = [load EXCEPT !.pc = "loaded", !.tools = tools]
      /\ UNCHANGED <<disk, branch, list>>
  BY DEF AssembleContext, RuntimeInv, LoadInv, LoadRecord
<1>2. branch["skills"] \in BranchOf("skills")
  BY DEF RuntimeInv, BranchInv, Kinds
<1>3. SkillBodies \subseteq DOMAIN Grants
  BY <1>2 DEF SkillBodies, BranchOf
<1>4. tools \in SUBSET Tools
  BY <1>3 DEF EffectiveTools, SkillTools, Tools
<1>5. tools = Configs[load.config].tools \cap
         UNION {Grants[t] : t \in {branch["skills"].docs[f] : f \in DocumentsOf("skills")}
                                    \ {"none"}}
  BY DEF EffectiveTools, SkillTools, SkillBodies
<1> HIDE DEF tools
<1>6. /\ load' \in LoadRecord /\ load'.pc = "loaded" /\ load'.tools = tools
      /\ load'.from = load.from /\ load'.config = load.config
      /\ load'.failure = "none"
  BY <1>1, <1>4 DEF LoadRecord
<1>7. LoadInv(disk, load', branch)
  BY <1>1, <1>6 DEF RuntimeInv, LoadInv
<1>8. Answer(load', branch)
  BY <1>1, <1>5, <1>6 DEF Answer
<1> QED BY <1>1, <1>6, <1>7, <1>8 DEF RuntimeInv

-----------------------------------------------------------------------------
(* The listing *)

\* What a listing under way knows.
LEMMA InList ==
  ASSUME RuntimeInv
  PROVE  /\ IsDisk(disk) /\ list \in ListRecord /\ ListInv(disk, list)
         /\ Len(disk) \in Nat /\ Len(disk) >= 1
         /\ list.from \in Nat /\ list.from <= Len(disk)
BY DEF RuntimeInv, ListInv, ListRecord, IsDisk

\* A step of the listing leaves the load alone.
LEMMA ListKeeps ==
  ASSUME RuntimeInv, UNCHANGED <<disk, load, branch>>, ListInv(disk, list')
  PROVE  RuntimeInv'
BY DEF RuntimeInv

\* A listing that fails with a cause is in order.
LEMMA ListFailsKeeps ==
  ASSUME RuntimeInv, list.pc # "idle", NEW failure \in Failures,
         ListFails(failure), UNCHANGED <<disk, load, branch>>,
         failure = "Unsafe" =>
           Strays # {} \/ \E ch \in Channels : "odd" \in Seen(disk, ch, list.from, "config"),
         failure = "Io" =>
           \E ch \in Channels : /\ "missing" \in Seen(disk, ch, list.from, "config")
                                /\ \E x \in Seen(disk, ch, list.from, "config") : x # "missing"
  PROVE  RuntimeInv'
<1>1. /\ list' \in ListRecord /\ list'.pc = "failed" /\ list'.failure = failure
      /\ list'.from = list.from /\ list'.found = list.found
      /\ failure # "none"
  BY InList DEF ListFails, ListRecord, Failures
<1>2. ListInv(disk, list')
  BY <1>1, InList DEF ListInv, Stages
<1> QED BY <1>2, ListKeeps

LEMMA BeginListKeeps == RuntimeInv /\ BeginList => RuntimeInv'
<1> SUFFICES ASSUME RuntimeInv, BeginList PROVE RuntimeInv'
  OBVIOUS
<1>1. /\ list.pc = "idle" /\ list' = [list EXCEPT !.pc = "readdir", !.from = Len(disk)]
      /\ UNCHANGED <<disk, load, branch>>
  BY DEF BeginList, Free
<1>2. /\ list' \in ListRecord /\ list'.pc = "readdir" /\ list'.from = Len(disk)
      /\ list'.found = list.found /\ list'.failure = list.failure
  BY <1>1, InList DEF ListRecord
<1>3. ListInv(disk, list')
  BY <1>1, <1>2, InList DEF ListInv, Stages
<1> QED BY <1>1, <1>3, ListKeeps

\* A listing looks at a channel's workspace, and above its config.
LEMMA LookedAt ==
  ASSUME IsDisk(disk), NEW ch \in Channels, NEW n \in Nat, n <= Len(disk),
         Look(ch, "workspace") = "missing"
  PROVE  "missing" \in Seen(disk, ch, n, "config")
<1>1. Len(disk) \in 1 .. Len(disk)
  BY DEF IsDisk
<1>2. See(disk[Len(disk)][ch], "config") = "missing"
  BY <1>1, Looks DEF Look
<1> QED BY <1>2, LookSeen

LEMMA ReadRootKeeps == RuntimeInv /\ ReadRoot => RuntimeInv'
<1> SUFFICES ASSUME RuntimeInv, ReadRoot PROVE RuntimeInv'
  OBVIOUS
<1> DEFINE left == {ch \in Channels : Look(ch, "workspace") # "missing"}
<1>1. /\ list.pc = "readdir" /\ list' = [list EXCEPT !.pc = "next", !.left = left]
      /\ UNCHANGED <<disk, load, branch>>
  BY DEF ReadRoot
<1>2. left \in SUBSET Channels
  OBVIOUS
<1>3. \A ch \in Channels \ left : "missing" \in Seen(disk, ch, list.from, "config")
  BY InList, LookedAt
<1> HIDE DEF left
<1>4. /\ list' \in ListRecord /\ list'.pc = "next" /\ list'.from = list.from
      /\ list'.left = left /\ list'.found = list.found /\ list'.failure = list.failure
  BY <1>1, <1>2, InList DEF ListRecord
<1>5. ListInv(disk, list')
  BY <1>1, <1>3, <1>4, InList DEF ListInv, Stages
<1> QED BY <1>1, <1>5, ListKeeps

LEMMA NextEntryKeeps == RuntimeInv /\ NextEntry => RuntimeInv'
<1> SUFFICES ASSUME RuntimeInv, NextEntry PROVE RuntimeInv'
  OBVIOUS
<1>1. list.pc = "next" /\ UNCHANGED <<disk, load, branch>>
  BY DEF NextEntry
<1>2. ASSUME list.left = {}, list' = [list EXCEPT !.pc = "listed"]
      PROVE  RuntimeInv'
  <2>1. /\ list' \in ListRecord /\ list'.pc = "listed" /\ list'.from = list.from
        /\ list'.left = {} /\ list'.found = list.found /\ list'.failure = list.failure
    BY <1>2, InList DEF ListRecord
  <2>2. ListInv(disk, list')
    BY <1>1, <1>2, <2>1, InList DEF ListInv, Stages
  <2> QED BY <1>1, <2>2, ListKeeps
<1>3. ASSUME NEW ch \in list.left, ch \in Strays, ListFails("Unsafe")
      PROVE  RuntimeInv'
  <2>1. "Unsafe" \in Failures /\ "Unsafe" # "Io"
    BY DEF Failures
  <2> QED BY <1>1, <1>3, <2>1, ListFailsKeeps
<1>4. ASSUME NEW ch \in list.left,
             list' = [list EXCEPT !.pc = "workspace", !.current = ch, !.left = @ \ {ch}]
      PROVE  RuntimeInv'
  <2>1. /\ list' \in ListRecord /\ list'.pc = "workspace" /\ list'.from = list.from
        /\ list'.current = ch /\ list'.left = list.left \ {ch} /\ ch \in Channels
        /\ list'.found = list.found /\ list'.failure = list.failure
    BY <1>4, InList DEF ListRecord, Stages
  <2>2. ListInv(disk, list')
    BY <1>1, <2>1, InList DEF ListInv, Stages
  <2> QED BY <1>1, <2>2, ListKeeps
<1> QED BY <1>2, <1>3, <1>4 DEF NextEntry

LEMMA ProbeEntryKeeps == RuntimeInv /\ ProbeEntry => RuntimeInv'
<1> SUFFICES ASSUME RuntimeInv, ProbeEntry PROVE RuntimeInv'
  OBVIOUS
<1> DEFINE found == Probe(list.current, list.pc)
           config == Seen(disk, list.current, list.from, "config")
<1>1. /\ list.pc \in Stages /\ list.current \in Channels /\ list.failure = "none"
      /\ list.pc = "canonical" => Sound(disk, list.current, list.from, "config")
      /\ UNCHANGED <<disk, load, branch>>
  BY InList DEF ProbeEntry, ListInv, Stages
<1>2. /\ found \in {"ok", "ChannelNotFound", "ConfigNotFound", "Unsafe", "Io"}
      /\ found \in {"ChannelNotFound", "ConfigNotFound", "Io"} => "missing" \in config
      /\ found = "Io" => list.pc = "canonical"
      /\ found = "Unsafe" => "odd" \in config
      /\ found = "ok" /\ list.pc = "harness" =>
           Sound(disk, list.current, list.from, "config")
  BY <1>1, InList, Probed
<1>3. \/ /\ found = "ok" /\ list.pc = "canonical"
         /\ list' = [list EXCEPT !.pc = "next", !.found = @ \cup {list.current}]
      \/ /\ found = "ok" /\ list.pc # "canonical"
         /\ list' = [list EXCEPT !.pc = NextStage[@]]
      \/ /\ found \in {"ChannelNotFound", "ConfigNotFound"}
         /\ list' = [list EXCEPT !.pc = "next"]
      \/ found \in {"Unsafe", "Io"} /\ ListFails(found)
  <2> HIDE DEF found
  <2>1. CASE found = "ok" /\ list.pc = "canonical"
    BY <2>1 DEF ProbeEntry, Skipped, found
  <2>2. CASE found = "ok" /\ list.pc # "canonical"
    BY <2>2 DEF ProbeEntry, Skipped, found
  <2>3. CASE found \in {"ChannelNotFound", "ConfigNotFound"}
    BY <2>3 DEF ProbeEntry, Skipped, found
  <2>4. CASE found \in {"Unsafe", "Io"}
    BY <2>4 DEF ProbeEntry, Skipped, found
  <2> QED BY <1>2, <2>1, <2>2, <2>3, <2>4
<1> HIDE DEF found
<1>4. ASSUME found = "ok", list.pc = "canonical",
             list' = [list EXCEPT !.pc = "next", !.found = @ \cup {list.current}]
      PROVE  ListInv(disk, list')
  <2>1. /\ list' \in ListRecord /\ list'.pc = "next" /\ list'.from = list.from
        /\ list'.left = list.left /\ list'.found = list.found \cup {list.current}
        /\ list'.failure = list.failure
    BY <1>1, <1>4, InList DEF ListRecord
  <2> QED BY <1>1, <1>4, <2>1, InList DEF ListInv, Stages
<1>5. ASSUME found = "ok", list.pc # "canonical", list' = [list EXCEPT !.pc = NextStage[@]]
      PROVE  ListInv(disk, list')
  <2>1. /\ list' \in ListRecord /\ list'.pc \in {"harness", "canonical"}
        /\ list'.pc = "canonical" => list.pc = "harness"
        /\ list'.from = list.from /\ list'.current = list.current
        /\ list'.left = list.left /\ list'.found = list.found
        /\ list'.failure = list.failure
    BY <1>1, <1>5, InList DEF ListRecord, Stages, NextStage
  <2> QED BY <1>1, <1>2, <1>5, <2>1, InList DEF ListInv, Stages
<1>6. ASSUME found \in {"ChannelNotFound", "ConfigNotFound"},
             list' = [list EXCEPT !.pc = "next"]
      PROVE  ListInv(disk, list')
  <2>1. /\ list' \in ListRecord /\ list'.pc = "next" /\ list'.from = list.from
        /\ list'.left = list.left /\ list'.found = list.found
        /\ list'.failure = list.failure
    BY <1>6, InList DEF ListRecord
  <2> QED BY <1>1, <1>2, <1>6, <2>1, InList DEF ListInv, Stages
<1>7. ASSUME found \in {"Unsafe", "Io"}, ListFails(found) PROVE RuntimeInv'
  <2>1. found \in Failures
    BY <1>7 DEF Failures
  <2>2. found = "Unsafe" =>
          \E ch \in Channels : "odd" \in Seen(disk, ch, list.from, "config")
    BY <1>1, <1>2
  <2>3. found = "Io" =>
          \E ch \in Channels : /\ "missing" \in Seen(disk, ch, list.from, "config")
                               /\ \E x \in Seen(disk, ch, list.from, "config") : x # "missing"
    BY <1>1, <1>2 DEF Sound
  <2> QED BY <1>1, <1>7, <2>1, <2>2, <2>3, ListFailsKeeps DEF Stages
<1> QED BY <1>1, <1>3, <1>4, <1>5, <1>6, <1>7, ListKeeps

-----------------------------------------------------------------------------
(* The invariant *)

\* At first nothing is under way.
LEMMA Started == Init => RuntimeInv
<1> SUFFICES ASSUME Init PROVE RuntimeInv
  OBVIOUS
<1>1. PICK body \in DOMAIN Configs, document \in DOMAIN Grants :
        LET tree == Whole(body, document) IN
        disk = <<[ch \in Channels |-> IF ch \in Strays THEN Absent(tree) ELSE tree]>>
  BY DEF Init
<1> DEFINE tree == Whole(body, document)
           trees == [ch \in Channels |-> IF ch \in Strays THEN Absent(tree) ELSE tree]
<1>2. /\ tree \in [Paths -> Entries] /\ \A p \in Paths : tree[p] \in EntriesOf(p)
  <2>1. \A p \in Paths : EntriesOf(p) \subseteq Entries
    BY DEF Entries
  <2>2. \A p \in Documents : \E k \in Kinds : p \in DocumentsOf(k)
    BY DEF Documents
  <2>3. tree = [p \in Paths |-> tree[p]] /\ \A p \in Paths : tree[p] \in EntriesOf(p)
    BY EntryTypes, <2>2 DEF Whole, Paths
  <2> HIDE DEF tree
  <2> QED BY <2>1, <2>3
<1>3. /\ Absent(tree) \in [Paths -> Entries]
      /\ \A p \in Paths : Absent(tree)[p] \in EntriesOf(p)
  <2>1. "workspace" \in Paths /\ "missing" \in EntriesOf("workspace")
    BY EntryTypes DEF Directories
  <2>2. "missing" \in Entries
    BY <2>1 DEF Entries
  <2> HIDE DEF tree
  <2> QED BY <1>2, <2>1, <2>2 DEF Absent
<1>4. trees \in [Channels -> [Paths -> Entries]]
      /\ \A ch \in Channels, p \in Paths : trees[ch][p] \in EntriesOf(p)
  BY <1>2, <1>3
<1>5. IsDisk(disk)
  <2> HIDE DEF trees
  <2>1. disk = <<trees>>
    BY <1>1 DEF trees
  <2> QED BY <1>4, <2>1, LoadBoundsAssumption DEF IsDisk
<1>6. branch = [k \in Kinds |-> Fresh(k)]
  BY DEF Init, Fresh
<1>7. DOMAIN branch = Kinds /\ \A k \in Kinds : branch[k] = Fresh(k)
  BY <1>6
<1>8. \A k \in Kinds : BranchInv(disk, load.from, k, branch[k])
  BY <1>7, Starts
<1>9. /\ load \in LoadRecord /\ load.pc = "idle" /\ load.from = 0 /\ load.failure = "none"
      /\ list \in ListRecord /\ list.pc = "idle" /\ list.from = 0
      /\ list.found = {} /\ list.failure = "none"
  BY DEF Init, LoadRecord, ListRecord
<1>10. LoadInv(disk, load, branch) /\ Answer(load, branch) /\ ListInv(disk, list)
  BY <1>5, <1>7, <1>9 DEF LoadInv, Answer, ListInv, IsDisk, Stages
<1> QED BY <1>5, <1>7, <1>8, <1>10 DEF RuntimeInv

\* Every step keeps the invariant.
LEMMA Preserved == RuntimeInv /\ [Next]_vars => RuntimeInv'
<1> SUFFICES ASSUME RuntimeInv, [Next]_vars PROVE RuntimeInv'
  OBVIOUS
<1>1. CASE BeginLoad \/ ResolveWorkspace \/ CheckConfig \/ ReadConfig \/ AssembleContext
  BY <1>1, BeginLoadKeeps, ResolveWorkspaceKeeps, CheckConfigKeeps, ReadConfigKeeps,
     AssembleContextKeeps
<1>2. CASE ResolveWorkspaceAgain \/ LookUpSkill
  BY <1>2, ResolveAgainKeeps, LookUpSkillKeeps
<1>3. ASSUME NEW k \in Kinds,
             AssertDirectory(k) \/ ListDirectory(k) \/ CheckDocument(k) \/ ReadDocument(k)
      PROVE  RuntimeInv'
  BY <1>3, AssertDirectoryKeeps, ListDirectoryKeeps, CheckDocumentKeeps, ReadDocumentKeeps
<1>4. CASE BeginList \/ ReadRoot \/ NextEntry \/ ProbeEntry
  BY <1>4, BeginListKeeps, ReadRootKeeps, NextEntryKeeps, ProbeEntryKeeps
<1>5. CASE Edit
  BY <1>5, EditKeeps
<1>6. CASE UNCHANGED vars
  BY <1>6 DEF vars, RuntimeInv
<1> QED BY <1>1, <1>2, <1>3, <1>4, <1>5, <1>6 DEF Next

\* What an operation under way knows of the disk stays true whoever edits it:
\* at every state of every behaviour, the files it is about to read were seen,
\* and the documents it has are accounted for from the moment its config was.
THEOREM RuntimeInvariant == Spec => []RuntimeInv
<1> QED BY Started, Preserved, PTL DEF Spec

-----------------------------------------------------------------------------
(* What follows from it *)

\* The moments of the properties are those of Seen.
LEMMA SeenAt ==
  ASSUME IsDisk(disk), NEW ch, NEW p, NEW n \in Nat, n >= 1
  PROVE  Seen(disk, ch, n, p) = {See(disk[m][ch], p) : m \in n .. Len(disk)}
<1>1. {m \in DOMAIN disk : n <= m} = n .. Len(disk)
  BY DEF IsDisk
<1> QED BY <1>1 DEF Seen

LEMMA TypesFollow == RuntimeInv => TypeOK
<1> SUFFICES ASSUME RuntimeInv PROVE TypeOK
  OBVIOUS
<1>1. /\ \A m \in 1 .. Len(disk) : \A ch \in Channels : \A p \in Paths :
           disk[m][ch][p] \in EntriesOf(p)
      /\ Len(disk) \in 1 .. MaxEdits + 1
  BY DEF RuntimeInv, IsDisk
<1>2. /\ load.pc \in Stages \cup {"idle", "check", "read", "documents", "loaded", "failed"}
      /\ load.from \in 0 .. Len(disk) /\ load.config \in DOMAIN Configs \cup {"none"}
      /\ load.failure \in IF load.pc = "failed" THEN Failures ELSE {"none"}
  BY <1>1 DEF RuntimeInv, LoadInv, LoadRecord
<1>3. ASSUME NEW k \in Kinds
      PROVE  /\ branch[k].pc \in Stages \cup {"directory", "listing", "lookup",
                                              "check", "open", "done"}
             /\ branch[k].left \subseteq DocumentsOf(k)
             /\ branch[k].pc \in {"lookup", "check", "open"} => branch[k].left # {}
             /\ \A f \in DocumentsOf(k) : branch[k].docs[f] \in DOMAIN Grants \cup {"none"}
  BY DEF RuntimeInv, BranchInv, BranchOf, Opening, Reading
<1>4. /\ list.pc \in Stages \cup {"idle", "readdir", "next", "listed", "failed"}
      /\ list.failure \in IF list.pc = "failed" THEN Failures ELSE {"none"}
      /\ list.left \cup list.found \subseteq Channels
  BY DEF RuntimeInv, ListInv, ListRecord
<1> QED BY <1>1, <1>2, <1>3, <1>4 DEF TypeOK

\* A finished load has a moment of its config from which all is accounted for.
LEMMA Moment ==
  ASSUME RuntimeInv, load.pc = "loaded"
  PROVE  \E n \in Moments(load) :
           /\ n \in Nat /\ n >= 1 /\ Saw(n, "config") = load.config
           /\ load.config \in DOMAIN Configs
           /\ \A k \in Kinds : \A f \in DocumentsOf(k) :
                LET d == Document(k, f) IN
                IF d = "none"
                  THEN k # "skills" /\ \/ k = "memory" /\ f \notin Approved
                                       \/ "missing" \in Seen(disk, Loaded, n, f)
                  ELSE (k = "memory" => f \in Approved) /\ d \in Seen(disk, Loaded, n, f)
<1>1. PICK n \in load.from .. Len(disk) : Gathered(disk, n, load.config, branch)
  BY DEF RuntimeInv, LoadInv
<1>2. n \in Nat /\ n >= 1 /\ load.config \in DOMAIN Configs
  BY DEF RuntimeInv, LoadInv, LoadRecord, IsDisk
<1>3. \A k \in Kinds : branch[k].pc = "done" /\ branch[k].left = {}
  BY DEF RuntimeInv, Answer, BranchInv, Reading
<1>4. \A k \in Kinds : \A f \in DocumentsOf(k) :
        LET d == Document(k, f) IN
        IF d = "none"
          THEN k # "skills" /\ \/ k = "memory" /\ f \notin Approved
                               \/ "missing" \in Seen(disk, Loaded, n, f)
          ELSE (k = "memory" => f \in Approved) /\ d \in Seen(disk, Loaded, n, f)
  BY <1>1, <1>3 DEF Gathered, Accounted, Document, Opening, Stages
<1> QED BY <1>1, <1>2, <1>4 DEF Gathered, Moments, Saw

LEMMA ContextFollows == RuntimeInv => ContextWasThere
<1> SUFFICES ASSUME RuntimeInv, load.pc = "loaded" PROVE ContextWasThere
  BY DEF ContextWasThere
<1>1. PICK n \in Moments(load) :
        /\ n \in Nat /\ n >= 1 /\ Saw(n, "config") = load.config
        /\ \A k \in Kinds : \A f \in DocumentsOf(k) :
             LET d == Document(k, f) IN
             IF d = "none"
               THEN k # "skills" /\ \/ k = "memory" /\ f \notin Approved
                                    \/ "missing" \in Seen(disk, Loaded, n, f)
               ELSE (k = "memory" => f \in Approved) /\ d \in Seen(disk, Loaded, n, f)
  BY Moment
<1>2. \A f, x : x \in Seen(disk, Loaded, n, f) => \E m \in n .. Len(disk) : Saw(m, f) = x
  BY <1>1, SeenAt DEF RuntimeInv, Saw
<1> QED BY <1>1, <1>2 DEF ContextWasThere

LEMMA ToolsFollow == RuntimeInv => EffectiveToolsWereGranted
<1> SUFFICES ASSUME RuntimeInv, load.pc = "loaded", NEW t \in load.tools
             PROVE  \E n \in Moments(load) :
               /\ Saw(n, "config") \in {b \in DOMAIN Configs : t \in Configs[b].tools}
               /\ \E m \in n .. Len(disk), f \in DocumentsOf("skills") :
                    Saw(m, f) \in {d \in DOMAIN Grants : t \in Grants[d]}
  BY DEF EffectiveToolsWereGranted
<1>1. PICK n \in Moments(load) :
        /\ n \in Nat /\ n >= 1 /\ Saw(n, "config") = load.config
        /\ load.config \in DOMAIN Configs
        /\ \A f \in DocumentsOf("skills") : Document("skills", f) # "none" =>
             Document("skills", f) \in Seen(disk, Loaded, n, f)
  <2>1. "skills" \in Kinds
    BY DEF Kinds
  <2> QED BY <2>1, Moment
<1>2. /\ t \in Configs[load.config].tools
      /\ \E f \in DocumentsOf("skills") :
           Document("skills", f) # "none" /\ t \in Grants[Document("skills", f)]
  BY DEF RuntimeInv, Answer, Document
<1>3. PICK f \in DocumentsOf("skills") :
        Document("skills", f) # "none" /\ t \in Grants[Document("skills", f)]
  BY <1>2
<1>4. PICK m \in n .. Len(disk) : Saw(m, f) = Document("skills", f)
  BY <1>1, <1>3, SeenAt DEF RuntimeInv, Saw
<1>5. Document("skills", f) \in DOMAIN Grants
  BY <1>3 DEF RuntimeInv, BranchInv, BranchOf, Document, Kinds
<1> QED BY <1>1, <1>2, <1>3, <1>4, <1>5

LEMMA CausesFollow == RuntimeInv => FailureHasCause
<1> SUFFICES ASSUME RuntimeInv, load.pc = "failed" PROVE FailureHasCause
  BY DEF FailureHasCause
<1>1. Cause(disk, load.from, load.failure) /\ load.failure \in Failures
  BY DEF RuntimeInv, LoadInv, LoadRecord
<1>2. \A p : Seen(disk, Loaded, load.from, p) = {Saw(m, p) : m \in Moments(load)}
  BY SeenAt DEF RuntimeInv, LoadInv, LoadRecord, Saw, Moments
<1>3. \A p : \A x \in Seen(disk, Loaded, load.from, p) :
        \E m \in Moments(load) : Saw(m, p) = x
  BY <1>2
<1> HIDE DEF Seen
<1>4. CASE load.failure \in {"ChannelNotFound", "ConfigNotFound"}
  BY <1>1, <1>3, <1>4 DEF Cause, FailureHasCause, Whenever
<1>5. CASE load.failure \in {"InvalidConfig", "ConfigMismatch"}
  BY <1>1, <1>3, <1>5 DEF Cause, FailureHasCause, Whenever
<1>6. CASE load.failure = "SkillNotFound"
  BY <1>1, <1>3, <1>6 DEF Cause, FailureHasCause, Whenever
<1>7. CASE load.failure = "Unsafe"
  BY <1>1, <1>3, <1>7 DEF Cause, FailureHasCause, Whenever
<1>8. CASE load.failure = "Io"
  <2>1. PICK p \in Paths : \E x, y \in Seen(disk, Loaded, load.from, p) :
                             x \in {"missing", "odd"} /\ y # x
    BY <1>1, <1>8 DEF Cause
  <2>2. \E m, n \in Moments(load) : Saw(m, p) \in {"missing", "odd"} /\ Saw(n, p) # Saw(m, p)
    BY <1>3, <2>1
  <2> QED BY <1>8, <2>2 DEF FailureHasCause
<1> QED BY <1>1, <1>4, <1>5, <1>6, <1>7, <1>8 DEF Failures

LEMMA ListingFollows == RuntimeInv => ListingIsHonest
<1> SUFFICES ASSUME RuntimeInv PROVE ListingIsHonest
  OBVIOUS
<1> DEFINE Config(m, ch) == See(disk[m][ch], "config")
<1>1. ASSUME list.pc # "idle", NEW ch, NEW x \in Seen(disk, ch, list.from, "config")
      PROVE  \E m \in Moments(list) : Config(m, ch) = x
  BY <1>1, SeenAt DEF RuntimeInv, ListInv, ListRecord, Moments
<1> HIDE DEF Config
<1>2. ASSUME list.pc = "listed", NEW ch \in Channels \ Strays
      PROVE  /\ ch \in list.found =>
                  \E m \in Moments(list) : Config(m, ch) \notin {"missing", "odd"}
             /\ ch \notin list.found =>
                  \E m \in Moments(list) : Config(m, ch) = "missing"
  BY <1>1, <1>2 DEF RuntimeInv, ListInv, Sound, Stages
<1>3. list.failure \in {"Unsafe", "Io"} => list.pc # "idle"
  BY DEF RuntimeInv, ListInv
<1>4. ASSUME list.failure = "Unsafe"
      PROVE  Strays # {} \/ \E m \in Moments(list), ch \in Channels : Config(m, ch) = "odd"
  BY <1>1, <1>3, <1>4 DEF RuntimeInv, ListInv
<1>5. ASSUME list.failure = "Io"
      PROVE  \E m, n \in Moments(list), ch \in Channels :
               Config(m, ch) = "missing" /\ Config(n, ch) # "missing"
  <2>1. PICK ch \in Channels : /\ "missing" \in Seen(disk, ch, list.from, "config")
                               /\ \E x \in Seen(disk, ch, list.from, "config") : x # "missing"
    BY <1>5 DEF RuntimeInv, ListInv
  <2> QED BY <1>1, <1>3, <1>5, <2>1
<1> QED BY <1>2, <1>4, <1>5 DEF ListingIsHonest, Config

\* The trees, the load, its branches and the listing keep their types, and a
\* branch that reads has a file to read.
THEOREM RuntimeTyped == Spec => []TypeOK
<1> QED BY RuntimeInvariant, TypesFollow, PTL

\* loadChannelContext never makes up a context: its config was there, and each
\* of its documents was there then or later, however the files were edited
\* meanwhile; what it lacks was missing.
THEOREM ContextsWereThere == Spec => []ContextWasThere
<1> QED BY RuntimeInvariant, ContextFollows, PTL

\* The effective tools of a context are ones the config allowed and a requested
\* skill named, each at a moment of the load: a skill only narrows.
THEOREM SkillsOnlyNarrow == Spec => []EffectiveToolsWereGranted
<1> QED BY RuntimeInvariant, ToolsFollow, PTL

\* A load that fails was given the reason by the workspace, and one that fails
\* for a reason preflight would retry met an edit.
THEOREM FailuresHaveCauses == Spec => []FailureHasCause
<1> QED BY RuntimeInvariant, CausesFollow, PTL

\* listChannels lists and omits no channel that was not so at some moment of
\* the listing, and fails only over a stray, an odd config or a vanished one.
THEOREM ListingsAreHonest == Spec => []ListingIsHonest
<1> QED BY RuntimeInvariant, ListingFollows, PTL
=============================================================================
