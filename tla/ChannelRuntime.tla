--------------------------- MODULE ChannelRuntime ---------------------------
(***************************************************************************)
(* Reading a channel's workspace while somebody edits it: the load of a    *)
(* ChannelContext (ContextLoaderService, SkillLoaderService, the document  *)
(* reader) and listChannels of the registry.                               *)
(*                                                                         *)
(* Nothing locks the files and every check is an await before the read it  *)
(* guards.  disk is the history of the directory tree, so that a property  *)
(* can speak of the moments a load lived through.  A directory is there    *)
(* ("dir") or not ("missing"); a file is missing, has a directory in its   *)
(* place ("odd"), or has a body, of which only what the parsers find in it *)
(* is kept.  Symbolic links, and checks on paths that no edit within       *)
(* channels/ can change, are left out.                                     *)
(***************************************************************************)
EXTENDS Naturals, Sequences, FiniteSets

CONSTANTS
  Channels,  \* directories under channels/
  Strays,    \* those whose name is not a safe identifier
  Loaded,    \* the channel whose context is loaded
  Files,     \* per directory its Markdown files in name order; under
             \* "skills" only the requested ones
  Approved,  \* the file names of APPROVED_MEMORY_FILES
  Configs,   \* what parseChannelConfig makes of each body of a config
  Grants,    \* the tools parseSkillAllowedTools finds in each document body
  Edits,     \* the <<channel, path, entry>> an editor may bring about
  MaxEdits   \* bound: how many edits are made

Kinds == {"rules", "memory", "skills"}
DocumentsOf(k) == {Files[k][n] : n \in 1 .. Len(Files[k])}
Documents == UNION {DocumentsOf(k) : k \in Kinds}
Directories == {"workspace", "harness"} \cup Kinds
Paths == Directories \cup {"config"} \cup Documents

EntriesOf(p) ==
  CASE p \in Directories -> {"dir", "missing"}
    [] p = "config" -> {"missing", "odd"} \cup DOMAIN Configs
    [] OTHER -> {"missing", "odd"} \cup DOMAIN Grants

ASSUME ChannelsAssumption ==
  /\ Strays \subseteq Channels
  /\ Loaded \in Channels \ Strays
  /\ "none" \notin Channels
ASSUME FilesAssumption ==
  /\ DOMAIN Files = Kinds
  /\ \A k \in Kinds : Files[k] \in Seq(DocumentsOf(k))
  /\ \A k, j \in Kinds : k # j => DocumentsOf(k) \cap DocumentsOf(j) = {}
  /\ \A e \in Edits : /\ e[1] \in Channels
                     /\ e[2] \in Paths /\ e[3] \in EntriesOf(e[2])
ASSUME NamesAssumption ==
  /\ Documents \cap (Directories \cup {"config"}) = {}
  /\ {"missing", "odd", "none"} \cap (DOMAIN Configs \cup DOMAIN Grants) = {}
ASSUME LoadBoundsAssumption == MaxEdits \in Nat

VARIABLES
  disk,   \* history: the trees of all channels, the last one being there now
  load,   \* loadChannelContext(Loaded)
  branch, \* the three reads it makes at once
  list    \* listChannels()

vars == <<disk, load, branch, list>>

-----------------------------------------------------------------------------
(* What a look at the disk finds *)

Above(p) ==
  CASE p = "workspace" -> {}
    [] p = "harness" -> {"workspace"}
    [] p \in Kinds \cup {"config"} -> {"workspace", "harness"}
    [] OTHER -> {"workspace", "harness"} \cup {k \in Kinds : p \in DocumentsOf(k)}

See(tree, p) ==
  IF \E d \in Above(p) : tree[d] = "missing" THEN "missing" ELSE tree[p]
Look(ch, p) == See(disk[Len(disk)][ch], p)

Failures == {"ChannelNotFound", "ConfigNotFound", "InvalidConfig",
             "ConfigMismatch", "SkillNotFound", "Unsafe", "Io"}

\* The awaits of getChannelWorkspace, and what each may find: the workspace,
\* then .harness with its channel.yaml, then their canonical paths.
Stages == {"workspace", "harness", "canonical"}
NextStage == [workspace |-> "harness", harness |-> "canonical"]

Probe(ch, stage) ==
  CASE stage = "workspace" ->
         IF Look(ch, "workspace") = "missing" THEN "ChannelNotFound" ELSE "ok"
    [] stage = "harness" ->
         IF Look(ch, "config") = "missing" THEN "ConfigNotFound"
         ELSE IF Look(ch, "config") = "odd" THEN "Unsafe" ELSE "ok"
    [] stage = "canonical" ->
         IF Look(ch, "config") = "missing" THEN "Io" ELSE "ok"

\* assertRegularFileInside, and the read that follows it.
CheckFile(p) ==
  CASE Look(Loaded, p) = "missing" -> "Io"
    [] Look(Loaded, p) = "odd" -> "Unsafe"
    [] OTHER -> "ok"
OpenFile(p) == IF Look(Loaded, p) \in {"missing", "odd"} THEN "Io" ELSE "ok"

TypeOK ==
  /\ \A m \in 1 .. Len(disk) : \A ch \in Channels : \A p \in Paths :
       disk[m][ch][p] \in EntriesOf(p)
  /\ Len(disk) \in 1 .. MaxEdits + 1
  /\ load.pc \in Stages \cup
       {"idle", "check", "read", "documents", "loaded", "failed"}
  /\ load.from \in 0 .. Len(disk)
  /\ load.config \in DOMAIN Configs \cup {"none"}
  /\ load.failure \in IF load.pc = "failed" THEN Failures ELSE {"none"}
  /\ \A k \in Kinds :
       /\ branch[k].pc \in Stages \cup {"directory", "listing", "lookup",
                                        "check", "open", "done"}
       /\ branch[k].left \subseteq DocumentsOf(k)
       /\ branch[k].pc \in {"lookup", "check", "open"} => branch[k].left # {}
       /\ \A f \in DocumentsOf(k) : branch[k].docs[f] \in DOMAIN Grants \cup {"none"}
  /\ list.pc \in Stages \cup {"idle", "readdir", "next", "listed", "failed"}
  /\ list.failure \in IF list.pc = "failed" THEN Failures ELSE {"none"}
  /\ list.left \cup list.found \subseteq Channels

\* A workspace with everything in its place, as an edit of which the others
\* arise, and a stray that is not there yet.
Whole(body, document) ==
  [p \in Paths |-> CASE p \in Directories -> "dir"
                     [] p = "config" -> body
                     [] OTHER -> document]
Absent(tree) == [tree EXCEPT !["workspace"] = "missing"]

Init ==
  /\ \E body \in DOMAIN Configs, document \in DOMAIN Grants :
       LET tree == Whole(body, document) IN
       disk = <<[ch \in Channels |-> IF ch \in Strays THEN Absent(tree) ELSE tree]>>
  /\ load = [pc |-> "idle", from |-> 0, config |-> "none", tools |-> {},
             failure |-> "none"]
  /\ branch = [k \in Kinds |->
       [pc |-> CASE k # "skills" -> "directory"
                 [] k = "skills" /\ Files[k] = <<>> -> "done"
                 [] OTHER -> "workspace",
        left |-> {},
        docs |-> [f \in DocumentsOf(k) |-> "none"]]]
  /\ list = [pc |-> "idle", from |-> 0, left |-> {}, current |-> "none",
             found |-> {}, failure |-> "none"]

-----------------------------------------------------------------------------
(* loadChannelContext: workspace and config *)

\* The first rejection is the answer; what other reads are still going on is
\* of no consequence.
LoadFails(failure) ==
  load' = [load EXCEPT !.pc = "failed", !.failure = failure]

\* Operations only read, so that one in a behaviour is enough.
Free == load.pc = "idle" /\ list.pc = "idle"

BeginLoad ==
  /\ Free
  /\ load' = [load EXCEPT !.pc = "workspace", !.from = Len(disk)]
  /\ UNCHANGED <<disk, branch, list>>

LoadStep(found, next) ==
  /\ IF found = "ok" THEN load' = next ELSE LoadFails(found)
  /\ UNCHANGED <<disk, branch, list>>

ResolveWorkspace ==
  /\ load.pc \in Stages
  /\ LoadStep(Probe(Loaded, load.pc),
       [load EXCEPT !.pc = IF @ = "canonical" THEN "check" ELSE NextStage[@]])

CheckConfig ==
  /\ load.pc = "check"
  /\ LoadStep(CheckFile("config"), [load EXCEPT !.pc = "read"])

\* parseChannelConfig, and the comparison with the folder's name.
Judge(body) ==
  CASE Configs[body].verdict = "invalid" -> "InvalidConfig"
    [] Configs[body].verdict = "foreign" -> "ConfigMismatch"
    [] OTHER -> "ok"

ReadConfig ==
  LET body == Look(Loaded, "config") IN
  /\ load.pc = "read"
  /\ LoadStep(IF OpenFile("config") = "ok" THEN Judge(body) ELSE "Io",
              [load EXCEPT !.pc = "documents", !.config = body])

-----------------------------------------------------------------------------
(* Its three branches: two calls of loadMarkdownDirectory and one of loadSkills *)

At(k, pc) == load.pc = "documents" /\ branch[k].pc = pc

\* Files are read in the order of their names.
Earlier(k, n) == {Files[k][m] : m \in 1 .. n - 1}
First(k, left) ==
  Files[k][CHOOSE n \in 1 .. Len(Files[k]) : /\ Files[k][n] \in left
                                            /\ Earlier(k, n) \cap left = {}]
Current(k) == First(k, branch[k].left)

BranchStep(k, found, next) ==
  /\ IF found = "ok"
       THEN branch' = [branch EXCEPT ![k] = next] /\ UNCHANGED load
       ELSE LoadFails(found) /\ UNCHANGED branch
  /\ UNCHANGED <<disk, list>>

\* Mutant: the end of the list is not noticed.
WithoutEnd(k, left, docs) ==
  [pc |-> IF k = "skills" THEN "lookup" ELSE "check", left |-> left, docs |-> docs]

\* Where a branch goes on that has read docs and has the files `left` to read.
With(k, left, docs) ==
  [pc |-> IF left = {} THEN "done" ELSE IF k = "skills" THEN "lookup" ELSE "check",
   left |-> left, docs |-> docs]

\* loadSkills resolves the workspace once more.
ResolveWorkspaceAgain ==
  LET pc == branch["skills"].pc IN
  /\ load.pc = "documents" /\ pc \in Stages
  /\ BranchStep("skills", Probe(Loaded, pc),
       [branch["skills"] EXCEPT !.pc =
          IF @ = "canonical" THEN "directory" ELSE NextStage[@]])

\* Mutant: a missing directory is an error of the file system.
AssertDirectoryStrictly(k) ==
  /\ At(k, "directory")
  /\ BranchStep(k, IF Look(Loaded, k) = "dir" THEN "ok" ELSE "Io",
       IF k = "skills" THEN With(k, DocumentsOf(k), branch[k].docs)
       ELSE [branch[k] EXCEPT !.pc = "listing"])

\* A missing rules or memory directory is an empty one.
AssertDirectory(k) ==
  /\ At(k, "directory")
  /\ \/ /\ Look(Loaded, k) = "dir"
        /\ BranchStep(k, "ok",
             IF k = "skills" THEN With(k, DocumentsOf(k), branch[k].docs)
             ELSE [branch[k] EXCEPT !.pc = "listing"])
     \/ /\ Look(Loaded, k) = "missing"
        /\ BranchStep(k, IF k = "skills" THEN "SkillNotFound" ELSE "ok",
                      [branch[k] EXCEPT !.pc = "done"])

Wanted(k, f) == k = "memory" => f \in Approved

ListDirectory(k) ==
  /\ At(k, "listing")
  /\ BranchStep(k, IF Look(Loaded, k) = "missing" THEN "Io" ELSE "ok",
       With(k, {f \in DocumentsOf(k) : Look(Loaded, f) # "missing" /\ Wanted(k, f)},
            branch[k].docs))

LookUpSkill ==
  /\ At("skills", "lookup")
  /\ BranchStep("skills",
       IF Look(Loaded, Current("skills")) \in {"missing", "odd"}
         THEN "SkillNotFound" ELSE "ok",
       [branch["skills"] EXCEPT !.pc = "check"])

CheckDocument(k) ==
  /\ At(k, "check")
  /\ BranchStep(k, CheckFile(Current(k)), [branch[k] EXCEPT !.pc = "open"])

\* Mutant: a file that is gone by the time it is read is passed over.
ReadDocumentIfThere(k) ==
  /\ At(k, "open")
  /\ BranchStep(k, "ok",
       With(k, branch[k].left \ {Current(k)},
            [branch[k].docs EXCEPT ![Current(k)] =
               IF OpenFile(Current(k)) = "ok" THEN Look(Loaded, Current(k)) ELSE @]))

ReadDocument(k) ==
  /\ At(k, "open")
  /\ BranchStep(k, OpenFile(Current(k)),
       With(k, branch[k].left \ {Current(k)},
            [branch[k].docs EXCEPT ![Current(k)] = Look(Loaded, Current(k))]))

SkillBodies == {branch["skills"].docs[f] : f \in DocumentsOf("skills")} \ {"none"}
SkillTools == UNION {Grants[d] : d \in SkillBodies}

\* Mutant: a skill adds to what the channel allows.
EffectiveByUnion(allowed) == allowed \cup SkillTools

EffectiveTools(allowed) == allowed \cap SkillTools

AssembleContext ==
  /\ load.pc = "documents" /\ \A k \in Kinds : branch[k].pc = "done"
  /\ load' = [load EXCEPT !.pc = "loaded",
                          !.tools = EffectiveTools(Configs[load.config].tools)]
  /\ UNCHANGED <<disk, branch, list>>

-----------------------------------------------------------------------------
(* listChannels *)

BeginList ==
  /\ Free
  /\ list' = [list EXCEPT !.pc = "readdir", !.from = Len(disk)]
  /\ UNCHANGED <<disk, load, branch>>

ReadRoot ==
  /\ list.pc = "readdir"
  /\ list' = [list EXCEPT !.pc = "next",
       !.left = {ch \in Channels : Look(ch, "workspace") # "missing"}]
  /\ UNCHANGED <<disk, load, branch>>

ListFails(failure) ==
  list' = [list EXCEPT !.pc = "failed", !.failure = failure]

\* The entries come in no order that counts; the answer is sorted.
NextEntry ==
  /\ list.pc = "next"
  /\ \/ list.left = {} /\ list' = [list EXCEPT !.pc = "listed"]
     \/ \E ch \in list.left :
          IF ch \in Strays THEN ListFails("Unsafe")
          ELSE list' = [list EXCEPT !.pc = "workspace", !.current = ch,
                                    !.left = @ \ {ch}]
  /\ UNCHANGED <<disk, load, branch>>

\* Mutant: whatever is wrong with a channel, it is passed over.
SkippedAlways(found) == TRUE

Skipped(found) == found \in {"ChannelNotFound", "ConfigNotFound"}

ProbeEntry ==
  LET found == Probe(list.current, list.pc) IN
  /\ list.pc \in Stages
  /\ CASE found = "ok" /\ list.pc = "canonical" ->
            list' = [list EXCEPT !.pc = "next", !.found = @ \cup {list.current}]
       [] found = "ok" /\ list.pc # "canonical" ->
            list' = [list EXCEPT !.pc = NextStage[@]]
       [] Skipped(found) -> list' = [list EXCEPT !.pc = "next"]
       [] OTHER -> ListFails(found)
  /\ UNCHANGED <<disk, load, branch>>

-----------------------------------------------------------------------------
\* Somebody creates, writes, removes or replaces one path.  A body written in
\* place is cut short for a while, which is a body of its own.
Edit ==
  /\ Len(disk) <= MaxEdits
  /\ \E e \in Edits :
       LET now == disk[Len(disk)] IN
       /\ now[e[1]][e[2]] # e[3]
       /\ disk' = Append(disk, [now EXCEPT ![e[1]][e[2]] = e[3]])
  /\ UNCHANGED <<load, branch, list>>

Next ==
  \/ BeginLoad \/ ResolveWorkspace \/ CheckConfig \/ ReadConfig
  \/ ResolveWorkspaceAgain \/ LookUpSkill
  \/ \E k \in Kinds : \/ AssertDirectory(k) \/ ListDirectory(k)
                      \/ CheckDocument(k) \/ ReadDocument(k)
  \/ AssembleContext
  \/ BeginList \/ ReadRoot \/ NextEntry \/ ProbeEntry
  \/ Edit

Spec == Init /\ [][Next]_vars

-----------------------------------------------------------------------------
(* The moments of an operation: the trees since it began. *)

Moments(op) == op.from .. Len(disk)
Saw(m, p) == See(disk[m][Loaded], p)
Whenever(op, p, entries) == \E m \in Moments(op) : Saw(m, p) \in entries
Document(k, f) == branch[k].docs[f]

\* A context is made of what was there: its config at one moment of the load,
\* and at that moment or later the body of each of its documents.  Every rule
\* and every approved memory it lacks was missing at a later moment, and it
\* lacks no requested skill and has no memory that is not approved.
ContextWasThere ==
  load.pc = "loaded" =>
    \E n \in Moments(load) :
      /\ Saw(n, "config") = load.config
      /\ \A k \in Kinds : \A f \in DocumentsOf(k) :
           LET d == Document(k, f) IN
           IF d = "none"
             THEN /\ k # "skills"
                  /\ \/ k = "memory" /\ f \notin Approved
                     \/ \E m \in n .. Len(disk) : Saw(m, f) = "missing"
             ELSE /\ k = "memory" => f \in Approved
                  /\ \E m \in n .. Len(disk) : Saw(m, f) = d

\* A tool is effective only if the channel's config allowed it at one moment
\* of the load and, then or later, a requested skill named it: a skill narrows
\* what the channel allows and adds nothing.
EffectiveToolsWereGranted ==
  load.pc = "loaded" =>
    \A t \in load.tools :
      \E n \in Moments(load) :
        /\ Saw(n, "config") \in {b \in DOMAIN Configs : t \in Configs[b].tools}
        /\ \E m \in n .. Len(disk), f \in DocumentsOf("skills") :
             Saw(m, f) \in {d \in DOMAIN Grants : t \in Grants[d]}

\* A load fails for a reason the workspace gave it.  What preflight takes for
\* final (all but Io) was wrong at some moment of the load, and what it takes
\* for recoverable is a race: a path changed and could not be read for a while,
\* so that nobody's editing means no recoverable failure.
FailureHasCause ==
  load.pc = "failed" =>
    CASE load.failure = "ChannelNotFound" -> Whenever(load, "workspace", {"missing"})
      [] load.failure = "ConfigNotFound" -> Whenever(load, "config", {"missing"})
      [] load.failure = "InvalidConfig" ->
           \E b \in DOMAIN Configs : /\ Configs[b].verdict = "invalid"
                                     /\ Whenever(load, "config", {b})
      [] load.failure = "ConfigMismatch" ->
           \E b \in DOMAIN Configs : /\ Configs[b].verdict = "foreign"
                                     /\ Whenever(load, "config", {b})
      [] load.failure = "SkillNotFound" ->
           \E f \in DocumentsOf("skills") : Whenever(load, f, {"missing", "odd"})
      [] load.failure = "Unsafe" ->
           \E f \in Documents \cup {"config"} : Whenever(load, f, {"odd"})
      [] OTHER ->
           \E p \in Paths, m, n \in Moments(load) :
             Saw(m, p) \in {"missing", "odd"} /\ Saw(n, p) # Saw(m, p)

\* Every channel listed had its config at some moment of the listing, every
\* channel that had one throughout is listed, and a listing that fails met a
\* stray directory, an odd config or a channel that vanished under its hands.
ListingIsHonest ==
  LET Config(m, ch) == See(disk[m][ch], "config") IN
  /\ list.pc = "listed" =>
       \A ch \in Channels \ Strays :
         /\ ch \in list.found =>
              \E m \in Moments(list) : Config(m, ch) \notin {"missing", "odd"}
         /\ ch \notin list.found =>
              \E m \in Moments(list) : Config(m, ch) = "missing"
  /\ list.failure = "Unsafe" =>
       \/ Strays # {}
       \/ \E m \in Moments(list), ch \in Channels : Config(m, ch) = "odd"
  /\ list.failure = "Io" =>
       \E m, n \in Moments(list), ch \in Channels :
         Config(m, ch) = "missing" /\ Config(n, ch) # "missing"
=============================================================================
