----------------------------- MODULE ObjectStore -----------------------------
(***************************************************************************)
(* The versioned object store: src/edsl/object_store and, for the results  *)
(* a run streams into it, runner/cas_integration.py.                       *)
(*                                                                         *)
(* An object is a directory of rows (blobs), lists of rows (trees),        *)
(* commits and branches (refs), written one key at a time.  Nothing is     *)
(* locked: savers, the writer of a running job and a sync interleave       *)
(* between any two writes, and each of them may be cut short by an error   *)
(* after any write.  (One whose process dies takes no further step.)  One  *)
(* write is atomic.                                                        *)
(*                                                                         *)
(* The time in a commit makes its hash unique: commits are numbered as     *)
(* they are made.                                                          *)
(***************************************************************************)
EXTENDS Integers, FiniteSets, Sequences, Functions

CONSTANTS
  Local, Remote, \* the directory that is worked in, and the one sync copies it to
  Savers,        \* callers of CASRepository
  Branches,
  Main,          \* the branch a repository starts with, and the one results go to
  Preamble,      \* the rows before the results
  Interviews,
  Results,       \* <<i, n>>: the row made of interview i for the nth time it is reported
  Unserializable, \* those that build_edsl_result or json.dumps cannot make
  Saved,         \* rows that savers save
  BatchSize,     \* cas_batch_size
  None,
  MaxCalls,      \* bound on the calls of each saver
  MaxSyncs       \* bound on the syncs

ASSUME StoreConstants ==
  /\ Main \in Branches /\ None \notin Branches
  /\ Local # Remote /\ "stream" \notin Savers
  /\ BatchSize \in Nat \ {0} /\ MaxCalls \in Nat /\ MaxSyncs \in Nat
  /\ Results \subseteq Interviews \X (Nat \ {0}) /\ IsFiniteSet(Results)
  /\ Preamble \notin Results /\ Unserializable \subseteq Results

VARIABLES
  stored,        \* the keys under blobs/, trees/ and commits/ of each directory
  refs,          \* the commit of each branch of each directory, 0 if there is none
  head,          \* HEAD of each directory
  current,       \* current.jsonl of each directory
  commits,       \* the commits made so far, in order
  saver,         \* the call each saver is in
  stream,        \* the StreamingCASWriter and the RunnerCASIntegration around it
  sync,          \* ObjectStore.sync
  authors        \* who wrote a branch of the local directory

vars == <<stored, refs, head, current, commits, saver, stream, sync, authors>>

Dirs == {Local, Remote}
Rows == {Preamble} \cup Results \cup Saved

Blob(row)  == <<"blob", row>>
Tree(rows) == <<"tree", rows>>
Commit(c)  == <<"commit", c>>

Keys == ({"blob"} \X Rows) \cup ({"tree"} \X Seq(Rows)) \cup ({"commit"} \X Nat)

SaverIdle == [pc |-> "idle", branch |-> None, tree |-> <<>>, expected |-> None,
              parent |-> 0, commit |-> 0, calls |-> 0]
StreamNew == [pc |-> "blobs", hashes |-> <<>>, rows |-> <<Preamble>>, tip |-> 0, commit |-> 0,
              pending |-> <<>>, done |-> {}, broken |-> FALSE, ended |-> FALSE]
SyncIdle == [pc |-> "idle", branch |-> None, tip |-> 0, at |-> 0, count |-> 0, broken |-> FALSE]

SaverStates ==
  [pc       : {"idle", "switch", "blobs", "tip", "commit", "ref", "HEAD", "current", "branch", "checkout"},
   branch   : Branches \cup {None},
   tree     : Seq(Rows),
   expected : Nat \cup {None},
   parent   : 0..Len(commits),
   commit   : 0..Len(commits),
   calls    : 0..MaxCalls]

StreamStates ==
  [pc      : {"idle", "blobs", "commit", "ref", "HEAD", "current"},
   hashes  : Seq({Preamble} \cup Results),      \* of the preamble and of the results
   rows    : Seq({Preamble} \cup Results),      \* of the flush, not yet written
   tip     : 0..Len(commits),
   commit  : 0..Len(commits),
   pending : Seq(Results),                      \* _pending_ids
   done    : SUBSET Results,                    \* those reported
   broken  : BOOLEAN,                           \* whether a write failed
   ended   : BOOLEAN]                           \* whether finalize was called

SyncStates ==
  [pc     : {"idle", "next", "blobs", "commit", "ref", "HEAD", "current"},
   branch : Branches \cup {None},
   tip    : 0..Len(commits),
   at     : 0..Len(commits),                    \* the commit the walk is at
   count  : 0..MaxSyncs,
   broken : BOOLEAN]                            \* whether one was interrupted

\* The variables have their types.
TypeOK ==
  /\ stored \in [Dirs -> SUBSET Keys]
  /\ commits \in Seq([tree : Seq(Rows), parent : Nat])
  /\ refs \in [Dirs -> [Branches -> 0..Len(commits)]]
  /\ head \in [Dirs -> Branches \cup {None}]
  /\ current \in [Dirs -> Seq(Rows)]
  /\ saver \in [Savers -> SaverStates]
  /\ stream \in StreamStates
  /\ sync \in SyncStates
  /\ authors \in [Branches -> SUBSET (Savers \cup {"stream"})]

-----------------------------------------------------------------------------
(***************************************************************************)
(* Writes.                                                                 *)
(***************************************************************************)

WriteKey(dir, key) == stored' = [stored EXCEPT ![dir] = @ \cup {key}]

HasBlobs(dir, rows) == \A row \in Range(rows) : Blob(row) \in stored[dir]

WriteFirstMissing(dir, rows) ==
  \E k \in DOMAIN rows :
    /\ Blob(rows[k]) \notin stored[dir]
    /\ \A j \in 1..k - 1 : Blob(rows[j]) \in stored[dir]
    /\ WriteKey(dir, Blob(rows[k]))

MakeCommit(tree, parent) ==
  /\ commits' = Append(commits, [tree |-> tree, parent |-> parent])
  /\ WriteKey(Local, Commit(Len(commits) + 1))

WriteRef(dir, branch, c) == refs' = [refs EXCEPT ![dir][branch] = c]

WriteHead(dir, branch) == head' = [head EXCEPT ![dir] = branch]

WriteCurrent(dir, rows) == current' = [current EXCEPT ![dir] = rows]

-----------------------------------------------------------------------------
(***************************************************************************)
(* CASRepository.                                                          *)
(***************************************************************************)

Idle(p) == saver[p].pc = "idle" /\ saver[p].calls < MaxCalls

Goes(p, pc) == saver' = [saver EXCEPT ![p].pc = pc]

Begins(p, call) == saver' = [saver EXCEPT ![p] = [call EXCEPT !.calls = @ + 1]]

ReturnsFrom(p) == saver' = [saver EXCEPT ![p] = [SaverIdle EXCEPT !.calls = saver[p].calls]]

\* save: HEAD is read, and moved before anything is stored if another branch is asked for.
Save(p, branch, rows, expected) ==
  LET switches == head[Local] # None /\ branch # None /\ branch # head[Local]
      target == IF branch # None THEN branch ELSE IF head[Local] # None THEN head[Local] ELSE Main
  IN
  /\ Idle(p)
  /\ Begins(p, [saver[p] EXCEPT !.pc = IF switches THEN "switch" ELSE "blobs",
                                !.branch = target, !.tree = rows, !.expected = expected])
  /\ UNCHANGED <<stored, refs, head, current, commits, stream, sync, authors>>

SaveSwitch(p) ==
  /\ saver[p].pc = "switch"
  /\ WriteHead(Local, saver[p].branch)
  /\ Goes(p, "blobs")
  /\ UNCHANGED <<stored, refs, current, commits, stream, sync, authors>>

SaveBlob(p) ==
  /\ saver[p].pc = "blobs"
  /\ WriteFirstMissing(Local, saver[p].tree)
  /\ UNCHANGED <<refs, head, current, commits, saver, stream, sync, authors>>

SaveTree(p) ==
  /\ saver[p].pc = "blobs"
  /\ HasBlobs(Local, saver[p].tree)
  /\ WriteKey(Local, Tree(saver[p].tree))
  /\ Goes(p, "tip")
  /\ UNCHANGED <<refs, head, current, commits, stream, sync, authors>>

\* The tip is compared here and replaced later; a stale one raises.
SaveTip(p) ==
  LET tip == refs[Local][saver[p].branch] IN
  /\ saver[p].pc = "tip"
  /\ IF saver[p].expected \notin {None, tip} THEN ReturnsFrom(p)
     ELSE saver' = [saver EXCEPT ![p].pc = "commit", ![p].parent = tip]
  /\ UNCHANGED <<stored, refs, head, current, commits, stream, sync, authors>>

SaveCommit(p) ==
  /\ saver[p].pc = "commit"
  /\ MakeCommit(saver[p].tree, saver[p].parent)
  /\ saver' = [saver EXCEPT ![p].pc = "ref", ![p].commit = Len(commits) + 1]
  /\ UNCHANGED <<refs, head, current, stream, sync, authors>>

SaveRef(p) ==
  /\ saver[p].pc = "ref"
  /\ WriteRef(Local, saver[p].branch, saver[p].commit)
  /\ authors' = [authors EXCEPT ![saver[p].branch] = @ \cup {p}]
  /\ Goes(p, "HEAD")
  /\ UNCHANGED <<stored, head, current, commits, stream, sync>>

SaveHead(p) ==
  /\ saver[p].pc = "HEAD"
  /\ WriteHead(Local, saver[p].branch)
  /\ Goes(p, "current")
  /\ UNCHANGED <<stored, refs, current, commits, stream, sync, authors>>

SaveCurrent(p) ==
  /\ saver[p].pc = "current"
  /\ WriteCurrent(Local, saver[p].tree)
  /\ ReturnsFrom(p)
  /\ UNCHANGED <<stored, refs, head, commits, stream, sync, authors>>

\* branch: a new name for the tip of another branch, or of HEAD.
Branch(p, name, from) ==
  LET source == IF from # None THEN from ELSE head[Local] IN
  /\ Idle(p)
  /\ refs[Local][name] = 0
  /\ source # None /\ refs[Local][source] # 0
  /\ Begins(p, [saver[p] EXCEPT !.pc = "branch", !.branch = name,
                                !.commit = refs[Local][source]])
  /\ UNCHANGED <<stored, refs, head, current, commits, stream, sync, authors>>

BranchRef(p) ==
  /\ saver[p].pc = "branch"
  /\ WriteRef(Local, saver[p].branch, saver[p].commit)
  /\ authors' = [authors EXCEPT ![saver[p].branch] = @ \cup {p}]
  /\ ReturnsFrom(p)
  /\ UNCHANGED <<stored, head, current, commits, stream, sync>>

Checkout(p, branch) ==
  /\ Idle(p)
  /\ refs[Local][branch] # 0
  /\ WriteHead(Local, branch)
  /\ Begins(p, [saver[p] EXCEPT !.pc = "checkout", !.branch = branch])
  /\ UNCHANGED <<stored, refs, current, commits, stream, sync, authors>>

CheckoutCurrent(p) ==
  /\ saver[p].pc = "checkout"
  /\ WriteCurrent(Local, commits[refs[Local][saver[p].branch]].tree)
  /\ ReturnsFrom(p)
  /\ UNCHANGED <<stored, refs, head, commits, stream, sync, authors>>

SaverFails(p) ==
  /\ saver[p].pc # "idle"
  /\ ReturnsFrom(p)
  /\ UNCHANGED <<stored, refs, head, current, commits, stream, sync, authors>>

-----------------------------------------------------------------------------
(***************************************************************************)
(* StreamingCASWriter and RunnerCASIntegration.  A callback of the job     *)
(* service is a whole flush: the next interview ends after it.             *)
(***************************************************************************)

StreamGoes(pc) == stream' = [stream EXCEPT !.pc = pc]

\* pending is cleared before anything is written; nothing is if no result can be serialized.
Flushed(s) ==
  IF Range(s.pending) \subseteq Unserializable THEN [s EXCEPT !.pending = <<>>]
  ELSE [s EXCEPT !.pc = "blobs", !.rows = s.pending, !.pending = <<>>]

\* An interview may be reported again: the handler whose call of the callback raised is
\* followed by another, and a task executed twice completes its interview twice.
OnInterviewComplete(r) ==
  LET s == [stream EXCEPT !.pending = Append(@, r), !.done = @ \cup {r}] IN
  /\ stream.pc = "idle" /\ ~stream.ended
  /\ r \notin stream.done
  /\ \A n \in 1..r[2] - 1 : <<r[1], n>> \in stream.done
  /\ stream' = IF Len(s.pending) >= BatchSize THEN Flushed(s) ELSE s
  /\ UNCHANGED <<stored, refs, head, current, commits, saver, sync, authors>>

AllReported == \A i \in Interviews : <<i, 1>> \in stream.done

\* Mutated form: what waits for a full batch is left.
FinalizeWithoutFlush ==
  /\ stream.pc = "idle" /\ ~stream.ended
  /\ AllReported
  /\ stream' = [stream EXCEPT !.ended = TRUE, !.pending = <<>>]
  /\ UNCHANGED <<stored, refs, head, current, commits, saver, sync, authors>>

\* When results returns, all interviews have ended.
Finalize ==
  /\ stream.pc = "idle" /\ ~stream.ended
  /\ AllReported
  /\ stream' = Flushed([stream EXCEPT !.ended = TRUE])
  /\ UNCHANGED <<stored, refs, head, current, commits, saver, sync, authors>>

\* A result that cannot be serialized is dropped.
StreamDrop ==
  /\ stream.pc = "blobs" /\ stream.rows # <<>>
  /\ Head(stream.rows) \in Unserializable
  /\ stream' = [stream EXCEPT !.rows = Tail(@)]
  /\ UNCHANGED <<stored, refs, head, current, commits, saver, sync, authors>>

StreamBlob ==
  /\ stream.pc = "blobs" /\ stream.rows # <<>>
  /\ Head(stream.rows) \notin Unserializable
  /\ WriteKey(Local, Blob(Head(stream.rows)))
  /\ stream' = [stream EXCEPT !.hashes = Append(@, Head(stream.rows)), !.rows = Tail(@)]
  /\ UNCHANGED <<refs, head, current, commits, saver, sync, authors>>

StreamTree ==
  /\ stream.pc = "blobs" /\ stream.rows = <<>>
  /\ WriteKey(Local, Tree(stream.hashes))
  /\ StreamGoes("commit")
  /\ UNCHANGED <<refs, head, current, commits, saver, sync, authors>>

\* Mutated form: a flush does not name the commit before it.
StreamCommitRootless ==
  /\ stream.pc = "commit"
  /\ MakeCommit(stream.hashes, 0)
  /\ stream' = [stream EXCEPT !.pc = "ref", !.commit = Len(commits) + 1]
  /\ UNCHANGED <<refs, head, current, saver, sync, authors>>

\* The parent is the writer's own last commit, whatever the branch names by now.
StreamCommit ==
  /\ stream.pc = "commit"
  /\ MakeCommit(stream.hashes, stream.tip)
  /\ stream' = [stream EXCEPT !.pc = "ref", !.commit = Len(commits) + 1]
  /\ UNCHANGED <<refs, head, current, saver, sync, authors>>

StreamRef ==
  /\ stream.pc = "ref"
  /\ WriteRef(Local, Main, stream.commit)
  /\ authors' = [authors EXCEPT ![Main] = @ \cup {"stream"}]
  /\ StreamGoes("HEAD")
  /\ UNCHANGED <<stored, head, current, commits, saver, sync>>

StreamHead ==
  /\ stream.pc = "HEAD"
  /\ WriteHead(Local, Main)
  /\ StreamGoes("current")
  /\ UNCHANGED <<stored, refs, current, commits, saver, sync, authors>>

StreamCurrent ==
  /\ stream.pc = "current"
  /\ WriteCurrent(Local, stream.hashes)
  /\ stream' = [stream EXCEPT !.pc = "idle", !.tip = stream.commit, !.commit = 0]
  /\ UNCHANGED <<stored, refs, head, commits, saver, sync, authors>>

\* Mutated form: a failed flush forgets what was hashed before it.
StreamFailsAndForgets ==
  /\ stream.pc # "idle" /\ stream.tip # 0
  /\ stream' = [stream EXCEPT !.pc = "idle", !.hashes = <<Preamble>>, !.rows = <<>>, !.commit = 0,
                              !.broken = TRUE]
  /\ UNCHANGED <<stored, refs, head, current, commits, saver, sync, authors>>

\* A write of a flush raises: what was hashed is left for the next flush, the other rows
\* are gone.
StreamFails ==
  /\ stream.pc # "idle" /\ stream.tip # 0
  /\ stream' = [stream EXCEPT !.pc = "idle", !.rows = <<>>, !.commit = 0, !.broken = TRUE]
  /\ UNCHANGED <<stored, refs, head, current, commits, saver, sync, authors>>

-----------------------------------------------------------------------------
(***************************************************************************)
(* ObjectStore.sync, from the tip of a branch to its first commit.         *)
(***************************************************************************)

SyncGoes(pc) == sync' = [sync EXCEPT !.pc = pc]

SyncEnds(broken) == sync' = [SyncIdle EXCEPT !.count = sync.count, !.broken = broken]

StartSync(asked) ==
  LET branch == IF asked # None THEN asked ELSE head[Local] IN
  /\ sync.pc = "idle" /\ sync.count < MaxSyncs
  /\ branch # None /\ refs[Local][branch] # 0
  /\ sync' = [sync EXCEPT !.pc = "next", !.branch = branch, !.tip = refs[Local][branch],
                          !.at = refs[Local][branch], !.count = @ + 1]
  /\ UNCHANGED <<stored, refs, head, current, commits, saver, stream, authors>>

\* A commit that is there ends the walk: it and all its ancestors were copied before.
Copied(c) == c = 0 \/ Commit(c) \in stored[Remote]

SyncTree ==
  /\ sync.pc = "next" /\ ~Copied(sync.at)
  /\ WriteKey(Remote, Tree(commits[sync.at].tree))
  /\ SyncGoes("blobs")
  /\ UNCHANGED <<refs, head, current, commits, saver, stream, authors>>

SyncBlob ==
  /\ sync.pc = "blobs"
  /\ WriteFirstMissing(Remote, commits[sync.at].tree)
  /\ UNCHANGED <<refs, head, current, commits, saver, stream, sync, authors>>

\* Mutated form: only the tip is copied.
SyncCommitTipOnly ==
  /\ sync.pc = "blobs" /\ HasBlobs(Remote, commits[sync.at].tree)
  /\ WriteKey(Remote, Commit(sync.at))
  /\ sync' = [sync EXCEPT !.pc = "next", !.at = 0]
  /\ UNCHANGED <<refs, head, current, commits, saver, stream, authors>>

SyncCommit ==
  /\ sync.pc = "blobs" /\ HasBlobs(Remote, commits[sync.at].tree)
  /\ WriteKey(Remote, Commit(sync.at))
  /\ sync' = [sync EXCEPT !.pc = "next", !.at = commits[sync.at].parent]
  /\ UNCHANGED <<refs, head, current, commits, saver, stream, authors>>

\* Mutated form: the ref is written while commits are being copied.
SyncRefEarly ==
  /\ sync.pc = "next"
  /\ WriteRef(Remote, sync.branch, sync.tip)
  /\ SyncGoes("HEAD")
  /\ UNCHANGED <<stored, head, current, commits, saver, stream, authors>>

SyncRef ==
  /\ sync.pc = "next" /\ Copied(sync.at)
  /\ WriteRef(Remote, sync.branch, sync.tip)
  /\ SyncGoes("HEAD")
  /\ UNCHANGED <<stored, head, current, commits, saver, stream, authors>>

SyncHead ==
  /\ sync.pc = "HEAD"
  /\ WriteHead(Remote, sync.branch)
  /\ SyncGoes("current")
  /\ UNCHANGED <<stored, refs, current, commits, saver, stream, authors>>

SyncCurrent ==
  /\ sync.pc = "current"
  /\ WriteCurrent(Remote, commits[sync.tip].tree)
  /\ SyncEnds(sync.broken)
  /\ UNCHANGED <<stored, refs, head, commits, saver, stream, authors>>

SyncFails ==
  /\ sync.pc # "idle"
  /\ SyncEnds(TRUE)
  /\ UNCHANGED <<stored, refs, head, current, commits, saver, stream, authors>>

-----------------------------------------------------------------------------

Init ==
  /\ stored = [dir \in Dirs |-> {}]
  /\ refs = [dir \in Dirs |-> [branch \in Branches |-> 0]]
  /\ head = [dir \in Dirs |-> None]
  /\ current = [dir \in Dirs |-> <<>>]
  /\ commits = <<>>
  /\ saver = [p \in Savers |-> SaverIdle]
  /\ stream = StreamNew
  /\ sync = SyncIdle
  /\ authors = [branch \in Branches |-> {}]

\* A saver expects a tip it has read, if any.
Saver(p) ==
  \/ \E branch \in Branches \cup {None}, row \in Saved,
        expected \in ({None} \cup Range(refs[Local])) \ {0} :
       Save(p, branch, <<row>>, expected)
  \/ SaveSwitch(p) \/ SaveBlob(p) \/ SaveTree(p) \/ SaveTip(p) \/ SaveCommit(p)
  \/ SaveRef(p) \/ SaveHead(p) \/ SaveCurrent(p)
  \/ \E name \in Branches, from \in Branches \cup {None} : Branch(p, name, from)
  \/ BranchRef(p)
  \/ \E branch \in Branches : Checkout(p, branch)
  \/ CheckoutCurrent(p)
  \/ SaverFails(p)

Stream ==
  \/ \E r \in Results : OnInterviewComplete(r)
  \/ Finalize
  \/ StreamDrop \/ StreamBlob \/ StreamTree \/ StreamCommit \/ StreamRef \/ StreamHead \/ StreamCurrent
  \/ StreamFails

Sync ==
  \/ \E asked \in Branches \cup {None} : StartSync(asked)
  \/ SyncTree \/ SyncBlob \/ SyncCommit \/ SyncRef \/ SyncHead \/ SyncCurrent
  \/ SyncFails

Next == (\E p \in Savers : Saver(p)) \/ Stream \/ Sync

Spec == Init /\ [][Next]_vars

-----------------------------------------------------------------------------
(***************************************************************************)
(* Properties.                                                             *)
(***************************************************************************)

Loads(dir, c) ==
  /\ {Commit(c), Tree(commits[c].tree)} \subseteq stored[dir]
  /\ HasBlobs(dir, commits[c].tree)

\* The commit and all before it.
Ancestors(made, c) ==
  LET ancestors[a \in 0..Len(made)] == IF a = 0 THEN {} ELSE {a} \cup ancestors[made[a].parent]
  IN ancestors[c]

\* At every moment, whoever was interrupted and wherever, what a branch names can be
\* loaded, in the directory and in its copy.
RefsLoad == \A dir \in Dirs, branch \in Branches : refs[dir][branch] # 0 => Loads(dir, refs[dir][branch])

HistoryOf(dir) == UNION {Ancestors(commits, refs[dir][branch]) : branch \in Branches}

\* So can its whole history, in the copy as long as no sync was interrupted.
HistoryLoads ==
  /\ \A c \in HistoryOf(Local) : Loads(Local, c)
  /\ ~sync.broken => \A c \in HistoryOf(Remote) : Loads(Remote, c)

\* In the copy in any case.
SyncedHistoryLoads == \A c \in HistoryOf(Remote) : Loads(Remote, c)

\* A branch that only one caller writes, and no failing stream, never loses a commit:
\* whatever it named stays in its history.
BranchKept ==
  [][\A branch \in Branches :
       /\ refs[Local][branch] # 0
       /\ Cardinality(authors'[branch]) <= 1
       /\ ~stream.broken
       => refs[Local][branch] \in Ancestors(commits', refs'[Local][branch])]_vars

Streamed == commits[refs[Local][Main]].tree

\* On a branch of its own a stream has one row at most for each time an interview was
\* reported, whatever fails, and none for what was not; if no write failed, it has between
\* two flushes all but the rows that wait and those that could not be serialized.  Nothing
\* keeps an interview that was reported twice from having two.
StreamExact ==
  authors[Main] = {"stream"} =>
    /\ Head(Streamed) = Preamble
    /\ IsInjective(Streamed)
    /\ Range(Streamed) \subseteq {Preamble} \cup stream.done
    /\ stream.pc = "idle" /\ ~stream.broken =>
         Range(Streamed) \ {Preamble} = (stream.done \ Unserializable) \ Range(stream.pending)

\* Even if writes fail, a result that was streamed is never lost again.
StreamGrows ==
  [][authors[Main] = {"stream"} /\ authors'[Main] = {"stream"} =>
       /\ Len(Streamed) <= Len(Streamed')
       /\ Streamed = SubSeq(Streamed', 1, Len(Streamed))]_vars
=============================================================================
