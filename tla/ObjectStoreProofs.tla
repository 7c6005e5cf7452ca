------------------------- MODULE ObjectStoreProofs -------------------------
(***************************************************************************)
(* Proofs about ObjectStore, for any number of savers, branches, rows and  *)
(* interviews: whatever is cut short, what a branch names can be loaded,   *)
(* with all its history, in the directory and in its copy; what one caller *)
(* wrote stays on its branch; and a run streams each result once.          *)
(***************************************************************************)
EXTENDS ObjectStore, FiniteSetTheorems, WellFoundedInduction, TLAPS

(***************************************************************************)
(* The invariant.  Every write leaves what is stored sound by itself: a    *)
(* commit is written after its tree and rows, a ref after its commit.  So  *)
(* each caller has to remember how far it got, and no more.                *)
(***************************************************************************)

\* A commit is stored only with all it is made of.
CommitsLoad ==
  \A dir \in Dirs, c \in Nat : Commit(c) \in stored[dir] => c \in 1..Len(commits) /\ Loads(dir, c)

ParentsBefore == \A c \in 1..Len(commits) : commits[c].parent < c

RefsStored ==
  \A dir \in Dirs, branch \in Branches :
    refs[dir][branch] # 0 => Commit(refs[dir][branch]) \in stored[dir]

TreeIn(keys, rows) == Tree(rows) \in keys /\ \A row \in Range(rows) : Blob(row) \in keys

SaverReady(p) ==
  /\ saver[p].pc # "idle" => saver[p].branch \in Branches
  /\ saver[p].pc \in {"tip", "commit"} => TreeIn(stored[Local], saver[p].tree)
  /\ saver[p].pc \in {"ref", "branch"} => Commit(saver[p].commit) \in stored[Local]
  /\ saver[p].pc = "checkout" => refs[Local][saver[p].branch] # 0

StreamReady ==
  /\ HasBlobs(Local, stream.hashes)
  /\ stream.pc = "commit" => Tree(stream.hashes) \in stored[Local]
  /\ stream.pc = "ref" => Commit(stream.commit) \in stored[Local]

\* The tip is copied before any other commit.
SyncReady ==
  /\ sync.pc # "idle" => sync.branch \in Branches /\ sync.tip # 0
  /\ sync.pc \in {"next", "blobs"} => sync.at = sync.tip \/ Commit(sync.tip) \in stored[Remote]
  /\ sync.pc = "blobs" => sync.at # 0 /\ Tree(commits[sync.at].tree) \in stored[Remote]

IInv ==
  /\ TypeOK
  /\ CommitsLoad
  /\ ParentsBefore
  /\ RefsStored
  /\ \A p \in Savers : SaverReady(p)
  /\ StreamReady
  /\ SyncReady

-----------------------------------------------------------------------------
(***************************************************************************)
(* Keys and what is stored.                                                *)
(***************************************************************************)

LEMMA KeysApart ==
  /\ \A row, c : Blob(row) # Commit(c)
  /\ \A rows, c : Tree(rows) # Commit(c)
  /\ \A c, d : Commit(c) = Commit(d) => c = d
BY DEF Blob, Tree, Commit

LEMMA KeyTypes ==
  /\ \A row \in Rows : Blob(row) \in Keys
  /\ \A rows \in Seq(Rows) : Tree(rows) \in Keys
  /\ \A c \in Nat : Commit(c) \in Keys
BY DEF Blob, Tree, Commit, Keys

\* One write adds one key, and keeps the type if it is one.
LEMMA KeyAdded ==
  ASSUME stored \in [Dirs -> SUBSET Keys], NEW dir \in Dirs, NEW key, WriteKey(dir, key)
  PROVE  /\ \A d \in Dirs : stored'[d] = IF d = dir THEN stored[d] \cup {key} ELSE stored[d]
         /\ key \in Keys => stored' \in [Dirs -> SUBSET Keys]
BY DEF WriteKey

\* What a step of the system leaves behind: more keys, more commits, the same old ones.
Grows ==
  /\ \A dir \in Dirs : stored[dir] \subseteq stored'[dir]
  /\ Len(commits) <= Len(commits')
  /\ \A c \in 1..Len(commits) : commits'[c] = commits[c]

\* What was complete stays complete.
LEMMA GrowsKeeps ==
  ASSUME Grows, NEW dir \in Dirs
  PROVE  /\ \A rows : HasBlobs(dir, rows) => HasBlobs(dir, rows)'
         /\ \A rows : TreeIn(stored[dir], rows) => TreeIn(stored'[dir], rows)
         /\ \A c \in 1..Len(commits) : Loads(dir, c) => Loads(dir, c)'
<1>1. \A rows : HasBlobs(dir, rows) => HasBlobs(dir, rows)'
  BY DEF Grows, HasBlobs
<1>2. \A rows : TreeIn(stored[dir], rows) => TreeIn(stored'[dir], rows)
  BY <1>1 DEF Grows, TreeIn
<1>3. \A c \in 1..Len(commits) : Loads(dir, c) => Loads(dir, c)'
  BY <1>1 DEF Grows, Loads
<1> QED
  BY <1>1, <1>2, <1>3

\* The store is as sound after a step as before it.
StoreKept ==
  /\ Grows
  /\ CommitsLoad'
  /\ ParentsBefore'
  /\ RefsStored'
  /\ \A branch \in Branches : refs[Local][branch] # 0 => refs'[Local][branch] # 0

-----------------------------------------------------------------------------
(***************************************************************************)
(* Each kind of write keeps the store sound.                               *)
(***************************************************************************)

LEMMA StoreStill ==
  ASSUME IInv, UNCHANGED <<stored, refs, commits>>
  PROVE  StoreKept
<1>1. Grows
  BY DEF Grows, IInv, TypeOK
<1>2. CommitsLoad' /\ ParentsBefore' /\ RefsStored'
  BY DEF IInv, CommitsLoad, ParentsBefore, RefsStored, Loads, HasBlobs
<1> QED
  BY <1>1, <1>2 DEF StoreKept

LEMMA StoreWithKey ==
  ASSUME IInv, NEW dir \in Dirs, NEW key, WriteKey(dir, key), UNCHANGED <<refs, commits>>,
         \A c \in Nat : key # Commit(c)
  PROVE  StoreKept
<1>1. \A d \in Dirs : stored'[d] = IF d = dir THEN stored[d] \cup {key} ELSE stored[d]
  BY KeyAdded DEF IInv, TypeOK
<1>2. Grows
  <2>1. Len(commits) <= Len(commits') /\ \A c \in 1..Len(commits) : commits'[c] = commits[c]
    BY DEF IInv, TypeOK
  <2> QED
    BY <1>1, <2>1 DEF Grows
<1>3. CommitsLoad'
  <2> SUFFICES ASSUME NEW d \in Dirs, NEW c \in Nat, Commit(c) \in stored'[d]
               PROVE  c \in 1..Len(commits') /\ Loads(d, c)'
    BY DEF CommitsLoad
  <2>1. c \in 1..Len(commits) /\ Loads(d, c)
    BY <1>1 DEF IInv, CommitsLoad
  <2> QED
    BY <2>1, <1>2, GrowsKeeps
<1>4. ParentsBefore'
  BY DEF IInv, ParentsBefore
<1>5. RefsStored'
  BY <1>2 DEF IInv, RefsStored, Grows
<1> QED
  BY <1>2, <1>3, <1>4, <1>5 DEF StoreKept

LEMMA StoreWithCommit ==
  ASSUME IInv, NEW tree \in Seq(Rows), NEW parent \in 0..Len(commits), MakeCommit(tree, parent),
         TreeIn(stored[Local], tree), UNCHANGED refs
  PROVE  /\ StoreKept
         /\ Commit(Len(commits) + 1) \in stored'[Local]
         /\ commits' \in Seq([tree : Seq(Rows), parent : Nat])
         /\ stored' \in [Dirs -> SUBSET Keys]
         /\ Len(commits') = Len(commits) + 1
<1> DEFINE new == Len(commits) + 1
<1>1. /\ Local \in Dirs /\ Remote \in Dirs /\ new \in Nat
      /\ commits \in Seq([tree : Seq(Rows), parent : Nat])
      /\ stored \in [Dirs -> SUBSET Keys]
  BY DEF Dirs, IInv, TypeOK
<1>2. /\ \A d \in Dirs : stored'[d] = IF d = Local THEN stored[d] \cup {Commit(new)} ELSE stored[d]
      /\ stored' \in [Dirs -> SUBSET Keys]
  BY <1>1, KeyAdded, KeyTypes DEF MakeCommit
<1>3. /\ commits' \in Seq([tree : Seq(Rows), parent : Nat])
      /\ Len(commits') = new
      /\ \A c \in 1..Len(commits) : commits'[c] = commits[c]
      /\ commits'[new] = [tree |-> tree, parent |-> parent]
  BY <1>1 DEF MakeCommit
<1>4. Grows
  <2>1. \A d \in Dirs : stored[d] \subseteq stored'[d]
    BY <1>2
  <2>2. Len(commits) <= Len(commits')
    BY <1>1, <1>3
  <2> QED
    BY <2>1, <2>2, <1>3 DEF Grows
<1>5. CommitsLoad'
  <2> SUFFICES ASSUME NEW d \in Dirs, NEW c \in Nat, Commit(c) \in stored'[d]
               PROVE  c \in 1..Len(commits') /\ Loads(d, c)'
    BY DEF CommitsLoad
  <2>1. CASE Commit(c) \in stored[d]
    <3>1. c \in 1..Len(commits) /\ Loads(d, c)
      BY <2>1 DEF IInv, CommitsLoad
    <3> QED
      BY <3>1, <1>1, <1>3, <1>4, GrowsKeeps
  <2>2. CASE Commit(c) \notin stored[d]
    <3>1. d = Local /\ c = new
      BY <2>2, <1>2, KeysApart
    <3>2. TreeIn(stored'[Local], tree)
      BY <1>1, <1>4, GrowsKeeps
    <3>3. commits'[c].tree = tree
      BY <3>1, <1>3
    <3> QED
      BY <3>1, <3>2, <3>3, <1>1, <1>2, <1>3 DEF Loads, TreeIn, HasBlobs
  <2> QED
    BY <2>1, <2>2
<1>6. ParentsBefore'
  <2> SUFFICES ASSUME NEW c \in 1..Len(commits')
               PROVE  commits'[c].parent < c
    BY DEF ParentsBefore
  <2>1. CASE c = new
    BY <2>1, <1>1, <1>3
  <2>2. CASE c # new
    <3>1. c \in 1..Len(commits)
      BY <2>2, <1>1, <1>3
    <3>2. commits'[c] = commits[c] /\ commits[c].parent < c
      BY <3>1, <1>3 DEF IInv, ParentsBefore
    <3> QED
      BY <3>2
  <2> QED
    BY <2>1, <2>2
<1>7. RefsStored'
  BY <1>4 DEF IInv, RefsStored, Grows
<1> QED
  BY <1>1, <1>2, <1>3, <1>4, <1>5, <1>6, <1>7 DEF StoreKept

LEMMA StoreWithCopy ==
  ASSUME IInv, NEW c \in 1..Len(commits), WriteKey(Remote, Commit(c)),
         TreeIn(stored[Remote], commits[c].tree), UNCHANGED <<refs, commits>>
  PROVE  StoreKept /\ Commit(c) \in stored'[Remote]
<1>1. Remote \in Dirs
  BY DEF Dirs
<1>2. \A d \in Dirs :
        stored'[d] = IF d = Remote THEN stored[d] \cup {Commit(c)} ELSE stored[d]
  BY <1>1, KeyAdded DEF IInv, TypeOK
<1>3. Grows
  <2>1. Len(commits) <= Len(commits') /\ \A a \in 1..Len(commits) : commits'[a] = commits[a]
    BY DEF IInv, TypeOK
  <2> QED
    BY <1>2, <2>1 DEF Grows
<1>4. CommitsLoad'
  <2> SUFFICES ASSUME NEW d \in Dirs, NEW a \in Nat, Commit(a) \in stored'[d]
               PROVE  a \in 1..Len(commits') /\ Loads(d, a)'
    BY DEF CommitsLoad
  <2>1. CASE Commit(a) \in stored[d]
    <3>1. a \in 1..Len(commits) /\ Loads(d, a)
      BY <2>1 DEF IInv, CommitsLoad
    <3> QED
      BY <3>1, <1>3, GrowsKeeps
  <2>2. CASE Commit(a) \notin stored[d]
    <3>1. d = Remote /\ a = c
      BY <2>2, <1>2, KeysApart
    <3>2. TreeIn(stored'[Remote], commits[c].tree)
      BY <1>1, <1>3, GrowsKeeps
    <3> QED
      BY <3>1, <3>2 DEF Loads, TreeIn, HasBlobs
  <2> QED
    BY <2>1, <2>2
<1>5. ParentsBefore'
  BY DEF IInv, ParentsBefore
<1>6. RefsStored'
  BY <1>3 DEF IInv, RefsStored, Grows
<1> QED
  BY <1>1, <1>2, <1>3, <1>4, <1>5, <1>6 DEF StoreKept

LEMMA StoreWithRef ==
  ASSUME IInv, NEW dir \in Dirs, NEW branch \in Branches, NEW c \in 0..Len(commits),
         WriteRef(dir, branch, c), Commit(c) \in stored[dir], UNCHANGED <<stored, commits>>
  PROVE  StoreKept /\ refs' \in [Dirs -> [Branches -> 0..Len(commits)]]
<1>1. c \in 1..Len(commits)
  BY DEF IInv, CommitsLoad, TypeOK
<1>2. /\ refs' \in [Dirs -> [Branches -> 0..Len(commits)]]
      /\ \A d \in Dirs, b \in Branches :
           refs'[d][b] = IF d = dir /\ b = branch THEN c ELSE refs[d][b]
  BY DEF WriteRef, IInv, TypeOK
<1>3. Grows
  BY DEF Grows, IInv, TypeOK
<1>4. CommitsLoad' /\ ParentsBefore'
  BY DEF IInv, CommitsLoad, ParentsBefore, Loads, HasBlobs
<1>5. RefsStored'
  BY <1>2 DEF IInv, RefsStored
<1>6. \A b \in Branches : refs[Local][b] # 0 => refs'[Local][b] # 0
  BY <1>1, <1>2 DEF Dirs
<1> QED
  BY <1>2, <1>3, <1>4, <1>5, <1>6 DEF StoreKept

-----------------------------------------------------------------------------
(***************************************************************************)
(* Who does not move stays ready.                                          *)
(***************************************************************************)

LEMMA SaverFrame ==
  ASSUME IInv, StoreKept, NEW p \in Savers, saver'[p] = saver[p]
  PROVE  SaverReady(p)'
<1>1. Local \in Dirs
  BY DEF Dirs
<1>2. SaverReady(p)
  BY DEF IInv
<1>3. \A rows : TreeIn(stored[Local], rows) => TreeIn(stored'[Local], rows)
  BY <1>1, GrowsKeeps DEF StoreKept
<1>4. stored[Local] \subseteq stored'[Local]
  BY <1>1 DEF StoreKept, Grows
<1> QED
  BY <1>2, <1>3, <1>4 DEF SaverReady, StoreKept

LEMMA StreamFrame ==
  ASSUME IInv, StoreKept, UNCHANGED stream
  PROVE  StreamReady'
<1>1. stored[Local] \subseteq stored'[Local]
  BY DEF StoreKept, Grows, Dirs
<1> QED
  BY <1>1 DEF IInv, StreamReady, HasBlobs

LEMMA SyncFrame ==
  ASSUME IInv, StoreKept, UNCHANGED sync
  PROVE  SyncReady'
<1>1. stored[Remote] \subseteq stored'[Remote]
  BY DEF StoreKept, Grows, Dirs
<1>2. sync.at # 0 => commits'[sync.at] = commits[sync.at]
  BY DEF StoreKept, Grows, IInv, TypeOK, SyncStates
<1> QED
  BY <1>1, <1>2 DEF IInv, SyncReady

\* A step of one saver, to the state s.
LEMMA SaverMoves ==
  ASSUME IInv, StoreKept, TypeOK', UNCHANGED <<stream, sync>>,
         NEW p \in Savers, NEW s, saver' = [saver EXCEPT ![p] = s],
         s.pc # "idle" => s.branch \in Branches,
         s.pc \in {"tip", "commit"} => TreeIn(stored'[Local], s.tree),
         s.pc \in {"ref", "branch"} => Commit(s.commit) \in stored'[Local],
         s.pc = "checkout" => refs'[Local][s.branch] # 0
  PROVE  IInv'
<1>1. saver'[p] = s /\ \A q \in Savers \ {p} : saver'[q] = saver[q]
  BY DEF IInv, TypeOK
<1>2. SaverReady(p)'
  BY <1>1 DEF SaverReady
<1>3. \A q \in Savers : SaverReady(q)'
  BY <1>1, <1>2, SaverFrame
<1> QED
  BY <1>3, StreamFrame, SyncFrame DEF IInv, StoreKept

\* A step of the stream.
LEMMA StreamMoves ==
  ASSUME IInv, StoreKept, TypeOK', StreamReady', UNCHANGED <<saver, sync>>
  PROVE  IInv'
<1>1. \A q \in Savers : SaverReady(q)'
  BY SaverFrame
<1> QED
  BY <1>1, SyncFrame DEF IInv, StoreKept

\* A step of the sync.
LEMMA SyncMoves ==
  ASSUME IInv, StoreKept, TypeOK', SyncReady', UNCHANGED <<saver, stream>>
  PROVE  IInv'
<1>1. \A q \in Savers : SaverReady(q)'
  BY SaverFrame
<1> QED
  BY <1>1, StreamFrame DEF IInv, StoreKept

-----------------------------------------------------------------------------
(***************************************************************************)
(* Types.                                                                  *)
(***************************************************************************)

\* The store and who wrote it, given commits up to n.
StoreTypes(n) ==
  /\ stored \in [Dirs -> SUBSET Keys]
  /\ refs \in [Dirs -> [Branches -> 0..n]]
  /\ head \in [Dirs -> Branches \cup {None}]
  /\ current \in [Dirs -> Seq(Rows)]
  /\ authors \in [Branches -> SUBSET (Savers \cup {"stream"})]

LEMMA TypesKept ==
  ASSUME TypeOK, UNCHANGED commits
  PROVE  /\ SaverStates' = SaverStates /\ StreamStates' = StreamStates /\ SyncStates' = SyncStates
         /\ StoreTypes(Len(commits))
         /\ StoreTypes(Len(commits))' /\ saver' \in [Savers -> SaverStates]
              /\ stream' \in StreamStates /\ sync' \in SyncStates => TypeOK'
<1>1. SaverStates' = SaverStates /\ StreamStates' = StreamStates /\ SyncStates' = SyncStates
  BY DEF SaverStates, StreamStates, SyncStates
<1>2. StoreTypes(Len(commits))
  BY DEF TypeOK, StoreTypes
<1> QED
  BY <1>1, <1>2 DEF TypeOK, StoreTypes

\* More commits allow more.
LEMMA TypesGrow ==
  ASSUME TypeOK, commits' \in Seq([tree : Seq(Rows), parent : Nat]), Len(commits') = Len(commits) + 1
  PROVE  /\ SaverStates \subseteq SaverStates'
         /\ StreamStates \subseteq StreamStates'
         /\ SyncStates \subseteq SyncStates'
         /\ stored' \in [Dirs -> SUBSET Keys] /\ UNCHANGED <<refs, head, current, authors>>
              /\ saver' \in [Savers -> SaverStates'] /\ stream' \in StreamStates' /\ sync' \in SyncStates'
            => TypeOK'
<1>1. Len(commits) \in Nat /\ 0..Len(commits) \subseteq 0..Len(commits')
  BY DEF TypeOK
<1>2. SaverStates \subseteq SaverStates'
  BY <1>1 DEF SaverStates
<1>3. StreamStates \subseteq StreamStates' /\ SyncStates \subseteq SyncStates'
  BY <1>1 DEF StreamStates, SyncStates
<1>4. [Branches -> 0..Len(commits)] \subseteq [Branches -> 0..Len(commits')]
  BY <1>1
<1>5. refs \in [Dirs -> [Branches -> 0..Len(commits')]]
  BY <1>4 DEF TypeOK
<1> QED
  BY <1>2, <1>3, <1>5 DEF TypeOK

\* A step of one saver that makes no commit.
LEMMA SaverTypes ==
  ASSUME TypeOK, UNCHANGED <<commits, stream, sync>>, NEW p \in Savers, NEW s \in SaverStates,
         saver' = [saver EXCEPT ![p] = s], StoreTypes(Len(commits))'
  PROVE  TypeOK'
<1>1. saver' \in [Savers -> SaverStates]
  BY DEF TypeOK
<1>2. stream' \in StreamStates /\ sync' \in SyncStates
  BY DEF TypeOK
<1> QED
  BY <1>1, <1>2, TypesKept

LEMMA SeqElement ==
  ASSUME NEW S, NEW s \in Seq(S), NEW k \in 1..Len(s)
  PROVE  s[k] \in S
OBVIOUS

LEMMA CommitTypes ==
  ASSUME TypeOK, NEW c \in 1..Len(commits)
  PROVE  commits[c].tree \in Seq(Rows) /\ commits[c].parent \in Nat
<1>1. commits \in Seq([tree : Seq(Rows), parent : Nat])
  BY DEF TypeOK
<1>2. commits[c] \in [tree : Seq(Rows), parent : Nat]
  BY <1>1, SeqElement
<1> QED
  BY <1>2

LEMMA InitIInv == Init => IInv
<1> SUFFICES ASSUME Init PROVE IInv
  OBVIOUS
<1>1. TypeOK
  BY StoreConstants DEF Init, TypeOK, SaverStates, StreamStates, SyncStates, SaverIdle, StreamNew,
     SyncIdle, Dirs, Rows
<1>2. CommitsLoad /\ ParentsBefore /\ RefsStored
  BY DEF Init, CommitsLoad, ParentsBefore, RefsStored
<1>3. \A p \in Savers : SaverReady(p)
  BY DEF Init, SaverReady, SaverIdle
<1>4. StreamReady /\ SyncReady
  BY DEF Init, StreamReady, SyncReady, StreamNew, SyncIdle, HasBlobs, Range
<1> QED
  BY <1>1, <1>2, <1>3, <1>4 DEF IInv

-----------------------------------------------------------------------------
(***************************************************************************)
(* The steps of a saver.                                                   *)
(***************************************************************************)

\* What a step does to the call it is in.
LEMMA SaverRecords ==
  ASSUME TypeOK, NEW p \in Savers
  PROVE  /\ saver[p] \in SaverStates
         /\ \A pc \in {"blobs", "tip", "HEAD", "current"} :
              Goes(p, pc) => /\ saver' = [saver EXCEPT ![p] = [saver[p] EXCEPT !.pc = pc]]
                             /\ [saver[p] EXCEPT !.pc = pc] \in SaverStates
         /\ ReturnsFrom(p) =>
              /\ saver' = [saver EXCEPT ![p] = [SaverIdle EXCEPT !.calls = saver[p].calls]]
              /\ [SaverIdle EXCEPT !.calls = saver[p].calls] \in SaverStates
              /\ [SaverIdle EXCEPT !.calls = saver[p].calls].pc = "idle"
<1>1. saver[p] \in SaverStates /\ Len(commits) \in Nat
  BY DEF TypeOK
<1>2. ASSUME NEW pc \in {"blobs", "tip", "HEAD", "current"}, Goes(p, pc)
      PROVE  /\ saver' = [saver EXCEPT ![p] = [saver[p] EXCEPT !.pc = pc]]
             /\ [saver[p] EXCEPT !.pc = pc] \in SaverStates
  <2>1. saver' = [saver EXCEPT ![p] = [saver[p] EXCEPT !.pc = pc]]
    BY <1>2, Zenon DEF Goes
  <2>2. [saver[p] EXCEPT !.pc = pc] \in SaverStates
    BY <1>1 DEF SaverStates
  <2> QED
    BY <2>1, <2>2
<1>3. /\ [SaverIdle EXCEPT !.calls = saver[p].calls] \in SaverStates
      /\ [SaverIdle EXCEPT !.calls = saver[p].calls].pc = "idle"
  <2>1. SaverIdle \in SaverStates /\ SaverIdle.pc = "idle"
    BY <1>1, StoreConstants DEF SaverIdle, SaverStates
  <2>2. \A s \in SaverStates, n \in 0..MaxCalls :
          [s EXCEPT !.calls = n] \in SaverStates /\ [s EXCEPT !.calls = n].pc = s.pc
    BY DEF SaverStates
  <2>3. saver[p].calls \in 0..MaxCalls
    BY <1>1 DEF SaverStates
  <2> QED
    BY <2>1, <2>2, <2>3
<1> QED
  BY <1>1, <1>2, <1>3 DEF ReturnsFrom

\* A step that only ends the call.
LEMMA SaverReturns ==
  ASSUME IInv, NEW p \in Savers, ReturnsFrom(p), StoreKept, StoreTypes(Len(commits))',
         UNCHANGED <<commits, stream, sync>>
  PROVE  IInv'
<1> DEFINE s == [SaverIdle EXCEPT !.calls = saver[p].calls]
<1>1. saver' = [saver EXCEPT ![p] = s] /\ s \in SaverStates /\ s.pc = "idle"
  BY SaverRecords DEF IInv
<1>2. TypeOK'
  BY <1>1, SaverTypes DEF IInv
<1> HIDE DEF s
<1> QED
  BY <1>1, <1>2, SaverMoves

\* A step to a point of the call where nothing is promised but the branch.
LEMMA SaverGoes ==
  ASSUME IInv, NEW p \in Savers, NEW pc \in {"blobs", "HEAD", "current"}, Goes(p, pc),
         saver[p].pc # "idle", StoreKept, StoreTypes(Len(commits))', UNCHANGED <<commits, stream, sync>>
  PROVE  IInv'
<1> DEFINE s == [saver[p] EXCEPT !.pc = pc]
<1>1. saver' = [saver EXCEPT ![p] = s] /\ s \in SaverStates /\ saver[p] \in SaverStates
  BY SaverRecords DEF IInv
<1>2. s.pc = pc /\ s.branch = saver[p].branch
  BY <1>1 DEF SaverStates
<1>3. saver[p].branch \in Branches
  BY DEF IInv, SaverReady
<1>4. TypeOK'
  BY <1>1, SaverTypes DEF IInv
<1> HIDE DEF s
<1> QED
  BY <1>1, <1>2, <1>3, <1>4, SaverMoves

\* A call begins.
LEMMA SaverBegins ==
  ASSUME IInv, NEW p \in Savers, Idle(p),
         NEW pc \in {"switch", "blobs", "branch", "checkout"}, NEW branch \in Branches,
         NEW tree \in Seq(Rows), NEW expected \in Nat \cup {None}, NEW c \in 0..Len(commits),
         saver' = [saver EXCEPT ![p] = [saver[p] EXCEPT !.pc = pc, !.branch = branch, !.tree = tree,
                                          !.expected = expected, !.commit = c, !.calls = @ + 1]],
         pc = "branch" => Commit(c) \in stored'[Local],
         pc = "checkout" => refs'[Local][branch] # 0,
         StoreKept, StoreTypes(Len(commits))', UNCHANGED <<commits, stream, sync>>
  PROVE  IInv'
<1> DEFINE s == [saver[p] EXCEPT !.pc = pc, !.branch = branch, !.tree = tree,
                                 !.expected = expected, !.commit = c, !.calls = @ + 1]
<1>1. saver[p] \in SaverStates /\ Len(commits) \in Nat
  BY DEF IInv, TypeOK
<1>2. saver[p].calls + 1 \in 0..MaxCalls
  BY <1>1, StoreConstants DEF Idle, SaverStates
<1>3. s \in SaverStates /\ s.pc = pc /\ s.branch = branch /\ s.commit = c
  BY <1>1, <1>2 DEF SaverStates
<1>4. TypeOK'
  BY <1>3, SaverTypes DEF IInv
<1> HIDE DEF s
<1>5. saver' = [saver EXCEPT ![p] = s]
  BY DEF s
<1> QED
  BY <1>3, <1>4, <1>5, SaverMoves

LEMMA SaverKeeps ==
  ASSUME IInv, NEW p \in Savers, Saver(p)
  PROVE  IInv'
<1> USE DEF Dirs
<1>0. /\ TypeOK /\ SaverReady(p) /\ saver[p] \in SaverStates /\ Len(commits) \in Nat
      /\ saver[p].branch \in Branches \cup {None} /\ saver[p].tree \in Seq(Rows)
      /\ saver[p].expected \in Nat \cup {None} /\ saver[p].commit \in 0..Len(commits)
      /\ StoreTypes(Len(commits))
  <2>1. TypeOK /\ SaverReady(p)
    BY DEF IInv
  <2>2. saver[p] \in SaverStates /\ Len(commits) \in Nat
    BY <2>1 DEF TypeOK
  <2> QED
    BY <2>1, <2>2 DEF SaverStates, StoreTypes, TypeOK
<1>1. ASSUME NEW branch \in Branches \cup {None}, NEW row \in Saved,
             NEW expected \in ({None} \cup Range(refs[Local])) \ {0},
             Save(p, branch, <<row>>, expected)
      PROVE  IInv'
  <2> DEFINE switches == head[Local] # None /\ branch # None /\ branch # head[Local]
             target == IF branch # None THEN branch
                       ELSE IF head[Local] # None THEN head[Local] ELSE Main
             pc == IF switches THEN "switch" ELSE "blobs"
  <2>1. pc \in {"switch", "blobs"} /\ target \in Branches
    BY <1>0, StoreConstants DEF StoreTypes
  <2>2. <<row>> \in Seq(Rows) /\ expected \in Nat \cup {None}
    BY <1>0 DEF Rows, Range, StoreTypes
  <2>3. saver' = [saver EXCEPT ![p] = [saver[p] EXCEPT !.pc = pc, !.branch = target, !.tree = <<row>>,
                     !.expected = expected, !.commit = saver[p].commit, !.calls = @ + 1]]
    BY <1>0, <1>1 DEF Save, Begins, SaverStates
  <2>4. StoreKept /\ StoreTypes(Len(commits))' /\ UNCHANGED <<commits, stream, sync>>
    BY <1>0, <1>1, StoreStill DEF Save, StoreTypes
  <2> HIDE DEF pc, target
  <2> QED
    BY <1>0, <1>1, <2>1, <2>2, <2>3, <2>4, SaverBegins DEF Save
<1>2. CASE SaveSwitch(p)
  <2>1. StoreKept /\ UNCHANGED <<commits, stream, sync>> /\ saver[p].pc # "idle"
    BY <1>2, StoreStill DEF SaveSwitch
  <2>2. StoreTypes(Len(commits))'
    BY <1>0, <1>2 DEF SaveSwitch, SaverReady, WriteHead, StoreTypes
  <2> QED
    BY <1>2, <2>1, <2>2, SaverGoes DEF SaveSwitch
<1>3. CASE SaveBlob(p)
  <2>1. PICK k \in DOMAIN saver[p].tree : WriteKey(Local, Blob(saver[p].tree[k]))
    BY <1>3 DEF SaveBlob, WriteFirstMissing
  <2>2. saver[p].tree[k] \in Rows
    BY <1>0
  <2>3. StoreKept
    BY <1>3, <2>1, StoreWithKey, KeysApart DEF SaveBlob
  <2>4. stored' \in [Dirs -> SUBSET Keys]
    BY <1>0, <2>1, <2>2, KeyAdded, KeyTypes DEF TypeOK
  <2>5. TypeOK'
    BY <1>0, <1>3, <2>4, TypesKept DEF SaveBlob, StoreTypes, TypeOK
  <2>6. \A q \in Savers : SaverReady(q)'
    BY <1>3, <2>3, SaverFrame DEF SaveBlob
  <2> QED
    BY <1>3, <2>3, <2>5, <2>6, StreamFrame, SyncFrame DEF SaveBlob, IInv, StoreKept
<1>4. CASE SaveTree(p)
  <2> DEFINE tree == saver[p].tree
             s == [saver[p] EXCEPT !.pc = "tip"]
  <2>1. WriteKey(Local, Tree(tree)) /\ UNCHANGED <<refs, head, current, commits, authors, stream, sync>>
    BY <1>4 DEF SaveTree
  <2>2. StoreKept
    BY <2>1, StoreWithKey, KeysApart
  <2>3. stored' \in [Dirs -> SUBSET Keys] /\ Tree(tree) \in stored'[Local]
    <3>1. Tree(tree) \in Keys /\ stored \in [Dirs -> SUBSET Keys] /\ Local \in Dirs
      BY <1>0, KeyTypes DEF StoreTypes
    <3>2. /\ \A d \in Dirs : stored'[d] = IF d = Local THEN stored[d] \cup {Tree(tree)} ELSE stored[d]
          /\ stored' \in [Dirs -> SUBSET Keys]
      <4> HIDE DEF Dirs, tree
      <4> QED
        BY <2>1, <3>1, KeyAdded
    <3> QED
      BY <3>1, <3>2
  <2>4. TreeIn(stored'[Local], tree)
    <3>1. stored[Local] \subseteq stored'[Local]
      BY <2>2 DEF StoreKept, Grows
    <3> QED
      BY <1>4, <2>3, <3>1 DEF SaveTree, HasBlobs, TreeIn
  <2>5. saver' = [saver EXCEPT ![p] = s] /\ s \in SaverStates
    BY <1>0, <1>4, SaverRecords DEF SaveTree
  <2>6. s.pc = "tip" /\ s.branch = saver[p].branch /\ s.tree = tree
    BY <1>0 DEF SaverStates
  <2>7. saver[p].branch \in Branches
    BY <1>0, <1>4 DEF SaveTree, SaverReady
  <2>8. StoreTypes(Len(commits))'
    BY <1>0, <2>1, <2>3 DEF StoreTypes
  <2>9. TypeOK'
    BY <1>0, <2>1, <2>5, <2>8, SaverTypes
  <2> HIDE DEF s
  <2> QED
    BY <2>1, <2>2, <2>4, <2>5, <2>6, <2>7, <2>9, SaverMoves
<1>5. CASE SaveTip(p)
  <2> DEFINE tip == refs[Local][saver[p].branch]
             s == [saver[p] EXCEPT !.pc = "commit", !.parent = tip]
  <2>1. StoreKept /\ UNCHANGED <<stored, refs, head, current, commits, stream, sync, authors>>
    BY <1>5, StoreStill DEF SaveTip
  <2>2. saver[p].branch \in Branches /\ TreeIn(stored[Local], saver[p].tree)
    BY <1>0, <1>5 DEF SaveTip, SaverReady
  <2>3. StoreTypes(Len(commits))' /\ tip \in 0..Len(commits)
    BY <1>0, <2>1, <2>2 DEF StoreTypes
  <2>4. CASE ReturnsFrom(p)
    BY <2>1, <2>3, <2>4, SaverReturns
  <2>5. CASE saver' = [saver EXCEPT ![p].pc = "commit", ![p].parent = tip]
    <3>1. saver' = [saver EXCEPT ![p] = s]
      BY <1>0, <2>5 DEF TypeOK
    <3>2. s \in SaverStates /\ s.pc = "commit" /\ s.branch = saver[p].branch /\ s.tree = saver[p].tree
      BY <1>0, <2>3 DEF SaverStates
    <3>3. TypeOK'
      BY <1>0, <2>1, <2>3, <3>1, <3>2, SaverTypes
    <3> HIDE DEF s
    <3> QED
      BY <2>1, <2>2, <3>1, <3>2, <3>3, SaverMoves
  <2> QED
    BY <1>5, <2>4, <2>5 DEF SaveTip
<1>6. CASE SaveCommit(p)
  <2> DEFINE tree == saver[p].tree
             new == Len(commits) + 1
             s == [saver[p] EXCEPT !.pc = "ref", !.commit = new]
  <2>1. /\ MakeCommit(tree, saver[p].parent) /\ UNCHANGED <<refs, head, current, stream, sync, authors>>
        /\ saver[p].parent \in 0..Len(commits)
        /\ TreeIn(stored[Local], tree) /\ saver[p].branch \in Branches
    BY <1>0, <1>6 DEF SaveCommit, SaverStates, SaverReady
  <2>2. /\ StoreKept
        /\ Commit(new) \in stored'[Local]
        /\ commits' \in Seq([tree : Seq(Rows), parent : Nat])
        /\ stored' \in [Dirs -> SUBSET Keys]
        /\ Len(commits') = new
    BY <1>0, <2>1, StoreWithCommit
  <2>3. /\ SaverStates \subseteq SaverStates' /\ stream' \in StreamStates' /\ sync' \in SyncStates'
    BY <1>0, <2>1, <2>2, TypesGrow DEF TypeOK
  <2>4. saver' = [saver EXCEPT ![p] = s]
    BY <1>0, <1>6 DEF SaveCommit, TypeOK
  <2>5. s \in SaverStates' /\ s.pc = "ref" /\ s.branch = saver[p].branch /\ s.commit = new
    <3>1. saver[p] \in SaverStates' /\ new \in 0..Len(commits')
      BY <1>0, <2>2, <2>3
    <3> QED
      BY <3>1 DEF SaverStates
  <2>6. saver' \in [Savers -> SaverStates']
    <3> HIDE DEF s
    <3> QED
      BY <1>0, <2>3, <2>4, <2>5 DEF TypeOK
  <2>7. TypeOK'
    BY <1>0, <2>1, <2>2, <2>3, <2>6, TypesGrow
  <2> HIDE DEF s
  <2> QED
    BY <2>1, <2>2, <2>4, <2>5, <2>7, SaverMoves
<1>7. CASE SaveRef(p)
  <2>1. /\ WriteRef(Local, saver[p].branch, saver[p].commit)
        /\ UNCHANGED <<stored, head, current, commits, stream, sync>>
        /\ saver[p].branch \in Branches /\ Commit(saver[p].commit) \in stored[Local]
    BY <1>0, <1>7 DEF SaveRef, SaverReady
  <2>2. StoreKept /\ refs' \in [Dirs -> [Branches -> 0..Len(commits)]]
    BY <1>0, <2>1, StoreWithRef
  <2>3. StoreTypes(Len(commits))'
    BY <1>0, <1>7, <2>1, <2>2 DEF SaveRef, StoreTypes
  <2> QED
    BY <1>7, <2>1, <2>2, <2>3, SaverGoes DEF SaveRef
<1>8. CASE SaveHead(p)
  <2>1. StoreKept /\ UNCHANGED <<commits, stream, sync>> /\ saver[p].pc # "idle"
    BY <1>8, StoreStill DEF SaveHead
  <2>2. StoreTypes(Len(commits))'
    BY <1>0, <1>8 DEF SaveHead, WriteHead, StoreTypes
  <2> QED
    BY <1>8, <2>1, <2>2, SaverGoes DEF SaveHead
<1>9. CASE SaveCurrent(p)
  <2>1. StoreKept /\ UNCHANGED <<commits, stream, sync>>
    BY <1>9, StoreStill DEF SaveCurrent
  <2>2. StoreTypes(Len(commits))'
    BY <1>0, <1>9 DEF SaveCurrent, WriteCurrent, StoreTypes
  <2> QED
    BY <1>9, <2>1, <2>2, SaverReturns DEF SaveCurrent
<1>10. ASSUME NEW name \in Branches, NEW from \in Branches \cup {None}, Branch(p, name, from)
       PROVE  IInv'
  <2> DEFINE source == IF from # None THEN from ELSE head[Local]
             c == refs[Local][source]
  <2>1. StoreKept /\ UNCHANGED <<stored, refs, head, current, commits, stream, sync, authors>>
    BY <1>10, StoreStill DEF Branch
  <2>2. source \in Branches /\ c # 0 /\ c \in 0..Len(commits)
    BY <1>0, <1>10 DEF Branch, StoreTypes
  <2>3. Commit(c) \in stored[Local]
    BY <2>2 DEF IInv, RefsStored
  <2>4. saver' = [saver EXCEPT ![p] = [saver[p] EXCEPT !.pc = "branch", !.branch = name,
                     !.tree = saver[p].tree, !.expected = saver[p].expected, !.commit = c, !.calls = @ + 1]]
    BY <1>0, <1>10 DEF Branch, Begins, SaverStates
  <2>5. StoreTypes(Len(commits))'
    BY <1>0, <2>1 DEF StoreTypes
  <2>6. Idle(p) /\ Commit(c) \in stored'[Local]
    BY <1>10, <2>1, <2>3 DEF Branch
  <2> HIDE DEF c
  <2> QED
    BY <1>0, <2>1, <2>2, <2>4, <2>5, <2>6, SaverBegins
<1>11. CASE BranchRef(p)
  <2>1. /\ WriteRef(Local, saver[p].branch, saver[p].commit)
        /\ UNCHANGED <<stored, head, current, commits, stream, sync>>
        /\ saver[p].branch \in Branches /\ Commit(saver[p].commit) \in stored[Local]
    BY <1>0, <1>11 DEF BranchRef, SaverReady
  <2>2. StoreKept /\ refs' \in [Dirs -> [Branches -> 0..Len(commits)]]
    BY <1>0, <2>1, StoreWithRef
  <2>3. StoreTypes(Len(commits))'
    BY <1>0, <1>11, <2>1, <2>2 DEF BranchRef, StoreTypes
  <2> QED
    BY <1>11, <2>1, <2>2, <2>3, SaverReturns DEF BranchRef
<1>12. ASSUME NEW branch \in Branches, Checkout(p, branch)
       PROVE  IInv'
  <2>1. StoreKept /\ UNCHANGED <<stored, refs, current, commits, stream, sync, authors>>
    BY <1>12, StoreStill DEF Checkout
  <2>2. saver' = [saver EXCEPT ![p] = [saver[p] EXCEPT !.pc = "checkout", !.branch = branch,
                     !.tree = saver[p].tree, !.expected = saver[p].expected,
                     !.commit = saver[p].commit, !.calls = @ + 1]]
    BY <1>0, <1>12 DEF Checkout, Begins, SaverStates
  <2>3. StoreTypes(Len(commits))'
    BY <1>0, <1>12 DEF Checkout, WriteHead, StoreTypes
  <2>4. refs'[Local][branch] # 0
    BY <1>12 DEF Checkout
  <2> QED
    BY <1>0, <1>12, <2>1, <2>2, <2>3, <2>4, SaverBegins DEF Checkout
<1>13. CASE CheckoutCurrent(p)
  <2> DEFINE tip == refs[Local][saver[p].branch]
  <2>1. StoreKept /\ UNCHANGED <<commits, stream, sync>>
    BY <1>13, StoreStill DEF CheckoutCurrent
  <2>2. tip \in 1..Len(commits)
    BY <1>0, <1>13 DEF CheckoutCurrent, SaverReady, StoreTypes
  <2>3. commits[tip].tree \in Seq(Rows)
    BY <1>0, <2>2, CommitTypes
  <2>4. StoreTypes(Len(commits))'
    BY <1>0, <1>13, <2>3 DEF CheckoutCurrent, WriteCurrent, StoreTypes
  <2> QED
    BY <1>13, <2>1, <2>4, SaverReturns DEF CheckoutCurrent
<1>14. CASE SaverFails(p)
  <2>1. StoreKept /\ UNCHANGED <<commits, stream, sync>> /\ StoreTypes(Len(commits))'
    BY <1>0, <1>14, StoreStill DEF SaverFails, StoreTypes
  <2> QED
    BY <1>14, <2>1, SaverReturns DEF SaverFails
<1> QED
  BY <1>1, <1>2, <1>3, <1>4, <1>5, <1>6, <1>7, <1>8, <1>9, <1>10, <1>11, <1>12, <1>13, <1>14 DEF Saver

-----------------------------------------------------------------------------
(***************************************************************************)
(* The steps of the stream.                                                *)
(***************************************************************************)

LEMMA RangeAppend ==
  ASSUME NEW S, NEW s \in Seq(S), NEW e
  PROVE  \A x \in Range(Append(s, e)) : x = e \/ x \in Range(s)
BY DEF Range

\* A step of the stream that makes no commit.
LEMMA StreamTypes ==
  ASSUME TypeOK, UNCHANGED <<commits, saver, sync>>, stream' \in StreamStates,
         StoreTypes(Len(commits))'
  PROVE  TypeOK'
<1>1. saver' \in [Savers -> SaverStates] /\ sync' \in SyncStates
  BY DEF TypeOK
<1> QED
  BY <1>1, TypesKept

LEMMA FlushedKeeps ==
  ASSUME NEW s \in StreamStates, s.pc = "idle"
  PROVE  /\ Flushed(s) \in StreamStates
         /\ Flushed(s).hashes = s.hashes
         /\ Flushed(s).pc \in {"idle", "blobs"}
<1>1. s.pending \in Seq({Preamble} \cup Results) /\ <<>> \in Seq(Results)
  BY DEF StreamStates
<1>2. CASE Range(s.pending) \subseteq Unserializable
  <2>1. Flushed(s) = [s EXCEPT !.pending = <<>>]
    BY <1>2 DEF Flushed
  <2>2. /\ [s EXCEPT !.pending = <<>>] \in StreamStates
        /\ [s EXCEPT !.pending = <<>>].hashes = s.hashes
        /\ [s EXCEPT !.pending = <<>>].pc = "idle"
    BY <1>1 DEF StreamStates
  <2> QED
    BY <2>1, <2>2
<1>3. CASE ~(Range(s.pending) \subseteq Unserializable)
  <2> DEFINE t == [s EXCEPT !.pc = "blobs", !.rows = s.pending, !.pending = <<>>]
  <2>1. Flushed(s) = t
    BY <1>3 DEF Flushed
  <2>2. t \in StreamStates /\ t.hashes = s.hashes /\ t.pc = "blobs"
    BY <1>1 DEF StreamStates
  <2> QED
    BY <2>1, <2>2
<1> QED
  BY <1>2, <1>3

\* A step of the stream that writes nothing and keeps the hashes.
LEMMA StreamStill ==
  ASSUME IInv, UNCHANGED <<stored, refs, head, current, commits, saver, sync, authors>>,
         stream' \in StreamStates, stream'.hashes = stream.hashes, stream'.pc \in {"idle", "blobs"}
  PROVE  IInv'
<1>1. StoreKept /\ TypeOK
  BY StoreStill DEF IInv
<1>2. StoreTypes(Len(commits))'
  BY <1>1, TypesKept DEF StoreTypes
<1>3. TypeOK'
  BY <1>1, <1>2, StreamTypes
<1>4. StreamReady'
  BY DEF IInv, StreamReady, HasBlobs
<1> QED
  BY <1>1, <1>3, <1>4, StreamMoves

\* A step of the stream that only writes HEAD or current.jsonl, and keeps the hashes.
LEMMA StreamWrites ==
  ASSUME IInv, UNCHANGED <<stored, refs, commits, saver, sync>>, StoreTypes(Len(commits))',
         stream' \in StreamStates, stream'.hashes = stream.hashes,
         stream'.pc \in {"idle", "blobs", "HEAD", "current"}
  PROVE  IInv'
<1>1. StoreKept /\ TypeOK
  BY StoreStill DEF IInv
<1>2. TypeOK'
  BY <1>1, StreamTypes
<1>3. StreamReady'
  BY DEF IInv, StreamReady, HasBlobs
<1> QED
  BY <1>1, <1>2, <1>3, StreamMoves

LEMMA StreamKeeps ==
  ASSUME IInv, Stream
  PROVE  IInv'
<1> USE DEF Dirs
<1>0. /\ TypeOK /\ StreamReady /\ stream \in StreamStates /\ Len(commits) \in Nat
      /\ stream.hashes \in Seq({Preamble} \cup Results)
      /\ stream.rows \in Seq({Preamble} \cup Results)
      /\ stream.pending \in Seq(Results)
      /\ stream.tip \in 0..Len(commits) /\ stream.commit \in 0..Len(commits)
      /\ {Preamble} \cup Results \subseteq Rows
      /\ StoreTypes(Len(commits))
  BY SMTT(30) DEF IInv, TypeOK, StreamStates, StoreTypes, Rows
<1>1. ASSUME NEW i \in Results, OnInterviewComplete(i)
      PROVE  IInv'
  <2> DEFINE s == [stream EXCEPT !.pending = Append(@, i), !.done = @ \cup {i}]
  <2>1. s \in StreamStates /\ s.pc = "idle" /\ s.hashes = stream.hashes
    <3>1. Append(stream.pending, i) \in Seq(Results) /\ stream.pc = "idle"
      BY <1>0, <1>1 DEF OnInterviewComplete
    <3> QED
      BY <1>0, <3>1 DEF StreamStates
  <2>2. stream' = s \/ stream' = Flushed(s)
    BY <1>1 DEF OnInterviewComplete
  <2> HIDE DEF s
  <2>3. stream' \in StreamStates /\ stream'.hashes = stream.hashes /\ stream'.pc \in {"idle", "blobs"}
    BY <2>1, <2>2, FlushedKeeps
  <2> QED
    BY <1>1, <2>3, StreamStill DEF OnInterviewComplete
<1>2. CASE Finalize
  <2> DEFINE s == [stream EXCEPT !.ended = TRUE]
  <2>1. s \in StreamStates /\ s.pc = "idle" /\ s.hashes = stream.hashes
    BY <1>0, <1>2 DEF Finalize, StreamStates
  <2>2. stream' = Flushed(s)
    BY <1>2 DEF Finalize
  <2> HIDE DEF s
  <2>3. stream' \in StreamStates /\ stream'.hashes = stream.hashes /\ stream'.pc \in {"idle", "blobs"}
    BY <2>1, <2>2, FlushedKeeps
  <2> QED
    BY <1>2, <2>3, StreamStill DEF Finalize
<1>3. CASE StreamDrop
  <2>1. Tail(stream.rows) \in Seq({Preamble} \cup Results)
    BY <1>0, <1>3 DEF StreamDrop
  <2>2. stream' \in StreamStates /\ stream'.hashes = stream.hashes /\ stream'.pc = "blobs"
    BY <1>0, <1>3, <2>1 DEF StreamDrop, StreamStates
  <2> QED
    BY <1>3, <2>2, StreamStill DEF StreamDrop
<1>4. CASE StreamBlob
  <2> DEFINE row == Head(stream.rows)
  <2>1. row \in {Preamble} \cup Results /\ Tail(stream.rows) \in Seq({Preamble} \cup Results)
    BY <1>0, <1>4 DEF StreamBlob
  <2> HIDE DEF row
  <2>2. /\ WriteKey(Local, Blob(row)) /\ stream.pc = "blobs"
        /\ stream' = [stream EXCEPT !.hashes = Append(@, row), !.rows = Tail(@)]
        /\ UNCHANGED <<refs, head, current, commits, saver, sync, authors>>
    BY <1>4 DEF StreamBlob, row
  <2>3. StoreKept
    BY <2>2, StoreWithKey, KeysApart
  <2>4. Blob(row) \in Keys /\ stored \in [Dirs -> SUBSET Keys]
    BY <1>0, <2>1, KeyTypes DEF StoreTypes
  <2>5. /\ \A d \in Dirs : stored'[d] = IF d = Local THEN stored[d] \cup {Blob(row)} ELSE stored[d]
        /\ stored' \in [Dirs -> SUBSET Keys]
    BY <2>2, <2>4, KeyAdded
  <2>6. StoreTypes(Len(commits))'
    BY <1>0, <2>2, <2>5 DEF StoreTypes
  <2>7. stream' \in StreamStates /\ stream'.hashes = Append(stream.hashes, row) /\ stream'.pc = "blobs"
    <3>1. Append(stream.hashes, row) \in Seq({Preamble} \cup Results)
      BY <1>0, <2>1
    <3>2. stream' = [stream EXCEPT !.hashes = Append(stream.hashes, row), !.rows = Tail(stream.rows)]
      BY <2>2
    <3> QED
      BY <1>0, <2>1, <2>2, <3>1, <3>2 DEF StreamStates
  <2>8. TypeOK'
    BY <1>0, <2>2, <2>6, <2>7, StreamTypes
  <2>9. StreamReady'
    <3>1. \A x \in Range(Append(stream.hashes, row)) : x = row \/ x \in Range(stream.hashes)
      BY <1>0, RangeAppend
    <3>2. \A x \in Range(Append(stream.hashes, row)) : Blob(x) \in stored'[Local]
      BY <1>0, <2>5, <3>1 DEF StreamReady, HasBlobs
    <3> QED
      BY <2>7, <3>2 DEF StreamReady, HasBlobs
  <2> QED
    BY <2>2, <2>3, <2>8, <2>9, StreamMoves
<1>5. CASE StreamTree
  <2> DEFINE tree == stream.hashes
  <2>1. tree \in Seq(Rows)
    BY <1>0
  <2> HIDE DEF tree
  <2>2. /\ WriteKey(Local, Tree(tree)) /\ stream' = [stream EXCEPT !.pc = "commit"]
        /\ UNCHANGED <<refs, head, current, commits, saver, sync, authors>>
    BY <1>5 DEF StreamTree, StreamGoes, tree
  <2>3. StoreKept
    BY <2>2, StoreWithKey, KeysApart
  <2>4. Tree(tree) \in Keys /\ stored \in [Dirs -> SUBSET Keys]
    BY <1>0, <2>1, KeyTypes DEF StoreTypes
  <2>5. /\ \A d \in Dirs : stored'[d] = IF d = Local THEN stored[d] \cup {Tree(tree)} ELSE stored[d]
        /\ stored' \in [Dirs -> SUBSET Keys]
    BY <2>2, <2>4, KeyAdded
  <2>6. StoreTypes(Len(commits))'
    BY <1>0, <2>2, <2>5 DEF StoreTypes
  <2>7. stream' \in StreamStates /\ stream'.hashes = tree /\ stream'.pc = "commit"
    BY <1>0, <2>2 DEF StreamStates, tree
  <2>8. TypeOK'
    BY <1>0, <2>2, <2>6, <2>7, StreamTypes
  <2>9. StreamReady'
    BY <1>0, <2>5, <2>7 DEF StreamReady, HasBlobs, tree
  <2> QED
    BY <2>2, <2>3, <2>8, <2>9, StreamMoves
<1>6. CASE StreamCommit
  <2> DEFINE tree == stream.hashes
             new == Len(commits) + 1
  <2>1. /\ tree \in Seq(Rows) /\ TreeIn(stored[Local], tree)
        /\ MakeCommit(tree, stream.tip) /\ UNCHANGED <<refs, head, current, saver, sync, authors>>
    BY <1>0, <1>6 DEF StreamCommit, StreamReady, HasBlobs, TreeIn
  <2>2. /\ StoreKept
        /\ Commit(new) \in stored'[Local]
        /\ commits' \in Seq([tree : Seq(Rows), parent : Nat])
        /\ stored' \in [Dirs -> SUBSET Keys]
        /\ Len(commits') = new
    BY <1>0, <2>1, StoreWithCommit
  <2>3. stream' = [stream EXCEPT !.pc = "ref", !.commit = new]
    BY <1>6 DEF StreamCommit
  <2>4. stream \in StreamStates' /\ saver' \in [Savers -> SaverStates'] /\ sync' \in SyncStates'
    BY <1>0, <2>1, <2>2, TypesGrow DEF TypeOK
  <2>5. stream' \in StreamStates' /\ stream'.pc = "ref" /\ stream'.hashes = tree /\ stream'.commit = new
    <3>1. new \in 0..Len(commits')
      BY <1>0, <2>2
    <3> QED
      BY <2>3, <2>4, <3>1 DEF StreamStates
  <2>6. TypeOK'
    BY <1>0, <2>1, <2>2, <2>4, <2>5, TypesGrow
  <2>7. StreamReady'
    <3>1. \A row \in Range(tree) : Blob(row) \in stored'[Local]
      BY <2>1, <2>2 DEF StoreKept, Grows, TreeIn
    <3> QED
      BY <2>2, <2>5, <3>1 DEF StreamReady, HasBlobs
  <2> QED
    BY <2>1, <2>2, <2>6, <2>7, StreamMoves
<1>7. CASE StreamRef
  <2>1. /\ WriteRef(Local, Main, stream.commit) /\ Commit(stream.commit) \in stored[Local]
        /\ stream' = [stream EXCEPT !.pc = "HEAD"]
        /\ UNCHANGED <<stored, head, current, commits, saver, sync>>
    BY <1>0, <1>7 DEF StreamRef, StreamGoes, StreamReady
  <2>2. StoreKept /\ refs' \in [Dirs -> [Branches -> 0..Len(commits)]]
    BY <1>0, <2>1, StoreWithRef, StoreConstants
  <2>3. StoreTypes(Len(commits))'
    BY <1>0, <1>7, <2>1, <2>2, StoreConstants DEF StreamRef, StoreTypes
  <2>4. stream' \in StreamStates /\ stream'.pc = "HEAD" /\ stream'.hashes = stream.hashes
    BY <1>0, <2>1 DEF StreamStates
  <2>5. TypeOK'
    BY <1>0, <2>1, <2>3, <2>4, StreamTypes
  <2>6. StreamReady'
    BY <1>0, <2>1, <2>4 DEF StreamReady, HasBlobs
  <2> QED
    BY <2>1, <2>2, <2>5, <2>6, StreamMoves
<1>8. CASE StreamHead
  <2>1. StoreTypes(Len(commits))'
    BY <1>0, <1>8, StoreConstants DEF StreamHead, WriteHead, StoreTypes
  <2>2. stream' \in StreamStates /\ stream'.pc = "current" /\ stream'.hashes = stream.hashes
    BY <1>0, <1>8 DEF StreamHead, StreamGoes, StreamStates
  <2> QED
    BY <1>8, <2>1, <2>2, StreamWrites DEF StreamHead
<1>9. CASE StreamCurrent
  <2>1. stream.hashes \in Seq(Rows)
    BY <1>0
  <2>2. StoreTypes(Len(commits))'
    BY <1>0, <1>9, <2>1 DEF StreamCurrent, WriteCurrent, StoreTypes
  <2>3. stream' \in StreamStates /\ stream'.pc = "idle" /\ stream'.hashes = stream.hashes
    <3>1. stream' = [stream EXCEPT !.pc = "idle", !.tip = stream.commit, !.commit = 0]
      BY <1>9 DEF StreamCurrent
    <3>2. 0 \in 0..Len(commits)
      BY <1>0
    <3> QED
      BY <1>0, <3>1, <3>2 DEF StreamStates
  <2> QED
    BY <1>9, <2>2, <2>3, StreamWrites DEF StreamCurrent
<1>10. CASE StreamFails
  <2>1. stream' \in StreamStates /\ stream'.pc = "idle" /\ stream'.hashes = stream.hashes
    <3>1. stream' = [stream EXCEPT !.pc = "idle", !.rows = <<>>, !.commit = 0, !.broken = TRUE]
      BY <1>10 DEF StreamFails
    <3>2. 0 \in 0..Len(commits) /\ <<>> \in Seq({Preamble} \cup Results)
      BY <1>0
    <3> QED
      BY <1>0, <3>1, <3>2 DEF StreamStates
  <2> QED
    BY <1>10, <2>1, StreamStill DEF StreamFails
<1> QED
  BY <1>1, <1>2, <1>3, <1>4, <1>5, <1>6, <1>7, <1>8, <1>9, <1>10 DEF Stream

-----------------------------------------------------------------------------
(***************************************************************************)
(* The steps of the sync.                                                  *)
(***************************************************************************)

\* A step of the sync makes no commit.
LEMMA SyncTypes ==
  ASSUME TypeOK, UNCHANGED <<commits, saver, stream>>, sync' \in SyncStates, StoreTypes(Len(commits))'
  PROVE  TypeOK'
<1>1. saver' \in [Savers -> SaverStates] /\ stream' \in StreamStates
  BY DEF TypeOK
<1> QED
  BY <1>1, TypesKept

LEMMA SyncRecords ==
  ASSUME TypeOK
  PROVE  /\ \A pc \in {"blobs", "HEAD", "current"} :
              SyncGoes(pc) => /\ sync' \in SyncStates /\ sync'.pc = pc
                              /\ sync'.branch = sync.branch /\ sync'.tip = sync.tip
                              /\ sync'.at = sync.at
         /\ \A broken \in BOOLEAN : SyncEnds(broken) => sync' \in SyncStates /\ sync'.pc = "idle"
<1>1. sync \in SyncStates /\ Len(commits) \in Nat
  BY DEF TypeOK
<1>2. ASSUME NEW pc \in {"blobs", "HEAD", "current"}, SyncGoes(pc)
      PROVE  /\ sync' \in SyncStates /\ sync'.pc = pc
             /\ sync'.branch = sync.branch /\ sync'.tip = sync.tip /\ sync'.at = sync.at
  BY <1>1, <1>2 DEF SyncGoes, SyncStates
<1>3. ASSUME NEW broken \in BOOLEAN, SyncEnds(broken)
      PROVE  sync' \in SyncStates /\ sync'.pc = "idle"
  <2>1. SyncIdle \in SyncStates /\ SyncIdle.pc = "idle"
    BY <1>1, StoreConstants DEF SyncIdle, SyncStates
  <2>2. \A s \in SyncStates, n \in 0..MaxSyncs :
          /\ [s EXCEPT !.count = n, !.broken = broken] \in SyncStates
          /\ [s EXCEPT !.count = n, !.broken = broken].pc = s.pc
    BY DEF SyncStates
  <2>3. sync.count \in 0..MaxSyncs
    BY <1>1 DEF SyncStates
  <2> QED
    BY <1>3, <2>1, <2>2, <2>3 DEF SyncEnds
<1> QED
  BY <1>2, <1>3

LEMMA SyncKeeps ==
  ASSUME IInv, Sync
  PROVE  IInv'
<1> USE DEF Dirs
<1>0. /\ TypeOK /\ SyncReady /\ sync \in SyncStates /\ Len(commits) \in Nat
      /\ sync.branch \in Branches \cup {None} /\ sync.count \in 0..MaxSyncs /\ sync.broken \in BOOLEAN
      /\ sync.tip \in 0..Len(commits) /\ sync.at \in 0..Len(commits)
      /\ StoreTypes(Len(commits))
  BY SMTT(30) DEF IInv, TypeOK, SyncStates, StoreTypes
<1>1. ASSUME NEW asked \in Branches \cup {None}, StartSync(asked)
      PROVE  IInv'
  <2> DEFINE branch == IF asked # None THEN asked ELSE head[Local]
             c == refs[Local][branch]
  <2>1. /\ branch \in Branches /\ c # 0 /\ c \in 0..Len(commits)
        /\ UNCHANGED <<stored, refs, head, current, commits, saver, stream, authors>>
    BY <1>0, <1>1 DEF StartSync, StoreTypes
  <2>2. sync' = [sync EXCEPT !.pc = "next", !.branch = branch, !.tip = c, !.at = c,
                             !.count = sync.count + 1]
    BY <1>1 DEF StartSync
  <2>3. sync.count + 1 \in 0..MaxSyncs
    BY <1>0, <1>1, StoreConstants DEF StartSync
  <2> HIDE DEF branch, c
  <2>4. /\ sync' \in SyncStates /\ sync'.pc = "next" /\ sync'.branch = branch
        /\ sync'.tip = c /\ sync'.at = c
    BY <1>0, <2>1, <2>2, <2>3 DEF SyncStates
  <2>5. StoreKept /\ StoreTypes(Len(commits))'
    BY <1>0, <2>1, StoreStill DEF StoreTypes
  <2>6. TypeOK'
    BY <1>0, <2>1, <2>4, <2>5, SyncTypes
  <2>7. SyncReady'
    BY <2>1, <2>4 DEF SyncReady
  <2> QED
    BY <2>1, <2>5, <2>6, <2>7, SyncMoves
<1>2. CASE SyncTree
  <2> DEFINE tree == commits[sync.at].tree
  <2>1. sync.at \in 1..Len(commits) /\ sync.pc = "next"
    BY <1>0, <1>2 DEF SyncTree, Copied
  <2>2. tree \in Seq(Rows)
    BY <1>0, <2>1, CommitTypes
  <2>3. /\ WriteKey(Remote, Tree(tree)) /\ SyncGoes("blobs")
        /\ UNCHANGED <<refs, head, current, commits, saver, stream, authors>>
    BY <1>2 DEF SyncTree
  <2> HIDE DEF tree
  <2>4. StoreKept
    BY <2>3, StoreWithKey, KeysApart
  <2>5. Tree(tree) \in Keys /\ stored \in [Dirs -> SUBSET Keys]
    BY <1>0, <2>2, KeyTypes DEF StoreTypes
  <2>6. /\ \A d \in Dirs : stored'[d] = IF d = Remote THEN stored[d] \cup {Tree(tree)} ELSE stored[d]
        /\ stored' \in [Dirs -> SUBSET Keys]
    BY <2>3, <2>5, KeyAdded
  <2>7. StoreTypes(Len(commits))'
    BY <1>0, <2>3, <2>6 DEF StoreTypes
  <2>8. /\ sync' \in SyncStates /\ sync'.pc = "blobs" /\ sync'.branch = sync.branch
        /\ sync'.tip = sync.tip /\ sync'.at = sync.at
    BY <1>0, <2>3, SyncRecords
  <2>9. TypeOK'
    BY <1>0, <2>3, <2>7, <2>8, SyncTypes
  <2>10. SyncReady'
    BY <1>0, <2>1, <2>3, <2>6, <2>8 DEF SyncReady, tree
  <2> QED
    BY <2>3, <2>4, <2>9, <2>10, SyncMoves
<1>3. CASE SyncBlob
  <2> DEFINE tree == commits[sync.at].tree
  <2>1. sync.at \in 1..Len(commits) /\ sync.pc = "blobs"
    BY <1>0, <1>3 DEF SyncBlob, SyncReady
  <2>2. tree \in Seq(Rows)
    BY <1>0, <2>1, CommitTypes
  <2>3. UNCHANGED <<refs, head, current, commits, saver, stream, sync, authors>>
    BY <1>3 DEF SyncBlob
  <2>4. PICK k \in DOMAIN tree : WriteKey(Remote, Blob(tree[k]))
    BY <1>3 DEF SyncBlob, WriteFirstMissing
  <2> HIDE DEF tree
  <2>5. Blob(tree[k]) \in Keys /\ stored \in [Dirs -> SUBSET Keys]
    BY <1>0, <2>2, <2>4, KeyTypes DEF StoreTypes
  <2>6. StoreKept
    BY <2>3, <2>4, StoreWithKey, KeysApart
  <2>7. stored' \in [Dirs -> SUBSET Keys]
    BY <2>4, <2>5, KeyAdded
  <2>8. StoreTypes(Len(commits))'
    BY <1>0, <2>3, <2>7 DEF StoreTypes
  <2>9. TypeOK' /\ SyncReady'
    BY <1>0, <2>3, <2>6, <2>8, SyncTypes, SyncFrame
  <2> QED
    BY <2>3, <2>6, <2>9, SyncMoves
<1>4. CASE SyncCommit
  <2> DEFINE c == sync.at
  <2>1. /\ c \in 1..Len(commits) /\ sync.pc = "blobs" /\ sync.branch \in Branches
        /\ sync.tip # 0 /\ (c = sync.tip \/ Commit(sync.tip) \in stored[Remote])
        /\ TreeIn(stored[Remote], commits[c].tree)
    BY <1>0, <1>4 DEF SyncCommit, SyncReady, HasBlobs, TreeIn
  <2>2. /\ WriteKey(Remote, Commit(c)) /\ sync' = [sync EXCEPT !.pc = "next", !.at = commits[c].parent]
        /\ UNCHANGED <<refs, head, current, commits, saver, stream, authors>>
    BY <1>4 DEF SyncCommit
  <2>3. commits[c].parent \in 0..Len(commits)
    BY <1>0, <2>1, CommitTypes DEF IInv, ParentsBefore
  <2> HIDE DEF c
  <2>4. StoreKept /\ Commit(c) \in stored'[Remote]
    BY <2>1, <2>2, StoreWithCopy
  <2>5. Commit(c) \in Keys /\ stored \in [Dirs -> SUBSET Keys]
    BY <1>0, <2>1, KeyTypes DEF StoreTypes
  <2>6. /\ \A d \in Dirs : stored'[d] = IF d = Remote THEN stored[d] \cup {Commit(c)} ELSE stored[d]
        /\ stored' \in [Dirs -> SUBSET Keys]
    BY <2>2, <2>5, KeyAdded
  <2>7. StoreTypes(Len(commits))'
    BY <1>0, <2>2, <2>6 DEF StoreTypes
  <2>8. sync' \in SyncStates /\ sync'.pc = "next" /\ sync'.branch = sync.branch /\ sync'.tip = sync.tip
    BY <1>0, <2>2, <2>3 DEF SyncStates
  <2>9. TypeOK'
    BY <1>0, <2>2, <2>7, <2>8, SyncTypes
  <2>10. Commit(sync.tip) \in stored'[Remote]
    BY <2>1, <2>4, <2>6
  <2>11. SyncReady'
    BY <2>1, <2>8, <2>10 DEF SyncReady
  <2> QED
    BY <2>2, <2>4, <2>9, <2>11, SyncMoves
<1>5. CASE SyncRef
  <2>1. /\ WriteRef(Remote, sync.branch, sync.tip) /\ SyncGoes("HEAD")
        /\ UNCHANGED <<stored, head, current, commits, saver, stream, authors>>
        /\ sync.branch \in Branches /\ sync.tip # 0
    BY <1>0, <1>5 DEF SyncRef, SyncReady
  <2>2. Commit(sync.tip) \in stored[Remote]
    BY <1>0, <1>5 DEF SyncRef, SyncReady, Copied
  <2>3. StoreKept /\ refs' \in [Dirs -> [Branches -> 0..Len(commits)]]
    BY <1>0, <2>1, <2>2, StoreWithRef
  <2>4. StoreTypes(Len(commits))'
    BY <1>0, <2>1, <2>3 DEF StoreTypes
  <2>5. sync' \in SyncStates /\ sync'.pc = "HEAD" /\ sync'.branch = sync.branch /\ sync'.tip = sync.tip
    BY <1>0, <2>1, SyncRecords
  <2>6. TypeOK'
    BY <1>0, <2>1, <2>4, <2>5, SyncTypes
  <2>7. SyncReady'
    BY <2>1, <2>5 DEF SyncReady
  <2> QED
    BY <2>1, <2>3, <2>6, <2>7, SyncMoves
<1>6. CASE SyncHead
  <2>1. /\ SyncGoes("current") /\ UNCHANGED <<stored, refs, current, commits, saver, stream, authors>>
        /\ sync.branch \in Branches /\ sync.tip # 0
    BY <1>0, <1>6 DEF SyncHead, SyncReady
  <2>2. StoreKept
    BY <2>1, StoreStill
  <2>3. StoreTypes(Len(commits))'
    BY <1>0, <1>6, <2>1 DEF SyncHead, WriteHead, StoreTypes
  <2>4. sync' \in SyncStates /\ sync'.pc = "current" /\ sync'.branch = sync.branch /\ sync'.tip = sync.tip
    BY <1>0, <2>1, SyncRecords
  <2>5. TypeOK'
    BY <1>0, <2>1, <2>3, <2>4, SyncTypes
  <2>6. SyncReady'
    BY <2>1, <2>4 DEF SyncReady
  <2> QED
    BY <2>1, <2>2, <2>5, <2>6, SyncMoves
<1>7. CASE SyncCurrent
  <2>1. /\ UNCHANGED <<stored, refs, head, commits, saver, stream, authors>>
        /\ SyncEnds(sync.broken) /\ sync.tip \in 1..Len(commits)
    BY <1>0, <1>7 DEF SyncCurrent, SyncReady
  <2>2. commits[sync.tip].tree \in Seq(Rows)
    BY <1>0, <2>1, CommitTypes
  <2>3. StoreKept
    BY <2>1, StoreStill
  <2>4. StoreTypes(Len(commits))'
    BY <1>0, <1>7, <2>1, <2>2 DEF SyncCurrent, WriteCurrent, StoreTypes
  <2>5. sync' \in SyncStates /\ sync'.pc = "idle"
    BY <1>0, <2>1, SyncRecords
  <2>6. TypeOK' /\ SyncReady'
    BY <1>0, <2>1, <2>4, <2>5, SyncTypes DEF SyncReady
  <2> QED
    BY <2>1, <2>3, <2>6, SyncMoves
<1>8. CASE SyncFails
  <2>1. UNCHANGED <<stored, refs, head, current, commits, saver, stream, authors>> /\ SyncEnds(TRUE)
    BY <1>8 DEF SyncFails
  <2>2. StoreKept /\ StoreTypes(Len(commits))'
    BY <1>0, <2>1, StoreStill DEF StoreTypes
  <2>3. sync' \in SyncStates /\ sync'.pc = "idle"
    BY <1>0, <2>1, SyncRecords
  <2>4. TypeOK' /\ SyncReady'
    BY <1>0, <2>1, <2>2, <2>3, SyncTypes DEF SyncReady
  <2> QED
    BY <2>1, <2>2, <2>4, SyncMoves
<1> QED
  BY <1>1, <1>2, <1>3, <1>4, <1>5, <1>6, <1>7, <1>8 DEF Sync

-----------------------------------------------------------------------------
(***************************************************************************)
(* The theorems.                                                           *)
(***************************************************************************)

LEMMA NextIInv == IInv /\ [Next]_vars => IInv'
<1> SUFFICES ASSUME IInv, [Next]_vars PROVE IInv'
  OBVIOUS
<1>1. CASE UNCHANGED vars
  <2>1. StoreKept /\ UNCHANGED <<commits, saver, stream, sync>> /\ TypeOK
    BY <1>1, StoreStill DEF vars, IInv
  <2>2. TypeOK'
    BY <1>1, <2>1, TypesKept DEF vars, StoreTypes, TypeOK
  <2>3. StreamReady'
    BY <2>1, StreamFrame
  <2> QED
    BY <2>1, <2>2, <2>3, StreamMoves
<1> QED
  BY <1>1, SaverKeeps, StreamKeeps, SyncKeeps DEF Next

\* The variables have their types, whatever the constants are: no sequence of calls,
\* errors and syncs leads save, a flush or sync to a commit that was not made or to a
\* branch that has no name.
THEOREM StoreTypeCorrect == Spec => []TypeOK
<1>1. IInv => TypeOK
  BY DEF IInv
<1> QED
  BY <1>1, InitIInv, NextIInv, PTL DEF Spec

\* Whatever save, branch, checkout, a flush or sync was cut short, and wherever, the
\* commit a branch names, its tree and its rows are stored: load never finds a key missing.
THEOREM RefsLoadCorrect == Spec => []RefsLoad
<1>1. IInv => RefsLoad
  BY DEF IInv, RefsStored, CommitsLoad, RefsLoad, TypeOK
<1> QED
  BY <1>1, InitIInv, NextIInv, PTL DEF Spec

-----------------------------------------------------------------------------
(***************************************************************************)
(* Histories.  A commit's parent was made before it, so that the commits   *)
(* before one are well defined, and the same however many are made later.  *)
(***************************************************************************)

Less == {p \in Nat \X Nat : p[1] < p[2]}

LEMMA LessWellFounded == IsWellFoundedOn(Less, Nat)
<1>1. Less = OpToRel(<, Nat)
  BY DEF Less, OpToRel
<1> QED
  BY <1>1, NatLessThanWellFounded

\* A set of numbers that is not empty has a least one: what holds of a number if it
\* holds of those below it holds of all.
LEMMA Least ==
  ASSUME NEW T \in SUBSET Nat, T # {}
  PROVE  \E x \in T : \A y \in Nat : y < x => y \notin T
<1>1. PICK x \in T : \A y \in T : <<y, x>> \notin Less
  BY LessWellFounded, WFMin
<1>2. \A y \in Nat : y < x => <<y, x>> \in Less
  <2> SUFFICES ASSUME NEW y \in Nat, y < x
               PROVE  <<y, x>> \in Less
    OBVIOUS
  <2> QED
    BY DEF Less
<1> QED
  BY <1>1, <1>2

\* Commits as they can be made.
Made(made) ==
  /\ Len(made) \in Nat
  /\ \A c \in 1..Len(made) : made[c].parent \in Nat /\ made[c].parent < c

\* f gives each commit up to n, and what is before it.
Lineage(f, made, n) ==
  f = [a \in 0..n |-> IF a = 0 THEN {} ELSE {a} \cup f[made[a].parent]]

LEMMA LineageExists ==
  ASSUME NEW made, Made(made), NEW n \in 0..Len(made)
  PROVE  \E f : Lineage(f, made, n)
<1> DEFINE T == {m \in 0..Len(made) : ~\E f : Lineage(f, made, m)}
<1> SUFFICES ASSUME T # {} PROVE FALSE
  OBVIOUS
<1>0. Len(made) \in Nat /\ T \in SUBSET Nat
  BY DEF Made
<1>1. PICK m \in T : \A k \in Nat : k < m => k \notin T
  BY <1>0, Least
<1>2. m # 0
  <2> SUFFICES \E f : Lineage(f, made, 0)
    OBVIOUS
  <2> DEFINE f == [a \in 0..0 |-> {}]
  <2>1. \A a \in 0..0 : a = 0
    OBVIOUS
  <2>2. f = [a \in 0..0 |-> IF a = 0 THEN {} ELSE {a} \cup f[made[a].parent]]
    BY <2>1
  <2> QED
    BY <2>2 DEF Lineage
<1>3. m \in 1..Len(made) /\ m - 1 \in Nat /\ m - 1 < m /\ m - 1 \in 0..Len(made)
  BY <1>0, <1>2
<1>4. PICK f : Lineage(f, made, m - 1)
  <2>1. m - 1 \notin T
    BY <1>1, <1>3
  <2> QED
    BY <1>3, <2>1
<1> DEFINE g == [a \in 0..m |-> IF a = m THEN {m} \cup f[made[m].parent] ELSE f[a]]
<1>5. /\ f = [a \in 0..m - 1 |-> IF a = 0 THEN {} ELSE {a} \cup f[made[a].parent]]
      /\ g = [a \in 0..m |-> g[a]]
  BY <1>4 DEF Lineage
<1>6. \A a \in 0..m : g[a] = IF a = 0 THEN {} ELSE {a} \cup g[made[a].parent]
  <2> SUFFICES ASSUME NEW a \in 0..m
               PROVE  g[a] = IF a = 0 THEN {} ELSE {a} \cup g[made[a].parent]
    OBVIOUS
  <2>1. CASE a = 0
    <3>1. 0 \in 0..m - 1 /\ 0 \in 0..m
      BY <1>3
    <3>2. g[0] = f[0] /\ f[0] = {}
      BY <1>2, <1>5, <3>1
    <3> QED
      BY <2>1, <3>2
  <2>2. CASE a # 0
    <3>1. a \in 1..Len(made) /\ a \in 0..m
      BY <1>0, <1>3, <2>2
    <3>2. made[a].parent \in Nat /\ made[a].parent < a
      BY <3>1 DEF Made
    <3>3. made[a].parent \in 0..m /\ made[a].parent # m
      BY <1>3, <3>1, <3>2
    <3>4. g[made[a].parent] = f[made[a].parent]
      BY <3>3
    <3>5. CASE a = m
      BY <2>2, <3>1, <3>4, <3>5
    <3>6. CASE a # m
      <4>1. a \in 0..m - 1
        BY <1>3, <3>1, <3>6
      <4>2. f[a] = {a} \cup f[made[a].parent]
        BY <1>5, <2>2, <4>1
      <4>3. g[a] = f[a]
        BY <3>1, <3>6
      <4> QED
        BY <2>2, <3>4, <4>2, <4>3
    <3> QED
      BY <3>5, <3>6
  <2> QED
    BY <2>1, <2>2
<1> HIDE DEF g
<1>7. Lineage(g, made, m)
  BY <1>5, <1>6 DEF Lineage
<1>8. m \in T
  OBVIOUS
<1> QED
  BY <1>7, <1>8

\* A commit is in its own history, and the rest of it is its parent's.
LEMMA AncestorsAre ==
  ASSUME NEW made, Made(made)
  PROVE  /\ Ancestors(made, 0) = {}
         /\ \A c \in 1..Len(made) :
              Ancestors(made, c) = {c} \cup Ancestors(made, made[c].parent)
<1> DEFINE f == CHOOSE f : Lineage(f, made, Len(made))
<1>0. Len(made) \in Nat /\ Len(made) \in 0..Len(made)
  BY DEF Made
<1>1. Lineage(f, made, Len(made))
  BY <1>0, LineageExists
<1>2. \A c : Ancestors(made, c) = f[c]
  BY DEF Ancestors, Lineage
<1> HIDE DEF f
<1>3. \A a \in 0..Len(made) : f[a] = IF a = 0 THEN {} ELSE {a} \cup f[made[a].parent]
  BY <1>1 DEF Lineage
<1>4. f[0] = {}
  <2>1. 0 \in 0..Len(made)
    BY <1>0
  <2>2. f[0] = IF 0 = 0 THEN {} ELSE {0} \cup f[made[0].parent]
    BY <1>3, <2>1
  <2> QED
    BY <2>2
<1>5. ASSUME NEW c \in 1..Len(made)
      PROVE  Ancestors(made, c) = {c} \cup Ancestors(made, made[c].parent)
  <2>1. c \in 0..Len(made) /\ c # 0
    BY <1>0
  <2>2. f[c] = {c} \cup f[made[c].parent]
    BY <1>3, <2>1
  <2> QED
    BY <1>2, <2>2
<1> QED
  BY <1>2, <1>4, <1>5

\* What is closed under parents has the history of each of its commits.
LEMMA ClosedHistory ==
  ASSUME NEW made, Made(made), NEW S \in SUBSET (1..Len(made)),
         \A c \in S : made[c].parent # 0 => made[c].parent \in S
  PROVE  \A c \in S : Ancestors(made, c) \subseteq S
<1> DEFINE T == {c \in S : ~(Ancestors(made, c) \subseteq S)}
<1> SUFFICES ASSUME T # {} PROVE FALSE
  OBVIOUS
<1>0. Len(made) \in Nat /\ T \in SUBSET Nat
  BY DEF Made
<1>1. PICK c \in T : \A k \in Nat : k < c => k \notin T
  BY <1>0, Least
<1>2. c \in 1..Len(made) /\ c \in S /\ made[c].parent \in Nat /\ made[c].parent < c
  BY DEF Made
<1>3. Ancestors(made, made[c].parent) \subseteq S
  <2>1. CASE made[c].parent = 0
    BY <2>1, AncestorsAre
  <2>2. CASE made[c].parent # 0
    <3>1. made[c].parent \in S /\ made[c].parent \notin T
      BY <1>1, <1>2, <2>2
    <3> QED
      BY <3>1
  <2> QED
    BY <2>1, <2>2
<1>4. Ancestors(made, c) \subseteq S
  BY <1>2, <1>3, AncestorsAre
<1> QED
  BY <1>4

\* Histories do not change as commits are made.
LEMMA HistoryStays ==
  ASSUME NEW made, NEW more, Made(made), Made(more), Len(made) <= Len(more),
         \A c \in 1..Len(made) : more[c] = made[c]
  PROVE  \A c \in 0..Len(made) : Ancestors(more, c) = Ancestors(made, c)
<1> DEFINE T == {c \in 0..Len(made) : Ancestors(more, c) # Ancestors(made, c)}
<1> SUFFICES ASSUME T # {} PROVE FALSE
  OBVIOUS
<1>0. Len(made) \in Nat /\ Len(more) \in Nat /\ T \in SUBSET Nat
  BY DEF Made
<1>1. PICK c \in T : \A k \in Nat : k < c => k \notin T
  BY <1>0, Least
<1>2. c # 0
  BY AncestorsAre
<1>3. c \in 1..Len(made) /\ c \in 1..Len(more)
  BY <1>0, <1>2
<1>4. more[c] = made[c] /\ made[c].parent \in Nat /\ made[c].parent < c
  BY <1>3 DEF Made
<1>5. made[c].parent \in 0..Len(made) /\ made[c].parent \notin T
  BY <1>0, <1>1, <1>3, <1>4
<1>6. Ancestors(more, made[c].parent) = Ancestors(made, made[c].parent)
  BY <1>5
<1>7. Ancestors(more, c) = {c} \cup Ancestors(more, more[c].parent)
  BY <1>3, AncestorsAre
<1>8. Ancestors(made, c) = {c} \cup Ancestors(made, made[c].parent)
  BY <1>3, AncestorsAre
<1>9. Ancestors(more, c) = Ancestors(made, c)
  BY <1>4, <1>6, <1>7, <1>8
<1> QED
  BY <1>9

-----------------------------------------------------------------------------
(***************************************************************************)
(* What each caller leaves alone.                                          *)
(***************************************************************************)

LEMMA LocalWrites ==
  ASSUME IInv
  PROVE  /\ \A key : WriteKey(Local, key) => /\ stored'[Remote] = stored[Remote]
                                             /\ stored'[Local] = stored[Local] \cup {key}
         /\ \A key : WriteKey(Remote, key) => /\ stored'[Local] = stored[Local]
                                              /\ stored'[Remote] = stored[Remote] \cup {key}
         /\ \A b \in Branches : \A c :
              /\ WriteRef(Local, b, c) => /\ refs'[Remote] = refs[Remote]
                                          /\ refs'[Local] = [refs[Local] EXCEPT ![b] = c]
              /\ WriteRef(Remote, b, c) => /\ refs'[Local] = refs[Local]
                                           /\ refs'[Remote] = [refs[Remote] EXCEPT ![b] = c]
<1>1. /\ stored \in [Dirs -> SUBSET Keys] /\ refs \in [Dirs -> [Branches -> 0..Len(commits)]]
      /\ Local \in Dirs /\ Remote \in Dirs /\ Local # Remote
  BY StoreConstants DEF IInv, TypeOK, Dirs
<1> QED
  BY <1>1 DEF WriteKey, WriteRef

\* At most one more commit.
OneCommit ==
  \/ UNCHANGED commits /\ stored[Local] \subseteq stored'[Local]
  \/ \E tree, parent : MakeCommit(tree, parent)

\* p writes the branch its call is about.
WritesRef(p, branch, c) ==
  /\ refs'[Local] = [refs[Local] EXCEPT ![branch] = c]
  /\ authors' = [authors EXCEPT ![branch] = @ \cup {p}]
  /\ UNCHANGED <<commits, stored>>

LEMMA SaverEffects ==
  ASSUME IInv, NEW p \in Savers, Saver(p)
  PROVE  /\ UNCHANGED <<stream, sync>>
         /\ \A q \in Savers : q # p => saver'[q] = saver[q]
         /\ stored'[Remote] = stored[Remote] /\ refs'[Remote] = refs[Remote]
         /\ OneCommit
         /\ \/ UNCHANGED <<refs, authors>>
            \/ /\ saver[p].pc \in {"ref", "branch"} /\ saver[p].branch \in Branches
               /\ WritesRef(p, saver[p].branch, saver[p].commit)
<1>0. /\ saver \in [Savers -> SaverStates]
      /\ saver[p].pc # "idle" => saver[p].branch \in Branches
  BY DEF IInv, TypeOK, SaverReady
<1>1. /\ UNCHANGED <<stream, sync>>
      /\ \A q \in Savers : q # p => saver'[q] = saver[q]
  BY <1>0 DEF Saver, Save, SaveSwitch, SaveBlob, SaveTree, SaveTip, SaveCommit, SaveRef, SaveHead,
     SaveCurrent, Branch, BranchRef, Checkout, CheckoutCurrent, SaverFails, Goes, Begins, ReturnsFrom
<1>2. CASE UNCHANGED <<stored, refs, commits, authors>>
  BY <1>1, <1>2 DEF OneCommit
<1>3. CASE SaveBlob(p)
  <2>1. \E k \in DOMAIN saver[p].tree : WriteKey(Local, Blob(saver[p].tree[k]))
    BY <1>3 DEF SaveBlob, WriteFirstMissing
  <2>2. stored'[Remote] = stored[Remote] /\ stored[Local] \subseteq stored'[Local]
    BY <2>1, LocalWrites
  <2> QED
    BY <1>1, <1>3, <2>2 DEF SaveBlob, OneCommit
<1>4. CASE SaveTree(p)
  <2>1. stored'[Remote] = stored[Remote] /\ stored[Local] \subseteq stored'[Local]
    BY <1>4, LocalWrites DEF SaveTree
  <2> QED
    BY <1>1, <1>4, <2>1 DEF SaveTree, OneCommit
<1>5. CASE SaveCommit(p)
  <2>1. MakeCommit(saver[p].tree, saver[p].parent) /\ UNCHANGED <<refs, authors>>
    BY <1>5 DEF SaveCommit
  <2>2. stored'[Remote] = stored[Remote]
    BY <2>1, LocalWrites DEF MakeCommit
  <2> QED
    BY <1>1, <2>1, <2>2 DEF OneCommit
<1>6. CASE SaveRef(p) \/ BranchRef(p)
  <2>1. /\ saver[p].pc \in {"ref", "branch"} /\ saver[p].branch \in Branches
        /\ WriteRef(Local, saver[p].branch, saver[p].commit)
        /\ authors' = [authors EXCEPT ![saver[p].branch] = @ \cup {p}]
        /\ UNCHANGED <<stored, commits>>
    BY <1>0, <1>6 DEF SaveRef, BranchRef
  <2>2. /\ refs'[Remote] = refs[Remote]
        /\ refs'[Local] = [refs[Local] EXCEPT ![saver[p].branch] = saver[p].commit]
    BY <2>1, LocalWrites
  <2> QED
    BY <1>1, <2>1, <2>2 DEF WritesRef, OneCommit
<1>7. \/ UNCHANGED <<stored, refs, commits, authors>>
      \/ SaveBlob(p) \/ SaveTree(p) \/ SaveCommit(p) \/ SaveRef(p) \/ BranchRef(p)
  BY DEF Saver, Save, SaveSwitch, SaveTip, SaveHead, SaveCurrent, Branch, Checkout,
     CheckoutCurrent, SaverFails
<1> QED
  BY <1>2, <1>3, <1>4, <1>5, <1>6, <1>7

LEMMA StreamEffects ==
  ASSUME IInv, Stream
  PROVE  /\ UNCHANGED <<saver, sync>>
         /\ stored'[Remote] = stored[Remote] /\ refs'[Remote] = refs[Remote]
         /\ OneCommit
         /\ \/ UNCHANGED <<refs, authors>>
            \/ stream.pc = "ref" /\ WritesRef("stream", Main, stream.commit)
<1>1. UNCHANGED <<saver, sync>>
  BY DEF Stream, OnInterviewComplete, Finalize, StreamDrop, StreamBlob, StreamTree, StreamCommit,
     StreamRef, StreamHead, StreamCurrent, StreamFails
<1>2. CASE UNCHANGED <<stored, refs, commits, authors>>
  BY <1>1, <1>2 DEF OneCommit
<1>3. CASE StreamBlob \/ StreamTree
  <2>1. \E key : WriteKey(Local, key)
    BY <1>3 DEF StreamBlob, StreamTree
  <2>2. stored'[Remote] = stored[Remote] /\ stored[Local] \subseteq stored'[Local]
    BY <2>1, LocalWrites
  <2> QED
    BY <1>1, <1>3, <2>2 DEF StreamBlob, StreamTree, OneCommit
<1>4. CASE StreamCommit
  <2>1. MakeCommit(stream.hashes, stream.tip) /\ UNCHANGED <<refs, authors>>
    BY <1>4 DEF StreamCommit
  <2>2. stored'[Remote] = stored[Remote]
    BY <2>1, LocalWrites DEF MakeCommit
  <2> QED
    BY <1>1, <2>1, <2>2 DEF OneCommit
<1>5. CASE StreamRef
  <2>1. /\ stream.pc = "ref" /\ WriteRef(Local, Main, stream.commit)
        /\ authors' = [authors EXCEPT ![Main] = @ \cup {"stream"}]
        /\ UNCHANGED <<stored, commits>>
    BY <1>5 DEF StreamRef
  <2>2. /\ refs'[Remote] = refs[Remote]
        /\ refs'[Local] = [refs[Local] EXCEPT ![Main] = stream.commit]
    BY ZenonT(30), <2>1, LocalWrites, StoreConstants
  <2> QED
    BY <1>1, <2>1, <2>2 DEF WritesRef, OneCommit
<1>6. UNCHANGED <<stored, refs, commits, authors>> \/ StreamBlob \/ StreamTree \/ StreamCommit \/ StreamRef
  BY DEF Stream, OnInterviewComplete, Finalize, StreamDrop, StreamHead, StreamCurrent, StreamFails
<1> QED
  BY <1>2, <1>3, <1>4, <1>5, <1>6

LEMMA SyncEffects ==
  ASSUME IInv, Sync
  PROVE  /\ UNCHANGED <<commits, saver, stream, authors>>
         /\ stored'[Local] = stored[Local] /\ refs'[Local] = refs[Local]
         /\ stored[Remote] \subseteq stored'[Remote]
         /\ SyncRef \/ UNCHANGED refs
<1>1. UNCHANGED <<commits, saver, stream, authors>> /\ (SyncRef \/ UNCHANGED refs)
  BY DEF Sync, StartSync, SyncTree, SyncBlob, SyncCommit, SyncRef, SyncHead, SyncCurrent, SyncFails
<1>2. UNCHANGED stored \/ \E key : WriteKey(Remote, key)
  BY DEF Sync, StartSync, SyncTree, SyncBlob, SyncCommit, SyncRef, SyncHead, SyncCurrent, SyncFails,
     WriteFirstMissing
<1>3. refs'[Local] = refs[Local]
  <2>1. CASE SyncRef
    <3>1. sync.branch \in Branches /\ WriteRef(Remote, sync.branch, sync.tip)
      BY <2>1 DEF SyncRef, IInv, SyncReady
    <3> QED
      BY <3>1, LocalWrites
  <2> QED
    BY <1>1, <2>1
<1> QED
  BY <1>1, <1>2, <1>3, LocalWrites

LEMMA NextGrows ==
  ASSUME IInv, [Next]_vars
  PROVE  Grows /\ OneCommit
<1>0. commits \in Seq([tree : Seq(Rows), parent : Nat]) /\ Len(commits) \in Nat
  BY DEF IInv, TypeOK
<1>1. \A dir \in Dirs : dir = Local \/ dir = Remote
  BY DEF Dirs
<1>2. ASSUME OneCommit, stored[Remote] \subseteq stored'[Remote]
      PROVE  Grows
  <2>1. CASE UNCHANGED commits /\ stored[Local] \subseteq stored'[Local]
    BY <1>0, <1>1, <1>2, <2>1 DEF Grows
  <2>2. CASE \E tree, parent : MakeCommit(tree, parent)
    <3>1. PICK tree, parent : MakeCommit(tree, parent)
      BY <2>2
    <3>2. stored[Local] \subseteq stored'[Local]
      BY <3>1, LocalWrites DEF MakeCommit
    <3>3. /\ Len(commits') = Len(commits) + 1
          /\ \A c \in 1..Len(commits) : commits'[c] = commits[c]
      BY <1>0, <3>1 DEF MakeCommit
    <3> QED
      BY <1>0, <1>1, <1>2, <3>2, <3>3 DEF Grows
  <2> QED
    BY <1>2, <2>1, <2>2 DEF OneCommit
<1>3. CASE UNCHANGED vars
  BY <1>2, <1>3 DEF vars, OneCommit
<1>4. ASSUME NEW p \in Savers, Saver(p)
      PROVE  Grows /\ OneCommit
  BY <1>2, <1>4, SaverEffects
<1>5. CASE Stream
  BY <1>2, <1>5, StreamEffects
<1>6. CASE Sync
  BY <1>2, <1>6, SyncEffects DEF OneCommit
<1> QED
  BY <1>3, <1>4, <1>5, <1>6 DEF Next

-----------------------------------------------------------------------------
(***************************************************************************)
(* Whole histories.  The copy is closed under parents but for one place:   *)
(* where the walk of a sync is.  A sync that is interrupted leaves the gap *)
(* there for good.                                                         *)
(***************************************************************************)

AllStored == \A c \in 1..Len(commits) : Commit(c) \in stored[Local]

Gap ==
  ~sync.broken =>
    \A c \in 1..Len(commits) :
      Commit(c) \in stored[Remote] =>
        \/ commits[c].parent = 0
        \/ Commit(commits[c].parent) \in stored[Remote]
        \/ sync.pc \in {"next", "blobs"} /\ sync.at = commits[c].parent

RemoteClosed ==
  ~sync.broken =>
    \A branch \in Branches :
      \A c \in Ancestors(commits, refs[Remote][branch]) : Commit(c) \in stored[Remote]

HInv == IInv /\ AllStored /\ Gap /\ RemoteClosed

LEMMA CommitsMade ==
  ASSUME IInv
  PROVE  /\ Made(commits)
         /\ \A c \in 0..Len(commits) : Ancestors(commits, c) \subseteq 1..Len(commits)
<1>1. Len(commits) \in Nat
  BY DEF IInv, TypeOK
<1>2. Made(commits)
  BY <1>1, CommitTypes DEF IInv, ParentsBefore, Made
<1>3. \A c \in 1..Len(commits) : commits[c].parent # 0 => commits[c].parent \in 1..Len(commits)
  <2> SUFFICES ASSUME NEW c \in 1..Len(commits), commits[c].parent # 0
               PROVE  commits[c].parent \in 1..Len(commits)
    OBVIOUS
  <2>1. commits[c].parent \in Nat /\ commits[c].parent < c
    BY <1>2 DEF Made
  <2> QED
    BY <1>1, <2>1
<1>4. \A c \in 1..Len(commits) : Ancestors(commits, c) \subseteq 1..Len(commits)
  BY <1>2, <1>3, ClosedHistory
<1>5. Ancestors(commits, 0) \subseteq 1..Len(commits)
  BY <1>2, AncestorsAre
<1> QED
  BY <1>1, <1>2, <1>4, <1>5

\* No step changes the history of a commit.
LEMMA HistoriesKept ==
  ASSUME IInv, [Next]_vars
  PROVE  /\ Made(commits') /\ Len(commits) \in Nat /\ Len(commits') \in Nat
         /\ Len(commits) <= Len(commits')
         /\ \A c \in 1..Len(commits) : commits'[c] = commits[c]
         /\ \A c \in 0..Len(commits) : Ancestors(commits', c) = Ancestors(commits, c)
<1>1. IInv' /\ Grows
  BY NextIInv, NextGrows
<1>2. Made(commits) /\ Made(commits')
  <2>1. commits' \in Seq([tree : Seq(Rows), parent : Nat]) /\ ParentsBefore'
    BY <1>1 DEF IInv, TypeOK
  <2>2. \A c \in 1..Len(commits') : commits'[c] \in [tree : Seq(Rows), parent : Nat]
    BY <2>1, SeqElement
  <2> QED
    BY <2>1, <2>2, CommitsMade DEF Made, ParentsBefore
<1>3. Len(commits) <= Len(commits') /\ \A c \in 1..Len(commits) : commits'[c] = commits[c]
  BY <1>1 DEF Grows
<1> QED
  BY <1>2, <1>3, HistoryStays DEF Made

LEMMA AllStoredKept ==
  ASSUME IInv, AllStored, [Next]_vars
  PROVE  AllStored'
<1>1. OneCommit
  BY NextGrows
<1>2. CASE UNCHANGED commits /\ stored[Local] \subseteq stored'[Local]
  BY <1>2 DEF AllStored
<1>3. ASSUME NEW tree, NEW parent, MakeCommit(tree, parent)
      PROVE  AllStored'
  <2>1. stored'[Local] = stored[Local] \cup {Commit(Len(commits) + 1)}
    BY <1>3, LocalWrites DEF MakeCommit
  <2>2. Len(commits) \in Nat /\ Len(commits') = Len(commits) + 1
    BY <1>3 DEF MakeCommit, IInv, TypeOK
  <2>3. ASSUME NEW c \in 1..Len(commits')
        PROVE  Commit(c) \in stored'[Local]
    <3>1. c \in 1..Len(commits) \/ c = Len(commits) + 1
      BY <2>2
    <3> QED
      BY <2>1, <3>1 DEF AllStored
  <2> QED
    BY <2>3 DEF AllStored
<1> QED
  BY <1>1, <1>2, <1>3 DEF OneCommit

\* A step that is no sync's leaves the copy as closed as it was.
LEMMA ClosedElsewhere ==
  ASSUME HInv, [Next]_vars, UNCHANGED sync,
         stored'[Remote] = stored[Remote], refs'[Remote] = refs[Remote]
  PROVE  Gap' /\ RemoteClosed'
<1>1. Gap'
  <2> SUFFICES ASSUME ~sync.broken, NEW c \in 1..Len(commits'), Commit(c) \in stored[Remote]
               PROVE  \/ commits'[c].parent = 0
                      \/ Commit(commits'[c].parent) \in stored[Remote]
                      \/ sync.pc \in {"next", "blobs"} /\ sync.at = commits'[c].parent
    BY DEF Gap
  <2>1. c \in Nat /\ Remote \in Dirs
    BY HistoriesKept DEF HInv, Dirs
  <2>2. c \in 1..Len(commits)
    BY <2>1 DEF HInv, IInv, CommitsLoad
  <2>3. commits'[c] = commits[c]
    BY <2>2, HistoriesKept DEF HInv
  <2> QED
    BY <2>2, <2>3 DEF HInv, Gap
<1>2. RemoteClosed'
  <2> SUFFICES ASSUME ~sync.broken, NEW branch \in Branches,
                      NEW c \in Ancestors(commits', refs[Remote][branch])
               PROVE  Commit(c) \in stored[Remote]
    BY DEF RemoteClosed
  <2>1. refs[Remote][branch] \in 0..Len(commits)
    BY DEF HInv, IInv, TypeOK, Dirs
  <2>2. c \in Ancestors(commits, refs[Remote][branch])
    BY <2>1, HistoriesKept DEF HInv
  <2> QED
    BY <2>2 DEF HInv, RemoteClosed
<1> QED
  BY <1>1, <1>2

\* A sync that starts, copies something or ends.
LEMMA GapKept ==
  ASSUME HInv, Sync
  PROVE  Gap'
<1>1. /\ UNCHANGED commits /\ stored[Remote] \subseteq stored'[Remote]
      /\ sync \in SyncStates /\ SyncReady
  BY SyncEffects DEF HInv, IInv, TypeOK
<1>2. CASE UNCHANGED stored /\ sync'.broken = sync.broken /\ sync.pc \notin {"next", "blobs"}
  BY <1>1, <1>2 DEF HInv, Gap
<1>3. CASE \E asked \in Branches \cup {None} : StartSync(asked)
  <2>1. UNCHANGED stored /\ sync'.broken = sync.broken /\ sync.pc = "idle"
    BY <1>1, <1>3 DEF StartSync, SyncStates
  <2> QED
    BY <1>2, <2>1
<1>4. CASE SyncHead \/ SyncCurrent
  <2>1. UNCHANGED stored /\ sync'.broken = sync.broken /\ sync.pc \in {"HEAD", "current"}
    BY <1>1, <1>4 DEF SyncHead, SyncCurrent, SyncGoes, SyncEnds, SyncStates, SyncIdle
  <2> QED
    BY <1>2, <2>1
<1>5. CASE SyncTree \/ SyncBlob
  <2>1. \E key : (\A c : key # Commit(c)) /\ WriteKey(Remote, key)
    BY <1>5, KeysApart DEF SyncTree, SyncBlob, WriteFirstMissing
  <2>2. \A c : Commit(c) \in stored'[Remote] => Commit(c) \in stored[Remote]
    BY <2>1, LocalWrites DEF HInv
  <2>3. /\ sync.pc \in {"next", "blobs"} /\ sync'.pc = "blobs"
        /\ sync'.at = sync.at /\ sync'.broken = sync.broken
    BY <1>1, <1>5 DEF SyncTree, SyncBlob, SyncGoes, SyncStates
  <2> QED
    BY <1>1, <2>2, <2>3 DEF HInv, Gap
<1>6. CASE SyncCommit
  <2>1. stored'[Remote] = stored[Remote] \cup {Commit(sync.at)}
    BY <1>6, LocalWrites DEF SyncCommit, HInv
  <2>2. sync'.pc = "next" /\ sync'.at = commits[sync.at].parent /\ sync'.broken = sync.broken
    BY <1>1, <1>6 DEF SyncCommit, SyncStates
  <2>3. ASSUME NEW c \in 1..Len(commits), Commit(c) \in stored'[Remote], ~sync.broken
        PROVE  \/ commits[c].parent = 0
               \/ Commit(commits[c].parent) \in stored'[Remote]
               \/ sync'.at = commits[c].parent
    <3>1. CASE c = sync.at
      BY <2>2, <3>1
    <3>2. CASE c # sync.at
      <4>1. Commit(c) \in stored[Remote]
        BY <2>1, <2>3, <3>2, KeysApart
      <4> QED
        BY <2>1, <2>3, <4>1 DEF HInv, Gap
    <3> QED
      BY <3>1, <3>2
  <2> QED
    BY <1>1, <2>2, <2>3 DEF Gap
<1>7. CASE SyncRef
  <2>1. UNCHANGED stored /\ sync'.broken = sync.broken /\ Copied(sync.at)
    BY <1>1, <1>7 DEF SyncRef, SyncGoes, SyncStates
  <2> QED
    BY <1>1, <2>1 DEF HInv, Gap, Copied
<1>8. CASE SyncFails
  <2>1. sync'.broken
    BY <1>8 DEF SyncFails, SyncEnds, SyncIdle
  <2> QED
    BY <2>1 DEF Gap
<1> QED
  BY <1>3, <1>4, <1>5, <1>6, <1>7, <1>8 DEF Sync

\* When a branch of the copy is named, there is no gap.
LEMMA ClosedKept ==
  ASSUME HInv, Sync
  PROVE  RemoteClosed'
<1>1. /\ UNCHANGED commits /\ stored[Remote] \subseteq stored'[Remote]
      /\ SyncRef \/ UNCHANGED refs
      /\ sync \in SyncStates /\ SyncReady
  BY SyncEffects DEF HInv, IInv, TypeOK
<1>2. ~sync'.broken => ~sync.broken
  BY <1>1 DEF Sync, StartSync, SyncTree, SyncBlob, SyncCommit, SyncRef, SyncHead, SyncCurrent, SyncFails,
     SyncGoes, SyncEnds, SyncIdle, SyncStates
<1>3. CASE UNCHANGED refs
  BY <1>1, <1>2, <1>3 DEF HInv, RemoteClosed
<1>4. CASE SyncRef
  <2> DEFINE copied == {c \in 1..Len(commits) : Commit(c) \in stored[Remote]}
  <2> SUFFICES ASSUME ~sync.broken
               PROVE  \A branch \in Branches :
                        Ancestors(commits, refs'[Remote][branch]) \subseteq copied
    BY <1>1, <1>2 DEF RemoteClosed
  <2>1. /\ sync.branch \in Branches /\ sync.tip # 0 /\ sync.pc = "next" /\ Copied(sync.at)
        /\ WriteRef(Remote, sync.branch, sync.tip)
    BY <1>1, <1>4 DEF SyncRef, SyncReady
  <2>2. refs'[Remote] = [refs[Remote] EXCEPT ![sync.branch] = sync.tip]
    BY <2>1, LocalWrites DEF HInv
  <2>3. refs[Remote] \in [Branches -> 0..Len(commits)]
    BY DEF HInv, IInv, TypeOK, Dirs
  <2>4. sync.tip \in copied
    BY <1>1, <2>1 DEF Copied, SyncReady, SyncStates
  <2>5. \A c \in copied : commits[c].parent # 0 => commits[c].parent \in copied
    <3> SUFFICES ASSUME NEW c \in copied, commits[c].parent # 0
                 PROVE  commits[c].parent \in copied
      OBVIOUS
    <3>1. c \in 1..Len(commits) /\ Made(commits)
      BY CommitsMade DEF HInv
    <3>2. commits[c].parent \in 1..Len(commits)
      BY <3>1 DEF Made
    <3>3. Commit(commits[c].parent) \in stored[Remote]
      BY <2>1, <3>1 DEF HInv, Gap, Copied
    <3> QED
      BY <3>2, <3>3
  <2>6. Ancestors(commits, sync.tip) \subseteq copied
    <3>1. Made(commits)
      BY CommitsMade DEF HInv
    <3>2. copied \in SUBSET (1..Len(commits))
      OBVIOUS
    <3> HIDE DEF copied
    <3> QED
      BY <2>4, <2>5, <3>1, <3>2, ClosedHistory
  <2>7. \A branch \in Branches : Ancestors(commits, refs[Remote][branch]) \subseteq copied
    <3> SUFFICES ASSUME NEW branch \in Branches, NEW c \in Ancestors(commits, refs[Remote][branch])
                 PROVE  c \in copied
      OBVIOUS
    <3>1. c \in 1..Len(commits)
      BY <2>3, CommitsMade DEF HInv
    <3> QED
      BY <3>1 DEF HInv, RemoteClosed
  <2> HIDE DEF copied
  <2>8. \A branch \in Branches :
          refs'[Remote][branch] = IF branch = sync.branch THEN sync.tip ELSE refs[Remote][branch]
    BY <2>2, <2>3
  <2> QED
    BY <2>6, <2>7, <2>8
<1> QED
  BY <1>1, <1>3, <1>4

LEMMA InitHInv == Init => HInv
<1> SUFFICES ASSUME Init PROVE HInv
  OBVIOUS
<1>1. IInv
  BY InitIInv
<1>2. commits = <<>> /\ \A branch \in Branches : refs[Remote][branch] = 0
  BY DEF Init, Dirs
<1>3. Ancestors(commits, 0) = {}
  BY <1>1, CommitsMade, AncestorsAre
<1> QED
  BY <1>1, <1>2, <1>3 DEF HInv, AllStored, Gap, RemoteClosed

LEMMA NextHInv == HInv /\ [Next]_vars => HInv'
<1> SUFFICES ASSUME HInv, [Next]_vars PROVE HInv'
  OBVIOUS
<1>1. IInv' /\ AllStored'
  BY NextIInv, AllStoredKept DEF HInv
<1>2. ASSUME UNCHANGED vars
      PROVE  Gap' /\ RemoteClosed'
  <2>1. UNCHANGED sync /\ stored'[Remote] = stored[Remote] /\ refs'[Remote] = refs[Remote]
    BY <1>2 DEF vars
  <2> QED
    BY <2>1, ClosedElsewhere
<1>3. ASSUME NEW p \in Savers, Saver(p)
      PROVE  Gap' /\ RemoteClosed'
  <2>1. UNCHANGED sync /\ stored'[Remote] = stored[Remote] /\ refs'[Remote] = refs[Remote]
    BY <1>3, SaverEffects DEF HInv
  <2> QED
    BY <2>1, ClosedElsewhere
<1>4. ASSUME Stream
      PROVE  Gap' /\ RemoteClosed'
  <2>1. UNCHANGED sync /\ stored'[Remote] = stored[Remote] /\ refs'[Remote] = refs[Remote]
    BY <1>4, StreamEffects DEF HInv
  <2> QED
    BY <2>1, ClosedElsewhere
<1>5. ASSUME Sync
      PROVE  Gap' /\ RemoteClosed'
  BY <1>5, GapKept, ClosedKept
<1>6. Gap' /\ RemoteClosed'
  BY <1>2, <1>3, <1>4, <1>5 DEF Next, HInv
<1> QED
  BY <1>1, <1>6 DEF HInv

\* Whoever was cut short, every commit of the history of every branch can be loaded; in
\* the copy too, however syncs interleave with saves, as long as none was interrupted.
THEOREM HistoryLoadCorrect == Spec => []HistoryLoads
<1>1. HInv => HistoryLoads
  <2> SUFFICES ASSUME HInv PROVE HistoryLoads
    OBVIOUS
  <2>1. ASSUME NEW dir \in Dirs, NEW c \in HistoryOf(dir)
        PROVE  c \in 1..Len(commits)
    <3>1. PICK branch \in Branches : c \in Ancestors(commits, refs[dir][branch])
      BY <2>1 DEF HistoryOf
    <3>2. refs[dir][branch] \in 0..Len(commits)
      BY DEF HInv, IInv, TypeOK
    <3> QED
      BY <3>1, <3>2, CommitsMade DEF HInv
  <2>2. ASSUME NEW dir \in Dirs, NEW c \in 1..Len(commits), Commit(c) \in stored[dir]
        PROVE  Loads(dir, c)
    BY <2>2 DEF HInv, IInv, CommitsLoad
  <2>3. \A c \in HistoryOf(Local) : Loads(Local, c)
    BY <2>1, <2>2 DEF HInv, AllStored, Dirs
  <2>4. ASSUME ~sync.broken, NEW c \in HistoryOf(Remote)
        PROVE  Loads(Remote, c)
    <3>1. Commit(c) \in stored[Remote]
      BY <2>4 DEF HistoryOf, HInv, RemoteClosed
    <3> QED
      BY <2>1, <2>2, <2>4, <3>1 DEF Dirs
  <2> QED
    BY <2>3, <2>4 DEF HistoryLoads
<1> QED
  BY <1>1, InitHInv, NextHInv, PTL DEF Spec

-----------------------------------------------------------------------------
(***************************************************************************)
(* Nothing on a branch is lost.  A caller names as the parent of its       *)
(* commit a tip it read earlier; that is still the tip as long as nobody   *)
(* else wrote the branch.                                                  *)
(***************************************************************************)

AuthorsFinite == \A branch \in Branches : IsFiniteSet(authors[branch])

SaverTip(p) ==
  /\ saver[p].pc \in {"commit", "ref"} /\ authors[saver[p].branch] \subseteq {p} =>
       refs[Local][saver[p].branch] = saver[p].parent
  /\ saver[p].pc = "ref" => commits[saver[p].commit].parent = saver[p].parent
  /\ saver[p].pc = "branch" /\ authors[saver[p].branch] \subseteq {p} =>
       refs[Local][saver[p].branch] = 0

StreamTip ==
  /\ ~stream.broken /\ authors[Main] \subseteq {"stream"} =>
       refs[Local][Main] = IF stream.pc \in {"HEAD", "current"} THEN stream.commit ELSE stream.tip
  /\ stream.pc = "ref" => commits[stream.commit].parent = stream.tip

TInv ==
  /\ IInv
  /\ AuthorsFinite
  /\ \A p \in Savers : SaverTip(p)
  /\ StreamTip

\* Who does not move keeps what it knows of its branch, unless somebody else writes it.
LEMMA SaverTipFrame ==
  ASSUME IInv, Grows, NEW p \in Savers, SaverTip(p), saver'[p] = saver[p],
         \/ UNCHANGED <<refs, authors>>
         \/ \E q, c : q # p /\ \E b \in Branches : WritesRef(q, b, c)
  PROVE  SaverTip(p)'
<1>1. /\ saver[p].pc # "idle" => saver[p].branch \in Branches
      /\ saver[p].pc = "ref" => saver[p].commit \in 1..Len(commits)
  BY DEF IInv, SaverReady, CommitsLoad, Dirs, TypeOK, SaverStates
<1>2. saver[p].pc = "ref" => commits'[saver[p].commit] = commits[saver[p].commit]
  BY <1>1 DEF Grows
<1>3. CASE UNCHANGED <<refs, authors>>
  BY <1>2, <1>3 DEF SaverTip
<1>4. ASSUME NEW q, NEW b \in Branches, NEW c, q # p, WritesRef(q, b, c)
      PROVE  SaverTip(p)'
  <2>1. /\ refs[Local] \in [Branches -> 0..Len(commits)]
        /\ authors \in [Branches -> SUBSET (Savers \cup {"stream"})]
    BY DEF IInv, TypeOK, Dirs
  <2>2. \A d \in Branches :
          authors'[d] \subseteq {p} =>
            authors[d] \subseteq {p} /\ refs'[Local][d] = refs[Local][d]
    BY <1>4, <2>1 DEF WritesRef
  <2> QED
    BY <1>1, <1>2, <2>2 DEF SaverTip
<1> QED
  BY <1>3, <1>4

LEMMA StreamTipFrame ==
  ASSUME IInv, Grows, StreamTip, UNCHANGED stream,
         \/ UNCHANGED <<refs, authors>>
         \/ \E p \in Savers, b \in Branches : \E c : WritesRef(p, b, c)
  PROVE  StreamTip'
<1>1. stream.pc = "ref" => stream.commit \in 1..Len(commits)
  BY DEF IInv, StreamReady, CommitsLoad, Dirs, TypeOK, StreamStates
<1>2. stream.pc = "ref" => commits'[stream.commit] = commits[stream.commit]
  BY <1>1 DEF Grows
<1>3. CASE UNCHANGED <<refs, authors>>
  BY <1>2, <1>3 DEF StreamTip
<1>4. ASSUME NEW p \in Savers, NEW b \in Branches, NEW c, WritesRef(p, b, c)
      PROVE  StreamTip'
  <2>1. /\ refs[Local] \in [Branches -> 0..Len(commits)]
        /\ authors \in [Branches -> SUBSET (Savers \cup {"stream"})]
        /\ Main \in Branches /\ p # "stream"
    BY StoreConstants DEF IInv, TypeOK, Dirs
  <2>2. authors'[Main] \subseteq {"stream"} =>
          authors[Main] \subseteq {"stream"} /\ refs'[Local][Main] = refs[Local][Main]
    BY <1>4, <2>1 DEF WritesRef
  <2> QED
    BY <1>2, <2>2 DEF StreamTip
<1> QED
  BY <1>3, <1>4

LEMMA AuthorsStayFinite ==
  ASSUME IInv, AuthorsFinite,
         UNCHANGED <<refs, authors>> \/ \E q, c : \E b \in Branches : WritesRef(q, b, c)
  PROVE  AuthorsFinite'
<1>1. CASE UNCHANGED authors
  BY <1>1 DEF AuthorsFinite
<1>2. ASSUME NEW q, NEW b \in Branches, NEW c, WritesRef(q, b, c)
      PROVE  AuthorsFinite'
  <2>1. IsFiniteSet(authors[b] \cup {q})
    BY FS_AddElement DEF AuthorsFinite
  <2>2. \A d \in Branches : authors'[d] = IF d = b THEN authors[b] \cup {q} ELSE authors[d]
    BY <1>2 DEF WritesRef, IInv, TypeOK
  <2> QED
    BY <2>1, <2>2 DEF AuthorsFinite
<1> QED
  BY <1>1, <1>2

\* A saver's own step.
LEMMA SaverTipMoves ==
  ASSUME IInv, NEW p \in Savers, SaverTip(p), Saver(p)
  PROVE  SaverTip(p)'
<1>1. /\ saver \in [Savers -> SaverStates] /\ saver[p] \in SaverStates /\ Len(commits) \in Nat
      /\ commits \in Seq([tree : Seq(Rows), parent : Nat])
  BY DEF IInv, TypeOK
<1>2. CASE SaveTip(p) /\ saver'[p].pc = "commit"
  <2>1. /\ saver'[p].branch = saver[p].branch
        /\ saver'[p].parent = refs[Local][saver[p].branch]
        /\ UNCHANGED <<refs, authors, commits>>
    BY ZenonT(30), <1>1, <1>2 DEF SaveTip, ReturnsFrom, SaverIdle, SaverStates
  <2> QED
    BY <1>2, <2>1 DEF SaverTip
<1>3. CASE SaveCommit(p)
  <2>1. /\ saver'[p].pc = "ref" /\ saver'[p].branch = saver[p].branch
        /\ saver'[p].parent = saver[p].parent /\ saver'[p].commit = Len(commits) + 1
        /\ saver[p].pc = "commit" /\ UNCHANGED <<refs, authors>>
    BY <1>1, <1>3 DEF SaveCommit, SaverStates
  <2>2. commits'[Len(commits) + 1] = [tree |-> saver[p].tree, parent |-> saver[p].parent]
    BY <1>1, <1>3 DEF SaveCommit, MakeCommit
  <2> QED
    BY <2>1, <2>2 DEF SaverTip
<1>4. CASE \E name \in Branches, from \in Branches \cup {None} : Branch(p, name, from)
  <2>1. PICK name \in Branches, from \in Branches \cup {None} : Branch(p, name, from)
    BY <1>4
  <2>2. /\ saver'[p].pc = "branch" /\ saver'[p].branch = name
        /\ refs[Local][name] = 0 /\ UNCHANGED <<refs, authors>>
    BY <1>1, <2>1 DEF Branch, Begins, SaverStates
  <2> QED
    BY <2>2 DEF SaverTip
<1>5. CASE saver'[p].pc \notin {"commit", "ref", "branch"}
  BY <1>5 DEF SaverTip
<1>6. ASSUME NEW branch \in Branches \cup {None}, NEW row \in Saved, NEW expected,
             Save(p, branch, <<row>>, expected)
      PROVE  saver'[p].pc \in {"switch", "blobs"}
  BY <1>1, <1>6 DEF Save, Begins, SaverStates
<1>7. ASSUME \/ SaveSwitch(p) \/ SaveTree(p) \/ SaveRef(p) \/ SaveHead(p) \/ SaveCurrent(p)
             \/ BranchRef(p) \/ CheckoutCurrent(p) \/ SaverFails(p)
      PROVE  saver'[p].pc \in {"blobs", "tip", "HEAD", "current", "idle"}
  BY <1>1, <1>7 DEF SaveSwitch, SaveTree, SaveRef, SaveHead, SaveCurrent, BranchRef, CheckoutCurrent,
     SaverFails, Goes, ReturnsFrom, SaverStates, SaverIdle
<1>8. ASSUME SaveBlob(p)
      PROVE  saver'[p].pc = "blobs"
  BY <1>8 DEF SaveBlob
<1>9. ASSUME SaveTip(p)
      PROVE  saver'[p].pc \in {"commit", "idle"}
  BY <1>1, <1>9 DEF SaveTip, ReturnsFrom, SaverIdle, SaverStates
<1>10. ASSUME NEW branch \in Branches, Checkout(p, branch)
       PROVE  saver'[p].pc = "checkout"
  BY <1>1, <1>10 DEF Checkout, Begins, SaverStates
<1> QED
  BY <1>2, <1>3, <1>4, <1>5, <1>6, <1>7, <1>8, <1>9, <1>10 DEF Saver

\* What a step of the stream does to its own tip.
LEMMA StreamTips ==
  ASSUME IInv, Stream
  PROVE  \/ StreamFails /\ stream'.broken /\ stream'.pc = "idle"
         \/ /\ stream'.broken = stream.broken
            /\ \/ StreamRef /\ stream'.pc = "HEAD" /\ UNCHANGED commits
                  /\ stream'.tip = stream.tip /\ stream'.commit = stream.commit
               \/ StreamCurrent /\ stream.pc = "current" /\ stream'.pc = "idle"
                  /\ stream'.tip = stream.commit
               \/ StreamCommit /\ stream'.pc = "ref"
                  /\ stream'.tip = stream.tip /\ stream'.commit = Len(commits) + 1
               \/ /\ UNCHANGED <<refs, authors, commits>>
                  /\ stream'.tip = stream.tip /\ stream'.commit = stream.commit
                  /\ stream'.pc # "ref"
                  /\ stream.pc \in {"HEAD", "current"} <=> stream'.pc \in {"HEAD", "current"}
<1>1. stream \in StreamStates
  BY DEF IInv, TypeOK
<1>2. ASSUME NEW i \in Results, OnInterviewComplete(i)
      PROVE  /\ UNCHANGED <<refs, authors, commits>> /\ stream.pc = "idle"
             /\ stream'.tip = stream.tip /\ stream'.commit = stream.commit
             /\ stream'.broken = stream.broken /\ stream'.pc \in {"idle", "blobs"}
  BY <1>1, <1>2 DEF OnInterviewComplete, Flushed, StreamStates
<1>3. ASSUME Finalize
      PROVE  /\ UNCHANGED <<refs, authors, commits>> /\ stream.pc = "idle"
             /\ stream'.tip = stream.tip /\ stream'.commit = stream.commit
             /\ stream'.broken = stream.broken /\ stream'.pc \in {"idle", "blobs"}
  BY <1>1, <1>3 DEF Finalize, Flushed, StreamStates
<1>4. ASSUME StreamDrop \/ StreamBlob \/ StreamTree
      PROVE  /\ UNCHANGED <<refs, authors, commits>> /\ stream.pc = "blobs"
             /\ stream'.tip = stream.tip /\ stream'.commit = stream.commit
             /\ stream'.broken = stream.broken /\ stream'.pc \in {"blobs", "commit"}
  BY <1>1, <1>4 DEF StreamDrop, StreamBlob, StreamTree, StreamGoes, StreamStates
<1>5. ASSUME StreamHead
      PROVE  /\ UNCHANGED <<refs, authors, commits>> /\ stream.pc = "HEAD"
             /\ stream'.tip = stream.tip /\ stream'.commit = stream.commit
             /\ stream'.broken = stream.broken /\ stream'.pc = "current"
  BY <1>1, <1>5 DEF StreamHead, StreamGoes, StreamStates
<1>6. ASSUME StreamRef
      PROVE  /\ UNCHANGED commits /\ stream'.pc = "HEAD" /\ stream'.broken = stream.broken
             /\ stream'.tip = stream.tip /\ stream'.commit = stream.commit
  BY <1>1, <1>6 DEF StreamRef, StreamGoes, StreamStates
<1>7. ASSUME StreamCurrent
      PROVE  /\ stream.pc = "current" /\ stream'.pc = "idle" /\ stream'.broken = stream.broken
             /\ stream'.tip = stream.commit
  BY <1>1, <1>7 DEF StreamCurrent, StreamStates
<1>8. ASSUME StreamCommit
      PROVE  /\ stream'.pc = "ref" /\ stream'.broken = stream.broken
             /\ stream'.tip = stream.tip /\ stream'.commit = Len(commits) + 1
  BY <1>1, <1>8 DEF StreamCommit, StreamStates
<1>9. ASSUME StreamFails
      PROVE  stream'.broken /\ stream'.pc = "idle"
  BY <1>1, <1>9 DEF StreamFails, StreamStates
<1> QED
  BY <1>2, <1>3, <1>4, <1>5, <1>6, <1>7, <1>8, <1>9 DEF Stream

LEMMA StreamTipMoves ==
  ASSUME IInv, StreamTip, Stream
  PROVE  StreamTip'
<1>0. /\ commits \in Seq([tree : Seq(Rows), parent : Nat]) /\ Len(commits) \in Nat
      /\ refs[Local] \in [Branches -> 0..Len(commits)] /\ Main \in Branches
      /\ authors \in [Branches -> SUBSET (Savers \cup {"stream"})]
  BY StoreConstants DEF IInv, TypeOK, Dirs
<1>1. CASE StreamFails /\ stream'.broken /\ stream'.pc = "idle"
  BY <1>1 DEF StreamTip
<1>2. ASSUME StreamRef, stream'.pc = "HEAD", stream'.commit = stream.commit,
             stream'.broken = stream.broken
      PROVE  StreamTip'
  <2>1. refs'[Local][Main] = stream.commit
    <3>1. refs'[Local] = [refs[Local] EXCEPT ![Main] = stream.commit]
      BY <1>0, <1>2, LocalWrites DEF StreamRef
    <3> QED
      BY <1>0, <3>1
  <2> QED
    BY <1>2, <2>1 DEF StreamTip
<1>3. ASSUME StreamCurrent, stream.pc = "current", stream'.pc = "idle",
             stream'.tip = stream.commit, stream'.broken = stream.broken
      PROVE  StreamTip'
  <2>1. UNCHANGED <<refs, authors>>
    BY <1>3 DEF StreamCurrent
  <2> QED
    BY <1>3, <2>1 DEF StreamTip
<1>4. ASSUME StreamCommit, stream'.pc = "ref", stream'.tip = stream.tip,
             stream'.commit = Len(commits) + 1, stream'.broken = stream.broken
      PROVE  StreamTip'
  <2>1. /\ stream.pc = "commit" /\ MakeCommit(stream.hashes, stream.tip)
        /\ UNCHANGED <<refs, authors>>
    BY <1>4 DEF StreamCommit
  <2>2. commits'[Len(commits) + 1] = [tree |-> stream.hashes, parent |-> stream.tip]
    BY <1>0, <2>1 DEF MakeCommit
  <2> QED
    BY <1>4, <2>1, <2>2 DEF StreamTip
<1>5. ASSUME UNCHANGED <<refs, authors, commits>>,
             stream'.tip = stream.tip, stream'.commit = stream.commit, stream'.pc # "ref",
             stream'.broken = stream.broken,
             stream.pc \in {"HEAD", "current"} <=> stream'.pc \in {"HEAD", "current"}
      PROVE  StreamTip'
  BY <1>5 DEF StreamTip
<1> QED
  BY <1>1, <1>2, <1>3, <1>4, <1>5, StreamTips

\* A sync writes no branch of the directory.
LEMMA TipsUnderSync ==
  ASSUME TInv, Grows, UNCHANGED <<saver, stream, authors>>, refs'[Local] = refs[Local]
  PROVE  AuthorsFinite' /\ (\A q \in Savers : SaverTip(q)') /\ StreamTip'
<1>1. AuthorsFinite'
  BY DEF TInv, AuthorsFinite
<1>2. ASSUME NEW p \in Savers
      PROVE  SaverTip(p)'
  <2>1. saver[p].pc = "ref" => saver[p].commit \in 1..Len(commits)
    BY DEF TInv, IInv, SaverReady, CommitsLoad, Dirs, TypeOK, SaverStates
  <2>2. saver[p].pc = "ref" => commits'[saver[p].commit] = commits[saver[p].commit]
    BY <2>1 DEF Grows
  <2> QED
    BY <2>2 DEF TInv, SaverTip
<1>3. StreamTip'
  <2>1. stream.pc = "ref" => stream.commit \in 1..Len(commits)
    BY DEF TInv, IInv, StreamReady, CommitsLoad, Dirs, TypeOK, StreamStates
  <2>2. stream.pc = "ref" => commits'[stream.commit] = commits[stream.commit]
    BY <2>1 DEF Grows
  <2> QED
    BY <2>2 DEF TInv, StreamTip
<1> QED
  BY <1>1, <1>2, <1>3

LEMMA InitTInv == Init => TInv
<1> SUFFICES ASSUME Init PROVE TInv
  OBVIOUS
<1>1. IInv
  BY InitIInv
<1>2. AuthorsFinite
  BY FS_EmptySet DEF Init, AuthorsFinite
<1>3. \A p \in Savers : SaverTip(p)
  BY DEF Init, SaverTip, SaverIdle
<1>4. StreamTip
  BY StoreConstants DEF Init, StreamTip, StreamNew, Dirs
<1> QED
  BY <1>1, <1>2, <1>3, <1>4 DEF TInv

LEMMA NextTInv == TInv /\ [Next]_vars => TInv'
<1> SUFFICES ASSUME TInv, [Next]_vars PROVE TInv'
  OBVIOUS
<1>1. IInv /\ IInv' /\ Grows
  BY NextIInv, NextGrows DEF TInv
<1>2. ASSUME NEW p \in Savers, Saver(p)
      PROVE  AuthorsFinite' /\ (\A q \in Savers : SaverTip(q)') /\ StreamTip'
  <2>1. /\ UNCHANGED stream /\ \A q \in Savers : q # p => saver'[q] = saver[q]
        /\ \/ UNCHANGED <<refs, authors>>
           \/ \E b \in Branches : \E c : WritesRef(p, b, c)
    BY <1>1, <1>2, SaverEffects
  <2>2. AuthorsFinite'
    BY <1>1, <2>1, AuthorsStayFinite DEF TInv
  <2>3. ASSUME NEW q \in Savers
        PROVE  SaverTip(q)'
    <3>1. CASE q = p
      BY <1>1, <1>2, <3>1, SaverTipMoves DEF TInv
    <3>2. CASE q # p
      BY <1>1, <2>1, <3>2, SaverTipFrame DEF TInv
    <3> QED
      BY <3>1, <3>2
  <2>4. StreamTip'
    BY <1>1, <2>1, StreamTipFrame DEF TInv
  <2> QED
    BY <2>2, <2>3, <2>4
<1>3. ASSUME Stream
      PROVE  AuthorsFinite' /\ (\A q \in Savers : SaverTip(q)') /\ StreamTip'
  <2>1. /\ UNCHANGED saver
        /\ \/ UNCHANGED <<refs, authors>>
           \/ \E c : WritesRef("stream", Main, c)
    BY <1>1, <1>3, StreamEffects
  <2>2. Main \in Branches /\ \A q \in Savers : q # "stream"
    BY StoreConstants
  <2>3. AuthorsFinite'
    BY <1>1, <2>1, <2>2, AuthorsStayFinite DEF TInv
  <2>4. \A q \in Savers : SaverTip(q)'
    BY <1>1, <2>1, <2>2, SaverTipFrame DEF TInv
  <2>5. StreamTip'
    BY <1>1, <1>3, StreamTipMoves DEF TInv
  <2> QED
    BY <2>3, <2>4, <2>5
<1>4. AuthorsFinite' /\ (\A q \in Savers : SaverTip(q)') /\ StreamTip'
  <2>1. CASE Sync \/ UNCHANGED vars
    <3>1. UNCHANGED <<saver, stream, authors>> /\ refs'[Local] = refs[Local]
      BY <1>1, <2>1, SyncEffects DEF vars
    <3> QED
      BY <1>1, <3>1, TipsUnderSync DEF TInv
  <2> QED
    BY <1>2, <1>3, <2>1 DEF Next
<1> QED
  BY <1>1, <1>4 DEF TInv

LEMMA OneAuthor ==
  ASSUME NEW S, IsFiniteSet(S), NEW p, Cardinality(S \cup {p}) <= 1
  PROVE  S \subseteq {p}
<1> SUFFICES ASSUME NEW q \in S, q # p PROVE FALSE
  OBVIOUS
<1>1. IsFiniteSet(S \cup {p}) /\ {p} \cup {q} \in SUBSET (S \cup {p})
  BY FS_AddElement
<1>2. Cardinality({p} \cup {q}) = 2
  <2>1. IsFiniteSet({p}) /\ Cardinality({p}) = 1
    BY FS_Singleton
  <2>2. Cardinality({p} \cup {q}) = Cardinality({p}) + 1
    BY <2>1, FS_AddElement
  <2> QED
    BY <2>1, <2>2
<1>3. Cardinality({p} \cup {q}) <= Cardinality(S \cup {p})
  BY <1>1, FS_Subset
<1>4. Cardinality(S \cup {p}) \in Nat
  BY <1>1, FS_CardinalityType
<1> QED
  BY <1>2, <1>3, <1>4

LEMMA SelfAncestor ==
  ASSUME NEW made, Made(made), NEW c \in 1..Len(made)
  PROVE  c \in Ancestors(made, c)
BY AncestorsAre

\* The commit after the tip, on a branch with one author.
LEMMA TipsFollow ==
  ASSUME IInv, AuthorsFinite, [Next]_vars, NEW p, NEW branch \in Branches, NEW c \in 1..Len(commits),
         WritesRef(p, branch, c), NEW b \in Branches, refs[Local][b] # 0,
         Cardinality(authors'[b]) <= 1,
         authors[branch] \subseteq {p} =>
           refs[Local][branch] = commits[c].parent \/ refs[Local][branch] = 0
  PROVE  refs[Local][b] \in Ancestors(commits', refs'[Local][b])
<1>1. /\ refs[Local] \in [Branches -> 0..Len(commits)]
      /\ authors \in [Branches -> SUBSET (Savers \cup {"stream"})]
      /\ Len(commits) \in Nat
  BY SMTT(30) DEF IInv, TypeOK, Dirs
<1>2. UNCHANGED commits /\ Made(commits)
  BY CommitsMade DEF WritesRef
<1>3. CASE b # branch
  <2>1. refs'[Local][b] = refs[Local][b] /\ refs[Local][b] \in 1..Len(commits)
    BY <1>1, <1>3 DEF WritesRef
  <2> QED
    BY <1>1, <1>2, <2>1, SelfAncestor
<1>4. CASE b = branch
  <2>1. refs'[Local][b] = c /\ authors'[b] = authors[b] \cup {p}
    BY <1>1, <1>4 DEF WritesRef
  <2>2. authors[b] \subseteq {p}
    BY <2>1, OneAuthor DEF AuthorsFinite
  <2>3. refs[Local][b] = commits[c].parent /\ refs[Local][b] \in 1..Len(commits)
    BY <1>1, <1>4, <2>2
  <2>4. refs[Local][b] \in Ancestors(commits, commits[c].parent)
    BY <1>2, <2>3, SelfAncestor
  <2>5. refs[Local][b] \in Ancestors(commits, c)
    BY <1>2, <2>4, AncestorsAre
  <2> QED
    BY <1>2, <2>1, <2>5
<1> QED
  BY <1>3, <1>4

\* Who alone writes a branch never loses a commit of it: save reads the tip in one step
\* and replaces it in a later one, the stream names its own last commit, and still
\* whatever the branch named stays in its history.
THEOREM BranchesKept == Spec => BranchKept
<1>1. TInv /\ [Next]_vars =>
        [\A branch \in Branches :
           /\ refs[Local][branch] # 0
           /\ Cardinality(authors'[branch]) <= 1
           /\ ~stream.broken
           => refs[Local][branch] \in Ancestors(commits', refs'[Local][branch])]_vars
  <2> SUFFICES ASSUME TInv, [Next]_vars, NEW b \in Branches,
                      refs[Local][b] # 0, Cardinality(authors'[b]) <= 1, ~stream.broken
               PROVE  refs[Local][b] \in Ancestors(commits', refs'[Local][b])
    OBVIOUS
  <2>1. IInv /\ Made(commits') /\ refs[Local][b] \in 1..Len(commits')
    <3>1. IInv /\ refs[Local][b] \in 1..Len(commits)
      BY DEF TInv, IInv, TypeOK, Dirs
    <3> QED
      BY <3>1, HistoriesKept
  <2>2. CASE refs'[Local] = refs[Local]
    BY <2>1, <2>2, SelfAncestor
  <2>3. ASSUME NEW p \in Savers, saver[p].pc \in {"ref", "branch"}, saver[p].branch \in Branches,
               WritesRef(p, saver[p].branch, saver[p].commit)
        PROVE  refs[Local][b] \in Ancestors(commits', refs'[Local][b])
    <3>1. saver[p].commit \in 1..Len(commits)
      BY <2>1, <2>3 DEF IInv, SaverReady, CommitsLoad, TypeOK, SaverStates, Dirs
    <3>2. authors[saver[p].branch] \subseteq {p} =>
            \/ refs[Local][saver[p].branch] = commits[saver[p].commit].parent
            \/ refs[Local][saver[p].branch] = 0
      BY <2>3 DEF TInv, SaverTip
    <3>3. IInv /\ AuthorsFinite
      BY DEF TInv
    <3> DEFINE c == saver[p].commit
               branch == saver[p].branch
    <3>4. /\ c \in 1..Len(commits) /\ branch \in Branches /\ WritesRef(p, branch, c)
          /\ authors[branch] \subseteq {p} =>
               refs[Local][branch] = commits[c].parent \/ refs[Local][branch] = 0
      BY <2>3, <3>1, <3>2
    <3> HIDE DEF c, branch
    <3> QED
      BY <3>3, <3>4, TipsFollow
  <2>4. ASSUME stream.pc = "ref", WritesRef("stream", Main, stream.commit)
        PROVE  refs[Local][b] \in Ancestors(commits', refs'[Local][b])
    <3>1. stream.commit \in 1..Len(commits) /\ Main \in Branches
      BY <2>1, <2>4, StoreConstants DEF IInv, StreamReady, CommitsLoad, TypeOK, StreamStates, Dirs
    <3>2. authors[Main] \subseteq {"stream"} =>
            refs[Local][Main] = commits[stream.commit].parent
      BY <2>4 DEF TInv, StreamTip
    <3>3. IInv /\ AuthorsFinite
      BY DEF TInv
    <3> DEFINE p == "stream"
               c == stream.commit
    <3>4. /\ c \in 1..Len(commits) /\ WritesRef(p, Main, c)
          /\ authors[Main] \subseteq {p} =>
               refs[Local][Main] = commits[c].parent \/ refs[Local][Main] = 0
      BY <2>4, <3>1, <3>2
    <3> HIDE DEF p, c
    <3> QED
      BY <3>1, <3>3, <3>4, TipsFollow
  <2>5. CASE UNCHANGED vars \/ Sync
    <3>1. refs'[Local] = refs[Local]
      BY <2>1, <2>5, SyncEffects DEF vars
    <3> QED
      BY <2>2, <3>1
  <2>6. CASE \E p \in Savers : Saver(p)
    BY <2>1, <2>2, <2>3, <2>6, SaverEffects
  <2>7. CASE Stream
    BY <2>1, <2>2, <2>4, <2>7, StreamEffects
  <2> QED
    BY <2>5, <2>6, <2>7 DEF Next
<1> QED
  BY <1>1, InitTInv, NextTInv, PTL DEF Spec, BranchKept

-----------------------------------------------------------------------------
(***************************************************************************)
(* What a run streams.  A row is in one place: hashed, in the flush that   *)
(* is being written, or waiting.                                           *)
(***************************************************************************)

PrefixOf(s, t) == Len(s) <= Len(t) /\ \A k \in 1..Len(s) : s[k] = t[k]

RowsOf(s) ==
  /\ IsInjective(s.hashes) /\ IsInjective(s.rows) /\ IsInjective(s.pending)
  /\ Range(s.hashes) \cap Range(s.rows) = {}
  /\ (Range(s.hashes) \cup Range(s.rows)) \cap Range(s.pending) = {}
  /\ Range(s.hashes) \cup Range(s.rows) \cup Range(s.pending) \subseteq {Preamble} \cup s.done
  /\ Range(s.hashes) \cap Unserializable = {}
  /\ ~s.broken =>
       s.done \ Unserializable \subseteq Range(s.hashes) \cup Range(s.rows) \cup Range(s.pending)
  /\ IF s.hashes = <<>> THEN s.rows = <<Preamble>> /\ s.pc = "blobs" /\ s.tip = 0
     ELSE s.hashes[1] = Preamble
  /\ s.pc # "blobs" => s.rows = <<>>

StreamCommits ==
  stream.pc \in {"ref", "HEAD", "current"} =>
    stream.commit \in 1..Len(commits) /\ commits[stream.commit].tree = stream.hashes

\* Between two flushes, if no write failed, or after the ref of one.
Settled(s) == s.pc \in {"HEAD", "current"} \/ (s.pc = "idle" /\ ~s.broken)

\* What Main names is what was hashed when its last flush was written.
Written ==
  authors[Main] = {"stream"} =>
    /\ refs[Local][Main] # 0
    /\ Streamed # <<>> /\ PrefixOf(Streamed, stream.hashes)
    /\ Settled(stream) => Streamed = stream.hashes

SInv == IInv /\ RowsOf(stream) /\ StreamCommits /\ Written

LEMMA AppendedRows ==
  ASSUME NEW S, NEW s \in Seq(S), NEW e \in S
  PROVE  /\ Range(Append(s, e)) = Range(s) \cup {e}
         /\ e \notin Range(s) /\ IsInjective(s) => IsInjective(Append(s, e))
         /\ Append(s, e) # <<>> /\ Append(s, e) \in Seq(S)
         /\ Append(s, e)[1] = IF s = <<>> THEN e ELSE s[1]
         /\ PrefixOf(s, Append(s, e))
<1> DEFINE t == Append(s, e)
<1>1. /\ t \in Seq(S) /\ Len(s) \in Nat /\ Len(t) = Len(s) + 1 /\ t[Len(s) + 1] = e
      /\ \A k \in 1..Len(s) : t[k] = s[k]
      /\ DOMAIN s = 1..Len(s) /\ DOMAIN t = 1..Len(s) + 1
  OBVIOUS
<1> HIDE DEF t
<1>2. \A k \in 1..Len(s) + 1 : k \in 1..Len(s) \/ k = Len(s) + 1
  BY <1>1
<1>3. Range(t) = Range(s) \cup {e}
  <2>1. ASSUME NEW x \in Range(t)
        PROVE  x \in Range(s) \cup {e}
    <3>1. PICK k \in 1..Len(s) + 1 : x = t[k]
      BY <1>1 DEF Range
    <3> QED
      BY <1>1, <1>2, <3>1 DEF Range
  <2>2. ASSUME NEW x \in Range(s) \cup {e}
        PROVE  x \in Range(t)
    <3>1. CASE x = e
      <4>1. Len(s) + 1 \in 1..Len(s) + 1
        BY <1>1
      <4> QED
        BY <1>1, <3>1, <4>1 DEF Range
    <3>2. CASE x \in Range(s)
      <4>1. PICK k \in 1..Len(s) : x = s[k]
        BY <1>1, <3>2 DEF Range
      <4>2. k \in 1..Len(s) + 1
        BY <1>1
      <4> QED
        BY <1>1, <4>1, <4>2 DEF Range
    <3> QED
      BY <2>2, <3>1, <3>2
  <2> QED
    BY <2>1, <2>2
<1>4. e \notin Range(s) /\ IsInjective(s) => IsInjective(t)
  <2> SUFFICES ASSUME e \notin Range(s), IsInjective(s),
                      NEW j \in 1..Len(s) + 1, NEW k \in 1..Len(s) + 1, t[j] = t[k]
               PROVE  j = k
    BY <1>1 DEF IsInjective
  <2>1. \A i \in 1..Len(s) : s[i] # e
    BY <1>1 DEF Range
  <2>2. \A h, i \in 1..Len(s) : s[h] = s[i] => h = i
    BY <1>1 DEF IsInjective
  <2> QED
    BY <1>1, <1>2, <2>1, <2>2
<1>5. t # <<>>
  BY <1>1
<1>6. t[1] = IF s = <<>> THEN e ELSE s[1]
  <2>1. CASE s = <<>>
    BY <1>1, <2>1
  <2>2. CASE s # <<>>
    <3>1. 1 \in 1..Len(s)
      BY <2>2
    <3> QED
      BY <1>1, <2>2, <3>1
  <2> QED
    BY <2>1, <2>2
<1>7. PrefixOf(s, t)
  BY <1>1 DEF PrefixOf
<1> QED
  BY <1>1, <1>3, <1>4, <1>5, <1>6, <1>7 DEF t

LEMMA TailRows ==
  ASSUME NEW S, NEW s \in Seq(S), s # <<>>, IsInjective(s)
  PROVE  /\ Head(s) \in Range(s)
         /\ Range(Tail(s)) = Range(s) \ {Head(s)}
         /\ IsInjective(Tail(s))
<1> DEFINE t == Tail(s)
<1>1. /\ t \in Seq(S) /\ Len(s) \in Nat /\ Len(s) >= 1 /\ Head(s) = s[1]
      /\ Len(t) = Len(s) - 1 /\ \A k \in 1..Len(s) - 1 : t[k] = s[k + 1]
      /\ DOMAIN s = 1..Len(s) /\ DOMAIN t = 1..Len(s) - 1
  OBVIOUS
<1> HIDE DEF t
<1>2. /\ 1 \in 1..Len(s)
      /\ \A k \in 1..Len(s) - 1 : k + 1 \in 1..Len(s) /\ k + 1 # 1
      /\ \A k \in 1..Len(s) : k # 1 => k - 1 \in 1..Len(s) - 1 /\ (k - 1) + 1 = k
  BY <1>1
<1>3. \A j, k \in 1..Len(s) : s[j] = s[k] => j = k
  BY <1>1 DEF IsInjective
<1>4. Head(s) \in Range(s)
  BY <1>1, <1>2 DEF Range
<1>5. Range(t) = Range(s) \ {Head(s)}
  <2>1. ASSUME NEW x \in Range(t)
        PROVE  x \in Range(s) \ {Head(s)}
    <3>1. PICK k \in 1..Len(s) - 1 : x = t[k]
      BY <1>1 DEF Range
    <3>2. x = s[k + 1] /\ k + 1 \in 1..Len(s) /\ k + 1 # 1
      BY <1>1, <1>2, <3>1
    <3> QED
      BY <1>1, <1>2, <1>3, <3>2 DEF Range
  <2>2. ASSUME NEW x \in Range(s), x # Head(s)
        PROVE  x \in Range(t)
    <3>1. PICK k \in 1..Len(s) : x = s[k]
      BY <1>1 DEF Range
    <3>2. k - 1 \in 1..Len(s) - 1 /\ (k - 1) + 1 = k
      BY <1>1, <1>2, <2>2, <3>1
    <3>3. t[k - 1] = s[k]
      BY <1>1, <3>2
    <3> QED
      BY <1>1, <3>1, <3>2, <3>3 DEF Range
  <2> QED
    BY <2>1, <2>2
<1>6. IsInjective(t)
  <2> SUFFICES ASSUME NEW j \in 1..Len(s) - 1, NEW k \in 1..Len(s) - 1, t[j] = t[k]
               PROVE  j = k
    BY <1>1 DEF IsInjective
  <2>1. j + 1 = k + 1
    BY <1>1, <1>2, <1>3
  <2> QED
    BY <2>1
<1> QED
  BY <1>4, <1>5, <1>6 DEF t

LEMMA NoRows == Range(<<>>) = {} /\ IsInjective(<<>>)
BY DEF Range, IsInjective

LEMMA PrefixRows ==
  ASSUME NEW S, NEW s \in Seq(S), NEW t \in Seq(S), PrefixOf(s, t)
  PROVE  /\ Range(s) \subseteq Range(t)
         /\ IsInjective(t) => IsInjective(s)
         /\ s # <<>> => Head(s) = t[1]
         /\ s = SubSeq(t, 1, Len(s))
         /\ \A u \in Seq(S) : PrefixOf(t, u) => PrefixOf(s, u)
<1>1. /\ Len(s) \in Nat /\ Len(t) \in Nat /\ Len(s) <= Len(t)
      /\ DOMAIN s = 1..Len(s) /\ DOMAIN t = 1..Len(t)
      /\ \A k \in 1..Len(s) : k \in 1..Len(t) /\ s[k] = t[k]
  BY DEF PrefixOf
<1>2. Range(s) \subseteq Range(t)
  BY <1>1 DEF Range
<1>3. IsInjective(t) => IsInjective(s)
  BY <1>1 DEF IsInjective
<1>4. s # <<>> => Head(s) = t[1]
  <2> SUFFICES ASSUME s # <<>> PROVE Head(s) = t[1]
    OBVIOUS
  <2>1. 1 \in 1..Len(s) /\ Head(s) = s[1]
    OBVIOUS
  <2> QED
    BY <1>1, <2>1
<1>5. s = SubSeq(t, 1, Len(s))
  <2> DEFINE u == SubSeq(t, 1, Len(s))
  <2>1. u \in Seq(S) /\ Len(u) = Len(s) /\ \A k \in 1..Len(s) : u[k] = t[k]
    BY <1>1
  <2> HIDE DEF u
  <2>2. s = u
    BY <1>1, <2>1
  <2> QED
    BY <2>2 DEF u
<1>6. \A u \in Seq(S) : PrefixOf(t, u) => PrefixOf(s, u)
  BY <1>1 DEF PrefixOf
<1> QED
  BY <1>2, <1>3, <1>4, <1>5, <1>6

\* A flush takes what waits, or drops it if none of it can be written.
LEMMA FlushedRows ==
  ASSUME NEW s \in StreamStates, s.pc = "idle", RowsOf(s)
  PROVE  RowsOf(Flushed(s))
<1>1. s.hashes # <<>> /\ s.rows = <<>>
  BY DEF RowsOf
<1>2. CASE Range(s.pending) \subseteq Unserializable
  <2>1. Flushed(s) = [s EXCEPT !.pending = <<>>]
    BY <1>2 DEF Flushed
  <2>2. /\ Flushed(s).hashes = s.hashes /\ Flushed(s).rows = <<>> /\ Flushed(s).pending = <<>>
        /\ Flushed(s).done = s.done /\ Flushed(s).broken = s.broken
    BY <1>1, <2>1 DEF StreamStates
  <2>3. Flushed(s).pc = "idle"
    BY <2>1 DEF StreamStates
  <2> QED
    BY <1>1, <1>2, <2>2, <2>3, NoRows DEF RowsOf
<1>3. CASE ~(Range(s.pending) \subseteq Unserializable)
  <2>1. Flushed(s) = [s EXCEPT !.pc = "blobs", !.rows = s.pending, !.pending = <<>>]
    BY <1>3 DEF Flushed
  <2>2. /\ Flushed(s).hashes = s.hashes /\ Flushed(s).rows = s.pending /\ Flushed(s).pending = <<>>
        /\ Flushed(s).done = s.done /\ Flushed(s).broken = s.broken /\ Flushed(s).pc = "blobs"
    BY <2>1 DEF StreamStates
  <2> QED
    BY <1>1, <2>2, NoRows DEF RowsOf
<1> QED
  BY <1>2, <1>3

LEMMA StreamRows ==
  ASSUME IInv, RowsOf(stream), Stream
  PROVE  /\ RowsOf(stream')
         /\ PrefixOf(stream.hashes, stream'.hashes)
         /\ stream'.hashes = stream.hashes \/ StreamBlob
<1>0. /\ stream \in StreamStates
      /\ stream.hashes \in Seq({Preamble} \cup Results)
      /\ stream.rows \in Seq({Preamble} \cup Results)
      /\ stream.pending \in Seq(Results)
      /\ Preamble \notin Results /\ Unserializable \subseteq Results
  BY StoreConstants DEF IInv, TypeOK, StreamStates
<1>1. PrefixOf(stream.hashes, stream.hashes)
  BY <1>0 DEF PrefixOf
<1>2. ASSUME NEW i \in Results, OnInterviewComplete(i)
      PROVE  RowsOf(stream') /\ stream'.hashes = stream.hashes
  <2> DEFINE s == [stream EXCEPT !.pending = Append(@, i), !.done = @ \cup {i}]
  <2>1. /\ s.hashes = stream.hashes /\ s.rows = stream.rows /\ s.pending = Append(stream.pending, i)
        /\ s.done = stream.done \cup {i} /\ s.broken = stream.broken /\ s.pc = stream.pc
        /\ s.tip = stream.tip /\ s \in StreamStates
    <3>1. Append(stream.pending, i) \in Seq(Results) /\ stream.done \cup {i} \in SUBSET Results
      BY <1>0 DEF StreamStates
    <3> QED
      BY <1>0, <3>1 DEF StreamStates
  <2>2. stream.pc = "idle" /\ i \notin stream.done /\ (stream' = s \/ stream' = Flushed(s))
    BY <1>2 DEF OnInterviewComplete
  <2> HIDE DEF s
  <2>3. /\ i \notin Range(stream.hashes) /\ i \notin Range(stream.rows) /\ i \notin Range(stream.pending)
    BY <1>0, <2>2 DEF RowsOf
  <2>4. Range(s.pending) = Range(stream.pending) \cup {i} /\ IsInjective(s.pending)
    BY <1>0, <2>1, <2>3, AppendedRows DEF RowsOf
  <2>5. RowsOf(s)
    BY <2>1, <2>2, <2>3, <2>4 DEF RowsOf
  <2> QED
    BY <2>1, <2>2, <2>5, FlushedRows, FlushedKeeps
<1>3. ASSUME Finalize
      PROVE  RowsOf(stream') /\ stream'.hashes = stream.hashes
  <2> DEFINE s == [stream EXCEPT !.ended = TRUE]
  <2>1. /\ s.hashes = stream.hashes /\ s.rows = stream.rows /\ s.pending = stream.pending
        /\ s.done = stream.done /\ s.broken = stream.broken /\ s.pc = stream.pc
        /\ s.tip = stream.tip /\ s \in StreamStates
    BY <1>0 DEF StreamStates
  <2>2. stream.pc = "idle" /\ stream' = Flushed(s)
    BY <1>3 DEF Finalize
  <2> HIDE DEF s
  <2>3. RowsOf(s)
    BY <2>1 DEF RowsOf
  <2> QED
    BY <2>1, <2>2, <2>3, FlushedRows, FlushedKeeps
<1>4. ASSUME StreamDrop
      PROVE  RowsOf(stream') /\ stream'.hashes = stream.hashes
  <2> DEFINE row == Head(stream.rows)
             rest == Tail(stream.rows)
  <2>1. /\ stream.pc = "blobs" /\ stream.rows # <<>> /\ row \in Unserializable
        /\ stream' = [stream EXCEPT !.rows = rest]
    BY <1>4 DEF StreamDrop
  <2>2. /\ stream'.hashes = stream.hashes /\ stream'.rows = rest /\ stream'.pending = stream.pending
        /\ stream'.done = stream.done /\ stream'.broken = stream.broken /\ stream'.pc = "blobs"
    BY <1>0, <2>1 DEF StreamStates
  <2>3. Range(rest) = Range(stream.rows) \ {row} /\ IsInjective(rest)
    BY <1>0, <2>1, TailRows DEF RowsOf
  <2>4. stream.hashes # <<>>
    <3> SUFFICES ASSUME stream.hashes = <<>> PROVE FALSE
      OBVIOUS
    <3>1. stream.rows = <<Preamble>>
      BY DEF RowsOf
    <3> QED
      BY <1>0, <2>1, <3>1
  <2> HIDE DEF row, rest
  <2> QED
    BY <2>1, <2>2, <2>3, <2>4 DEF RowsOf
<1>5. ASSUME StreamBlob
      PROVE  RowsOf(stream') /\ PrefixOf(stream.hashes, stream'.hashes)
  <2> DEFINE row == Head(stream.rows)
             rest == Tail(stream.rows)
             hashes == Append(stream.hashes, row)
  <2>1. /\ stream.pc = "blobs" /\ stream.rows # <<>> /\ row \notin Unserializable
        /\ stream' = [stream EXCEPT !.hashes = hashes, !.rows = rest]
    BY <1>5 DEF StreamBlob
  <2>2. /\ stream'.hashes = hashes /\ stream'.rows = rest /\ stream'.pending = stream.pending
        /\ stream'.done = stream.done /\ stream'.broken = stream.broken /\ stream'.pc = "blobs"
    BY <1>0, <2>1 DEF StreamStates
  <2>3. /\ row \in Range(stream.rows) /\ Range(rest) = Range(stream.rows) \ {row}
        /\ IsInjective(rest)
    BY <1>0, <2>1, TailRows DEF RowsOf
  <2>4. row \in {Preamble} \cup Results
    BY <1>0, <2>1
  <2>5. row \notin Range(stream.hashes)
    BY <2>3 DEF RowsOf
  <2>6. stream.hashes = <<>> => row = Preamble
    <3> SUFFICES ASSUME stream.hashes = <<>> PROVE row = Preamble
      OBVIOUS
    <3>1. stream.rows = <<Preamble>>
      BY DEF RowsOf
    <3> QED
      BY <3>1
  <2> HIDE DEF row, rest
  <2>7. /\ Range(hashes) = Range(stream.hashes) \cup {row} /\ IsInjective(hashes)
        /\ hashes # <<>> /\ PrefixOf(stream.hashes, hashes)
        /\ hashes[1] = IF stream.hashes = <<>> THEN row ELSE stream.hashes[1]
    BY <1>0, <2>4, <2>5, AppendedRows DEF RowsOf
  <2> HIDE DEF hashes
  <2>8. hashes[1] = Preamble
    BY <2>6, <2>7 DEF RowsOf
  <2> QED
    BY <2>1, <2>2, <2>3, <2>5, <2>7, <2>8 DEF RowsOf
<1>6. ASSUME \/ StreamTree \/ StreamCommit \/ StreamRef \/ StreamHead \/ StreamCurrent
      PROVE  RowsOf(stream') /\ stream'.hashes = stream.hashes
  <2>1. /\ stream'.hashes = stream.hashes /\ stream'.rows = stream.rows
        /\ stream'.pending = stream.pending /\ stream'.done = stream.done
        /\ stream'.broken = stream.broken
    BY <1>0, <1>6 DEF StreamTree, StreamCommit, StreamRef, StreamHead, StreamCurrent, StreamGoes,
       StreamStates
  <2>2. stream.rows = <<>>
    BY <1>6 DEF StreamTree, StreamCommit, StreamRef, StreamHead, StreamCurrent, RowsOf
  <2>3. stream.hashes # <<>>
    <3>1. <<Preamble>> # <<>>
      OBVIOUS
    <3> QED
      BY <2>2, <3>1 DEF RowsOf
  <2> QED
    BY <2>1, <2>2, <2>3 DEF RowsOf
<1>7. ASSUME StreamFails
      PROVE  RowsOf(stream') /\ stream'.hashes = stream.hashes
  <2>1. stream' = [stream EXCEPT !.pc = "idle", !.rows = <<>>, !.commit = 0, !.broken = TRUE]
    BY <1>7 DEF StreamFails
  <2>2. /\ stream'.hashes = stream.hashes /\ stream'.rows = <<>> /\ stream'.pending = stream.pending
        /\ stream'.done = stream.done /\ stream'.broken
    BY <1>0, <2>1 DEF StreamStates
  <2>3. stream.hashes # <<>>
    BY <1>7 DEF StreamFails, RowsOf
  <2> QED
    BY <2>2, <2>3, NoRows DEF RowsOf
<1> QED
  BY <1>1, <1>2, <1>3, <1>4, <1>5, <1>6, <1>7 DEF Stream

LEMMA StreamCommitsKept ==
  ASSUME IInv, StreamCommits, [Next]_vars
  PROVE  StreamCommits'
<1>0. /\ stream \in StreamStates /\ commits \in Seq([tree : Seq(Rows), parent : Nat])
      /\ Len(commits) \in Nat /\ Grows
  BY NextGrows DEF IInv, TypeOK
<1>1. ASSUME UNCHANGED stream
      PROVE  StreamCommits'
  BY <1>0, <1>1 DEF StreamCommits, Grows
<1>2. ASSUME StreamCommit
      PROVE  StreamCommits'
  <2>1. /\ stream'.commit = Len(commits) + 1 /\ stream'.hashes = stream.hashes
        /\ MakeCommit(stream.hashes, stream.tip)
    BY <1>0, <1>2 DEF StreamCommit, StreamStates
  <2>2. /\ Len(commits') = Len(commits) + 1
        /\ commits'[Len(commits) + 1] = [tree |-> stream.hashes, parent |-> stream.tip]
    BY <1>0, <2>1 DEF MakeCommit
  <2>3. Len(commits) + 1 \in 1..Len(commits')
    BY <1>0, <2>2
  <2> QED
    BY <2>1, <2>2, <2>3 DEF StreamCommits
<1>3. ASSUME StreamRef \/ StreamHead
      PROVE  StreamCommits'
  BY <1>0, <1>3 DEF StreamRef, StreamHead, StreamGoes, StreamStates, StreamCommits
<1>4. ASSUME Stream, ~StreamCommit, ~StreamRef, ~StreamHead
      PROVE  stream'.pc \in {"idle", "blobs", "commit"}
  <2>1. ASSUME NEW i \in Results, OnInterviewComplete(i)
        PROVE  stream'.pc \in {"idle", "blobs"}
    BY <1>0, <2>1 DEF OnInterviewComplete, Flushed, StreamStates
  <2>2. ASSUME Finalize
        PROVE  stream'.pc \in {"idle", "blobs"}
    BY <1>0, <2>2 DEF Finalize, Flushed, StreamStates
  <2>3. ASSUME StreamDrop \/ StreamBlob \/ StreamTree \/ StreamCurrent \/ StreamFails
        PROVE  stream'.pc \in {"idle", "blobs", "commit"}
    BY <1>0, <2>3 DEF StreamDrop, StreamBlob, StreamTree, StreamCurrent, StreamFails, StreamGoes,
       StreamStates
  <2> QED
    BY <1>4, <2>1, <2>2, <2>3 DEF Stream
<1>5. ASSUME Stream
      PROVE  StreamCommits'
  BY <1>2, <1>3, <1>4, <1>5 DEF StreamCommits
<1>6. ASSUME Sync \/ (\E p \in Savers : Saver(p)) \/ UNCHANGED vars
      PROVE  UNCHANGED stream
  BY <1>6, SaverEffects, SyncEffects DEF vars
<1> QED
  BY <1>1, <1>5, <1>6 DEF Next

\* On a branch of its own only the stream's ref changes what is streamed.
LEMMA MainSteps ==
  ASSUME IInv, [Next]_vars, authors'[Main] = {"stream"}
  PROVE  \/ StreamRef
         \/ /\ refs'[Local][Main] = refs[Local][Main] /\ authors[Main] = {"stream"}
            /\ UNCHANGED stream \/ (Stream /\ ~StreamRef)
<1>0. /\ refs[Local] \in [Branches -> 0..Len(commits)] /\ Main \in Branches
      /\ authors \in [Branches -> SUBSET (Savers \cup {"stream"})]
      /\ "stream" \notin Savers
  BY StoreConstants DEF IInv, TypeOK, Dirs
<1>1. ASSUME NEW p \in Savers, Saver(p)
      PROVE  /\ refs'[Local][Main] = refs[Local][Main] /\ authors[Main] = {"stream"}
             /\ UNCHANGED stream
  <2>1. CASE UNCHANGED <<refs, authors>>
    BY <1>1, <2>1, SaverEffects
  <2>2. ASSUME NEW b \in Branches, NEW c, WritesRef(p, b, c)
        PROVE  refs'[Local][Main] = refs[Local][Main] /\ authors[Main] = {"stream"}
    <3>1. b # Main
      BY <1>0, <2>2 DEF WritesRef
    <3> QED
      BY <1>0, <2>2, <3>1 DEF WritesRef
  <2> QED
    BY <1>1, <2>1, <2>2, SaverEffects
<1>2. ASSUME Stream, ~StreamRef
      PROVE  refs'[Local][Main] = refs[Local][Main] /\ authors[Main] = {"stream"}
  <2>1. UNCHANGED <<refs, authors>>
    BY <1>2 DEF Stream, OnInterviewComplete, Finalize, StreamDrop, StreamBlob, StreamTree, StreamCommit,
       StreamHead, StreamCurrent, StreamFails
  <2> QED
    BY <2>1
<1>3. ASSUME Sync
      PROVE  /\ refs'[Local][Main] = refs[Local][Main] /\ authors[Main] = {"stream"}
             /\ UNCHANGED stream
  BY <1>3, SyncEffects
<1>4. ASSUME UNCHANGED vars
      PROVE  /\ refs'[Local][Main] = refs[Local][Main] /\ authors[Main] = {"stream"}
             /\ UNCHANGED stream
  BY <1>4 DEF vars
<1> QED
  BY <1>1, <1>2, <1>3, <1>4 DEF Next

\* A step that leaves the stream between two flushes, or after its ref, found it there.
LEMMA SettledBefore ==
  ASSUME IInv, Stream, ~StreamRef,
         Settled(stream')
  PROVE  Settled(stream)
<1> USE DEF Settled
<1>0. stream \in StreamStates
  BY DEF IInv, TypeOK
<1>1. ASSUME NEW i \in Results, OnInterviewComplete(i)
      PROVE  stream.pc = "idle" /\ ~stream.broken
  <2>1. /\ stream.pc = "idle"
        /\ ~stream'.broken => ~stream.broken
        /\ stream'.pc \in {"idle", "blobs"}
    BY <1>0, <1>1 DEF OnInterviewComplete, Flushed, StreamStates
  <2> QED
    BY <2>1
<1>2. ASSUME Finalize
      PROVE  stream.pc = "idle" /\ ~stream.broken
  <2>1. /\ stream.pc = "idle"
        /\ ~stream'.broken => ~stream.broken
        /\ stream'.pc \in {"idle", "blobs"}
    BY <1>0, <1>2 DEF Finalize, Flushed, StreamStates
  <2> QED
    BY <2>1
<1>3. ASSUME StreamHead \/ StreamCurrent
      PROVE  stream.pc \in {"HEAD", "current"}
  BY <1>3 DEF StreamHead, StreamCurrent
<1>4. ASSUME StreamDrop \/ StreamBlob \/ StreamTree \/ StreamCommit
      PROVE  FALSE
  <2>1. stream'.pc \in {"blobs", "commit", "ref"}
    BY <1>0, <1>4 DEF StreamDrop, StreamBlob, StreamTree, StreamCommit, StreamGoes, StreamStates
  <2> QED
    BY <2>1
<1>5. ASSUME StreamFails
      PROVE  FALSE
  <2>1. stream'.pc = "idle" /\ stream'.broken
    BY <1>0, <1>5 DEF StreamFails, StreamStates
  <2> QED
    BY <2>1
<1>6. \/ \E i \in Results : OnInterviewComplete(i)
      \/ Finalize \/ StreamHead \/ StreamCurrent
      \/ StreamDrop \/ StreamBlob \/ StreamTree \/ StreamCommit \/ StreamFails
  BY DEF Stream
<1> QED
  BY <1>1, <1>2, <1>3, <1>4, <1>5, <1>6

LEMMA StreamedTypes ==
  ASSUME SInv, authors[Main] = {"stream"}
  PROVE  /\ refs[Local][Main] \in 1..Len(commits)
         /\ Streamed \in Seq(Rows) /\ stream.hashes \in Seq(Rows)
<1>1. refs[Local][Main] \in 1..Len(commits) /\ TypeOK
  BY SMTT(30), StoreConstants DEF SInv, Written, IInv, TypeOK, Dirs
<1>2. Streamed \in Seq(Rows)
  BY <1>1, CommitTypes DEF Streamed
<1>3. stream.hashes \in Seq({Preamble} \cup Results) /\ {Preamble} \cup Results \subseteq Rows
  BY <1>1 DEF TypeOK, StreamStates, Rows
<1> QED
  BY <1>1, <1>2, <1>3

LEMMA WrittenKept ==
  ASSUME SInv, [Next]_vars
  PROVE  Written'
<1> SUFFICES ASSUME authors'[Main] = {"stream"}
             PROVE  (/\ refs[Local][Main] # 0
                     /\ Streamed # <<>> /\ PrefixOf(Streamed, stream.hashes)
                     /\ Settled(stream) => Streamed = stream.hashes)'
  BY DEF Written
<1>1. IInv /\ Grows /\ stream \in StreamStates /\ RowsOf(stream) /\ StreamCommits
  BY NextGrows DEF SInv, IInv, TypeOK
<1>2. ASSUME StreamRef
      PROVE  /\ refs'[Local][Main] # 0 /\ Streamed' = stream.hashes /\ stream.hashes # <<>>
             /\ stream'.hashes = stream.hashes
  <2>1. /\ stream.pc = "ref" /\ WriteRef(Local, Main, stream.commit) /\ UNCHANGED commits
        /\ stream'.hashes = stream.hashes
    BY <1>1, <1>2 DEF StreamRef, StreamGoes, StreamStates
  <2>2. refs'[Local][Main] = stream.commit
    <3>1. refs[Local] \in [Branches -> 0..Len(commits)] /\ Main \in Branches
      BY <1>1, StoreConstants DEF IInv, TypeOK, Dirs
    <3>2. refs'[Local] = [refs[Local] EXCEPT ![Main] = stream.commit]
      BY <1>1, <2>1, <3>1, LocalWrites
    <3> QED
      BY <3>1, <3>2
  <2>3. stream.commit \in 1..Len(commits) /\ commits[stream.commit].tree = stream.hashes
    BY <1>1, <2>1 DEF StreamCommits
  <2>4. stream.hashes # <<>>
    BY <1>1, <2>1 DEF RowsOf
  <2> QED
    BY <2>1, <2>2, <2>3, <2>4 DEF Streamed
<1>3. CASE StreamRef
  BY <1>1, <1>2, <1>3 DEF PrefixOf
<1>4. CASE /\ refs'[Local][Main] = refs[Local][Main] /\ authors[Main] = {"stream"}
           /\ UNCHANGED stream \/ (Stream /\ ~StreamRef)
  <2>1. /\ refs[Local][Main] \in 1..Len(commits)
        /\ Streamed # <<>> /\ PrefixOf(Streamed, stream.hashes)
        /\ Settled(stream) => Streamed = stream.hashes
    BY <1>4, StreamedTypes DEF SInv, Written
  <2>2. Streamed' = Streamed
    BY <1>1, <1>4, <2>1 DEF Streamed, Grows
  <2>3. CASE UNCHANGED stream
    BY <1>4, <2>1, <2>2, <2>3
  <2>4. CASE Stream /\ ~StreamRef
    <3>1. PrefixOf(Streamed, stream'.hashes)
      <4>1. PrefixOf(stream.hashes, stream'.hashes)
        BY <1>1, <2>4, StreamRows
      <4>2. stream'.hashes \in Seq(Rows)
        BY <1>1, NextIInv DEF IInv, TypeOK, StreamStates, Rows
      <4> QED
        BY <1>4, <2>1, <4>1, <4>2, StreamedTypes, PrefixRows
    <3>2. Settled(stream') => Streamed = stream'.hashes
      <4> SUFFICES ASSUME Settled(stream')
                   PROVE  Streamed = stream'.hashes
        OBVIOUS
      <4>1. Streamed = stream.hashes
        BY <1>1, <2>1, <2>4, SettledBefore
      <4>2. ~StreamBlob
        BY <1>1 DEF StreamBlob, StreamStates, Settled
      <4>3. stream'.hashes = stream.hashes
        BY <1>1, <2>4, <4>2, StreamRows
      <4> QED
        BY <4>1, <4>3
    <3> QED
      BY <1>4, <2>1, <2>2, <3>1, <3>2
  <2> QED
    BY <1>4, <2>3, <2>4
<1> QED
  BY <1>1, <1>3, <1>4, MainSteps

LEMMA InitSInv == Init => SInv
<1> SUFFICES ASSUME Init PROVE SInv
  OBVIOUS
<1>1. IInv
  BY InitIInv
<1>2. RowsOf(stream)
  BY StoreConstants DEF Init, RowsOf, StreamNew, Range, IsInjective
<1>3. StreamCommits /\ Written
  BY StoreConstants DEF Init, StreamCommits, Written, StreamNew
<1> QED
  BY <1>1, <1>2, <1>3 DEF SInv

LEMMA NextSInv == SInv /\ [Next]_vars => SInv'
<1> SUFFICES ASSUME SInv, [Next]_vars PROVE SInv'
  OBVIOUS
<1>1. IInv /\ RowsOf(stream) /\ StreamCommits
  BY DEF SInv
<1>2. IInv' /\ StreamCommits' /\ Written'
  BY <1>1, NextIInv, StreamCommitsKept, WrittenKept
<1>3. RowsOf(stream')
  <2>1. ASSUME Sync \/ (\E p \in Savers : Saver(p)) \/ UNCHANGED vars
        PROVE  UNCHANGED stream
    BY <1>1, <2>1, SaverEffects, SyncEffects DEF vars
  <2> QED
    BY <1>1, <2>1, StreamRows DEF Next
<1> QED
  BY <1>2, <1>3 DEF SInv, RowsOf

\* In every state: a row is hashed, being written or waiting, never in two of these; and
\* what Main names is a beginning of what was hashed.
THEOREM StreamInvariant == Spec => []SInv
BY InitSInv, NextSInv, PTL DEF Spec

\* Whatever the size of a batch, and however saves and syncs interleave with the run:
\* on a branch of its own a stream has each result once, none before its interview
\* ended, and after a flush that no write failed in it lacks only those that wait for
\* the next and those that no flush can write.
THEOREM StreamExactCorrect == Spec => []StreamExact
<1>1. SInv => StreamExact
  <2> SUFFICES ASSUME SInv, authors[Main] = {"stream"}
               PROVE  /\ Head(Streamed) = Preamble
                      /\ IsInjective(Streamed)
                      /\ Range(Streamed) \subseteq {Preamble} \cup stream.done
                      /\ stream.pc = "idle" /\ ~stream.broken =>
                           Range(Streamed) \ {Preamble} =
                             (stream.done \ Unserializable) \ Range(stream.pending)
    BY DEF StreamExact
  <2>1. /\ Streamed # <<>> /\ PrefixOf(Streamed, stream.hashes)
        /\ stream.pc = "idle" /\ ~stream.broken => Streamed = stream.hashes
        /\ RowsOf(stream) /\ stream \in StreamStates
    BY DEF SInv, Written, Settled, IInv, TypeOK
  <2>2. /\ Range(Streamed) \subseteq Range(stream.hashes)
        /\ IsInjective(stream.hashes) => IsInjective(Streamed)
        /\ Head(Streamed) = stream.hashes[1]
    BY <2>1, StreamedTypes, PrefixRows
  <2>3. stream.hashes # <<>>
    BY <2>1, StreamedTypes DEF PrefixOf
  <2>4. ASSUME stream.pc = "idle", ~stream.broken
        PROVE  Range(stream.hashes) \ {Preamble} = (stream.done \ Unserializable) \ Range(stream.pending)
    <3>1. Range(stream.rows) = {} /\ stream.done \subseteq Results /\ Preamble \notin Results
      BY <2>1, <2>4, NoRows, StoreConstants DEF RowsOf, StreamStates
    <3> QED
      BY <2>1, <2>4, <3>1 DEF RowsOf
  <2> QED
    BY <2>1, <2>2, <2>3, <2>4 DEF RowsOf
<1> QED
  BY <1>1, StreamInvariant, PTL

\* Even if writes of a flush fail: what Main names only grows at its end, so that no
\* result that was once streamed is lost or moved.
THEOREM StreamNeverShrinks == Spec => StreamGrows
<1>1. SInv /\ SInv' /\ [Next]_vars =>
        [authors[Main] = {"stream"} /\ authors'[Main] = {"stream"} =>
           /\ Len(Streamed) <= Len(Streamed')
           /\ Streamed = SubSeq(Streamed', 1, Len(Streamed))]_vars
  <2> SUFFICES ASSUME SInv, [Next]_vars, authors[Main] = {"stream"}, authors'[Main] = {"stream"}
               PROVE  /\ Len(Streamed) <= Len(Streamed')
                      /\ Streamed = SubSeq(Streamed', 1, Len(Streamed))
    OBVIOUS
  <2>1. IInv /\ Grows /\ StreamCommits /\ stream \in StreamStates
    BY NextGrows DEF SInv, IInv, TypeOK
  <2>2. /\ PrefixOf(Streamed, stream.hashes) /\ refs[Local][Main] \in 1..Len(commits)
        /\ Streamed \in Seq(Rows) /\ stream.hashes \in Seq(Rows)
    BY StreamedTypes DEF SInv, Written
  <2>3. ASSUME StreamRef
        PROVE  Streamed' = stream.hashes
    <3>1. stream.pc = "ref" /\ WriteRef(Local, Main, stream.commit) /\ UNCHANGED commits
      BY <2>3 DEF StreamRef
    <3>2. refs'[Local] = [refs[Local] EXCEPT ![Main] = stream.commit]
      BY ZenonT(30), <2>1, <3>1, LocalWrites, StoreConstants
    <3>3. refs[Local] \in [Branches -> 0..Len(commits)] /\ Main \in Branches
      BY <2>1, StoreConstants DEF IInv, TypeOK, Dirs
    <3>4. commits[stream.commit].tree = stream.hashes
      BY <2>1, <3>1 DEF StreamCommits
    <3> QED
      BY <3>1, <3>2, <3>3, <3>4 DEF Streamed
  <2>4. ASSUME refs'[Local][Main] = refs[Local][Main]
        PROVE  Streamed' = Streamed
    BY <2>1, <2>2, <2>4 DEF Streamed, Grows
  <2>5. PrefixOf(Streamed, Streamed)
    BY <2>2 DEF PrefixOf
  <2>6. /\ PrefixOf(Streamed, Streamed') /\ Streamed' \in Seq(Rows)
    BY <2>1, <2>2, <2>3, <2>4, <2>5, MainSteps
  <2> QED
    BY <2>2, <2>6, PrefixRows DEF PrefixOf
<1> QED
  BY <1>1, StreamInvariant, PTL DEF Spec, StreamGrows
=============================================================================
