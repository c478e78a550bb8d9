------------------------------ MODULE Archive -------------------------------
(***************************************************************************)
(* pkg/fs: a tree of files goes from one directory to another, through an  *)
(* archive (CreateTar, then ExtractTar) or by CopyDir.  Each step is one   *)
(* file operation, which may fail.  Making an entry in a directory sets    *)
(* the directory's modification time, so the order of the steps matters.   *)
(*                                                                         *)
(* A path is a sequence of numbers, which stand for names in their lexical *)
(* order; << >> is the directory itself.                                   *)
(***************************************************************************)
EXTENDS Naturals, Sequences, SequencesExt

CONSTANT Paths   \* the paths a tree may have

ASSUME ArchiveAssumption ==
  /\ IsFiniteSet(Paths)
  /\ \A p \in Paths : p \in Seq(Nat) /\ p # << >> /\ (Len(p) > 1 => Front(p) \in Paths)

VARIABLES
  mode,     \* "tar" or "copy"
  src,      \* the tree: what is at its paths
  pc,       \* the operation: "create", "extract", "times", "copy", "done"
  archive,  \* headers in the archive, by path
  at,       \* entries of the archive that have been extracted
  dirs,     \* directoryHeaders that are left to be dealt with
  stack,    \* calls of CopyDir in progress, the innermost first
  copied,   \* entries CopyDir is through with
  dest,     \* the new tree
  err       \* "none", "storage" or what the code complains of

vars == <<mode, src, pc, archive, at, dirs, stack, copied, dest, err>>

-----------------------------------------------------------------------------
Kinds == {"dir", "file", "link"}
Now   == 0     \* modification time of what is written here
Then  == 1     \* modification time of what is in the source

Parent(p) == Front(p)
Children(d) == {p \in DOMAIN src : Parent(p) = d}

\* The order of filepath.Walk and, among children, of ioutil.ReadDir.
Before(p, q) ==
  \/ IsStrictPrefix(p, q)
  \/ \E i \in DOMAIN p \cap DOMAIN q : p[i] < q[i] /\ \A k \in 1 .. i - 1 : p[k] = q[k]
FirstOf(S) == CHOOSE p \in S : \A q \in S \ {p} : Before(p, q)

Trees ==
  {t \in UNION {[P -> {[kind |-> k, data |-> "all", mtime |-> Then] : k \in Kinds}]
                : P \in SUBSET Paths} :
     \A p \in DOMAIN t : Len(p) > 1 => Parent(p) \in DOMAIN t /\ t[Parent(p)].kind = "dir"}

Init ==
  /\ mode \in {"tar", "copy"} /\ src \in Trees
  /\ pc = IF mode = "tar" THEN "create" ELSE "copy"
  /\ archive = << >> /\ at = 0 /\ dirs = {}
  /\ stack = << << >> >> /\ copied = {}
  /\ dest = [p \in {<< >>} |-> [kind |-> "dir", data |-> "all", mtime |-> Now]]
  /\ err = "none"

-----------------------------------------------------------------------------
\* The tree with entry e at p; a new entry touches its directory.
With(p, e) ==
  [q \in DOMAIN dest \cup {p} |->
     IF q = p THEN e
     ELSE IF q = Parent(p) /\ p \notin DOMAIN dest THEN [dest[q] EXCEPT !.mtime = Now]
     ELSE dest[q]]

\* os.Chtimes of p to the time it has in the source.
WithTime(p) == [dest EXCEPT ![p].mtime = src[p].mtime]

Stop(why) == pc' = "done" /\ err' = why

\* A file operation fails; what it was writing may be left in part.
StorageFails ==
  /\ pc # "done" /\ Stop("storage")
  /\ \/ UNCHANGED dest
     \/ \E p \in DOMAIN src \ DOMAIN dest :
          /\ src[p].kind = "file" /\ Parent(p) \in DOMAIN dest
          /\ dest' = With(p, [kind |-> "file", data |-> "part", mtime |-> Now])
  /\ UNCHANGED <<mode, src, archive, at, dirs, stack, copied>>

-----------------------------------------------------------------------------
ArchivedPaths == {archive[i] : i \in DOMAIN archive}

\* CreateTar: the header and, for a file, its contents.
WriteEntry ==
  /\ pc = "create" /\ ArchivedPaths # DOMAIN src
  /\ LET p == FirstOf(DOMAIN src \ ArchivedPaths) IN
     /\ archive' = Append(archive, p)
     /\ IF src[p].kind = "link" THEN Stop("unsupported") ELSE UNCHANGED <<pc, err>>
  /\ UNCHANGED <<mode, src, at, dirs, stack, copied, dest>>

\* The deferred Close adds the end of the archive.  Its error is dropped, but the
\* entries are all there and a reader takes the end of the file for the archive's.
CreateDone ==
  /\ pc = "create" /\ ArchivedPaths = DOMAIN src /\ pc' = "extract"
  /\ UNCHANGED <<mode, src, archive, at, dirs, stack, copied, dest, err>>

\* Fault: the time of a directory is set when its header is read.
ExtractEntryEager ==
  /\ pc = "extract" /\ at < Len(archive)
  /\ LET p == archive[at + 1] IN
     /\ at' = at + 1
     /\ IF Parent(p) \in DOMAIN dest
        THEN dest' = With(p, src[p]) /\ UNCHANGED <<pc, err>>
        ELSE Stop("noDirectory") /\ UNCHANGED dest
  /\ UNCHANGED <<mode, src, archive, dirs, stack, copied>>

\* ExtractTar: MkdirAll for a directory, whose time is set later; a file is
\* written, closed and given its time.  OpenFile needs the directory.
ExtractEntry ==
  /\ pc = "extract" /\ at < Len(archive)
  /\ LET p == archive[at + 1] IN
     /\ at' = at + 1
     /\ IF Parent(p) \notin DOMAIN dest
        THEN Stop("noDirectory") /\ UNCHANGED <<dest, dirs>>
        ELSE IF src[p].kind = "dir"
        THEN /\ dest' = With(p, [src[p] EXCEPT !.mtime = Now])
             /\ dirs' = dirs \cup {p} /\ UNCHANGED <<pc, err>>
        ELSE dest' = With(p, src[p]) /\ UNCHANGED <<dirs, pc, err>>
  /\ UNCHANGED <<mode, src, archive, stack, copied>>

ExtractDone ==
  /\ pc = "extract" /\ at = Len(archive) /\ pc' = "times"
  /\ UNCHANGED <<mode, src, archive, at, dirs, stack, copied, dest, err>>

\* The loop over directoryHeaders, a map: in no particular order.
SetDirectoryTime(d) ==
  /\ pc = "times" /\ d \in dirs
  /\ dest' = WithTime(d) /\ dirs' = dirs \ {d}
  /\ UNCHANGED <<mode, src, pc, archive, at, stack, copied, err>>

TimesDone ==
  /\ pc = "times" /\ dirs = {} /\ Stop("none")
  /\ UNCHANGED <<mode, src, archive, at, dirs, stack, copied, dest>>

-----------------------------------------------------------------------------
ToCopy == Children(Head(stack)) \ copied

\* CopyDir: the next entry is a directory, which is made and then copied, ...
CopyDirectory ==
  /\ pc = "copy" /\ ToCopy # {}
  /\ LET p == FirstOf(ToCopy) IN
     /\ src[p].kind = "dir"
     /\ dest' = With(p, [src[p] EXCEPT !.mtime = Now])
     /\ stack' = <<p>> \o stack
  /\ UNCHANGED <<mode, src, pc, archive, at, dirs, copied, err>>

\* ... or a file.  CopyFile follows a link, which must not lead to a directory.
CopyFile ==
  /\ pc = "copy" /\ ToCopy # {}
  /\ LET p == FirstOf(ToCopy) IN
     /\ src[p].kind # "dir"
     /\ dest' = With(p, [src[p] EXCEPT !.kind = "file"])
     /\ copied' = copied \cup {p}
  /\ UNCHANGED <<mode, src, pc, archive, at, dirs, stack, err>>

\* A call of CopyDir returns; the caller sets the time of the directory.
ReturnFromDirectory ==
  /\ pc = "copy" /\ ToCopy = {}
  /\ IF Len(stack) = 1 THEN Stop("none") /\ UNCHANGED <<dest, stack, copied>>
     ELSE /\ dest' = WithTime(Head(stack))
          /\ stack' = Tail(stack) /\ copied' = copied \cup {Head(stack)}
          /\ UNCHANGED <<pc, err>>
  /\ UNCHANGED <<mode, src, archive, at, dirs>>

-----------------------------------------------------------------------------
Finished == pc = "done" /\ UNCHANGED vars

Next ==
  \/ WriteEntry \/ CreateDone \/ ExtractEntry \/ ExtractDone \/ TimesDone
  \/ \E d \in dirs : SetDirectoryTime(d)
  \/ CopyDirectory \/ CopyFile \/ ReturnFromDirectory \/ StorageFails \/ Finished

Spec == Init /\ [][Next]_vars

-----------------------------------------------------------------------------
\* Both ways reproduce the tree when they report no error: every entry with its
\* contents and its time, the times of directories too although their entries
\* are written after them; only a link that is copied becomes a file.  And they
\* do not fail by themselves, because the walk lists a directory before what is
\* in it: an error is one of the storage, or about a link in an archive
\* (tar.go 31, 57-66, 105-159, copy_linux.go 30-63).
Reproduced ==
  pc = "done" =>
    \/ /\ err = "none"
       /\ DOMAIN dest = DOMAIN src \cup {<< >>}
       /\ \A p \in DOMAIN src :
            dest[p] = IF src[p].kind = "link" THEN [src[p] EXCEPT !.kind = "file"] ELSE src[p]
    \/ err = "storage"
    \/ err = "unsupported" /\ mode = "tar" /\ \E p \in DOMAIN src : src[p].kind = "link"
=============================================================================
