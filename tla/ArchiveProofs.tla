--------------------------- MODULE ArchiveProofs ----------------------------
(***************************************************************************)
(* Proofs about Archive for every finite set of paths.                     *)
(*                                                                         *)
(* First the order of the walk: it is a strict total order in which a      *)
(* directory comes before what is in it, so that there is always a next    *)
(* entry and its directory has been dealt with.  Then the inductive        *)
(* invariant: how much of the tree is there at each step of either way,    *)
(* and which directories have the time of now because entries are still    *)
(* being made in them.  Where an induction over paths would be needed, a   *)
(* counterexample of least length, or of least rank in the order, is       *)
(* refuted instead.                                                        *)
(***************************************************************************)
EXTENDS Archive, FiniteSetTheorems, SequenceTheorems, TLAPS

\* The source is a tree, whose entries are in directories.
SrcInv ==
  /\ mode \in {"tar", "copy"}
  /\ DOMAIN src \in SUBSET Paths
  /\ \A p \in DOMAIN src :
       /\ src[p] \in [kind : Kinds, data : {"all"}, mtime : {Then}]
       /\ Parent(p) # << >> => Parent(p) \in DOMAIN src /\ src[Parent(p)].kind = "dir"

\* An entry whose time is still to be set, and one that is done.
Fresh(p) == [src[p] EXCEPT !.mtime = Now]
Final(p) == IF src[p].kind = "link" THEN [src[p] EXCEPT !.kind = "file"] ELSE src[p]

\* In the archive every entry comes after its directory.
ArchiveInv ==
  /\ archive \in Seq(DOMAIN src)
  /\ \A i \in 1 .. Len(archive) :
       /\ src[archive[i]].kind # "link"
       /\ Parent(archive[i]) # << >> => \E k \in 1 .. i - 1 : archive[k] = Parent(archive[i])

Extracted == {archive[i] : i \in 1 .. at}

\* What is extracted so far is there, directories with the time of now until
\* their own is set.
ExtractInv ==
  /\ at \in 0 .. Len(archive)
  /\ DOMAIN dest = {<< >>} \cup Extracted
  /\ dirs \in SUBSET {p \in Extracted : src[p].kind = "dir"}
  /\ \A p \in Extracted : dest[p] = IF p \in dirs THEN Fresh(p) ELSE src[p]

TarInv ==
  mode = "tar" /\ pc # "done" =>
    /\ pc \in {"create", "extract", "times"}
    /\ ArchiveInv /\ ExtractInv
    /\ pc = "create" => at = 0
    /\ pc # "create" => ArchivedPaths = DOMAIN src
    /\ pc = "extract" => \A p \in Extracted : src[p].kind = "dir" => p \in dirs
    /\ pc = "times" => at = Len(archive)

\* The calls in progress are those of a directory, its directory and so on.
StackInv ==
  /\ stack \in Seq(DOMAIN src \cup {<< >>}) /\ Len(stack) > 0
  /\ \A i \in 1 .. Len(stack) : Len(stack[i]) = Len(stack) - i /\ stack[i] \notin copied
  /\ \A i \in 1 .. Len(stack) :
       stack[i] # << >> => src[stack[i]].kind = "dir" /\ dest[stack[i]] = Fresh(stack[i])

Open == {stack[i] : i \in 1 .. Len(stack)}

CopyInv ==
  mode = "copy" /\ pc # "done" =>
    /\ pc = "copy" /\ StackInv
    /\ copied \in SUBSET DOMAIN src
    /\ \A p \in copied : Children(p) \in SUBSET copied
    /\ DOMAIN dest = Open \cup copied
    /\ \A p \in copied : dest[p] = Final(p)

IInv == SrcInv /\ TarInv /\ CopyInv /\ Reproduced

-----------------------------------------------------------------------------
(* Sequences and numbers. *)

LEMMA PrefixOf ==
  ASSUME NEW S, NEW p \in Seq(S), NEW n \in 0 .. Len(p)
  PROVE  /\ SubSeq(p, 1, n) \in Seq(S) /\ Len(SubSeq(p, 1, n)) = n
         /\ \A i \in 1 .. n : SubSeq(p, 1, n)[i] = p[i]
OBVIOUS

LEMMA FrontIs ==
  ASSUME NEW S, NEW p \in Seq(S), p # <<>>
  PROVE  /\ Len(p) \in Nat \ {0}
         /\ Front(p) \in Seq(S) /\ Len(Front(p)) = Len(p) - 1
         /\ \A i \in 1 .. Len(p) - 1 : Front(p)[i] = p[i]
<1>1. Len(p) \in Nat \ {0}
  BY EmptySeq
<1>2. Len(p) - 1 \in 0 .. Len(p)
  BY <1>1
<1>3. PICK n \in 0 .. Len(p) : n = Len(p) - 1
  BY <1>2, Zenon
<1>4. Front(p) = SubSeq(p, 1, n)
  BY <1>3 DEF Front
<1> QED BY <1>1, <1>3, <1>4, PrefixOf

LEMMA IsPrefixMeans ==
  ASSUME NEW p \in Seq(Nat), NEW q \in Seq(Nat)
  PROVE  IsPrefix(p, q) <=> Len(p) =< Len(q) /\ \A i \in 1 .. Len(p) : p[i] = q[i]
<1>1. Len(p) \in Nat /\ Len(q) \in Nat /\ SubSeq(p, 1, Len(p)) = p
  BY LenProperties, SubSeqFull
<1>2. ASSUME Len(p) =< Len(q), \A i \in 1 .. Len(p) : p[i] = q[i]
      PROVE  SubSeq(q, 1, Len(p)) = p
  <2>1. /\ SubSeq(q, 1, Len(p)) \in Seq(Nat) /\ Len(SubSeq(q, 1, Len(p))) = Len(p)
        /\ \A i \in 1 .. Len(p) : SubSeq(q, 1, Len(p))[i] = q[i]
    BY <1>1, <1>2, PrefixOf
  <2> QED BY <1>2, <2>1, SeqEqual
<1>3. ASSUME Len(p) =< Len(q), SubSeq(q, 1, Len(p)) = p
      PROVE  \A i \in 1 .. Len(p) : p[i] = q[i]
  BY <1>1, <1>3, PrefixOf
<1> QED BY <1>1, <1>2, <1>3 DEF IsPrefix

\* A least natural number with a property takes the place of induction.
LEMMA LeastNatural ==
  ASSUME NEW T \in SUBSET Nat, T # {}
  PROVE  \E n \in T : \A m \in T : n =< m
<1>1. PICK n \in T : \A m \in T : ~(<<m, n>> \in OpToRel(<, Nat))
  BY NatLessThanWellFounded, WFMin
<1>2. \A m \in T : ~(m < n)
  BY <1>1 DEF OpToRel
<1> QED BY <1>2

-----------------------------------------------------------------------------
(* The order of the walk. *)

\* p and q differ first at i; p is the beginning of q.
Lex(p, q, i) ==
  /\ i \in Nat \ {0} /\ i =< Len(p) /\ i =< Len(q) /\ p[i] < q[i]
  /\ \A k \in Nat \ {0} : k < i => p[k] = q[k]

Shorter(p, q) == Len(p) < Len(q) /\ \A k \in Nat \ {0} : k =< Len(p) => p[k] = q[k]

LEMMA BeforeMeans ==
  ASSUME NEW p \in Seq(Nat), NEW q \in Seq(Nat)
  PROVE  Before(p, q) <=> Shorter(p, q) \/ \E i : Lex(p, q, i)
<1>0. Len(p) \in Nat /\ Len(q) \in Nat
  BY LenProperties
<1>1. DOMAIN p = 1 .. Len(p) /\ DOMAIN q = 1 .. Len(q)
  BY LenProperties
<1>2. IsStrictPrefix(p, q) <=> Shorter(p, q)
  <2>1. ASSUME Len(p) = Len(q), \A i \in 1 .. Len(p) : p[i] = q[i] PROVE p = q
    BY <2>1, SeqEqual
  <2>2. (\A i \in 1 .. Len(p) : p[i] = q[i]) <=> \A k \in Nat \ {0} : k =< Len(p) => p[k] = q[k]
    BY <1>0, <1>1
  <2>3. IsPrefix(p, q) <=> Len(p) =< Len(q) /\ \A k \in Nat \ {0} : k =< Len(p) => p[k] = q[k]
    BY <2>2, IsPrefixMeans
  <2>4. ASSUME IsStrictPrefix(p, q) PROVE Shorter(p, q)
    <3>1. Len(p) # Len(q)
      BY <2>1, <2>2, <2>3, <2>4 DEF IsStrictPrefix
    <3>2. Len(p) =< Len(q) => Len(p) < Len(q)
      BY <1>0, <3>1
    <3> QED BY <2>3, <2>4, <3>2 DEF IsStrictPrefix, Shorter
  <2>5. ASSUME Shorter(p, q) PROVE IsStrictPrefix(p, q)
    <3>1. Len(p) < Len(q)
      BY <2>5 DEF Shorter
    <3>2. Len(p) =< Len(q) /\ Len(p) # Len(q)
      BY <1>0, <3>1
    <3> QED BY <2>3, <2>5, <3>2 DEF IsStrictPrefix, Shorter
  <2> QED BY <2>4, <2>5
<1>3. (\E i \in DOMAIN p \cap DOMAIN q : p[i] < q[i] /\ \A k \in 1 .. i - 1 : p[k] = q[k])
        <=> \E i : Lex(p, q, i)
  <2>1. ASSUME NEW i PROVE
          (i \in DOMAIN p \cap DOMAIN q /\ p[i] < q[i] /\ \A k \in 1 .. i - 1 : p[k] = q[k])
            <=> Lex(p, q, i)
    <3>1. i \in DOMAIN p \cap DOMAIN q <=> i \in Nat \ {0} /\ i =< Len(p) /\ i =< Len(q)
      BY <1>0, <1>1
    <3>2. ASSUME i \in Nat PROVE \A k : k \in 1 .. i - 1 <=> k \in Nat \ {0} /\ k < i
      BY <3>2
    <3> QED BY <3>1, <3>2 DEF Lex
  <2> QED BY <2>1
<1> QED BY <1>2, <1>3 DEF Before

LEMMA BeforeIrreflexive ==
  ASSUME NEW p \in Seq(Nat) PROVE ~Before(p, p)
<1>1. Len(p) \in Nat /\ \A i \in 1 .. Len(p) : p[i] \in Nat
  BY LenProperties, ElementOfSeq
<1> QED BY <1>1, BeforeMeans DEF Shorter, Lex

LEMMA BeforeTransitive ==
  ASSUME NEW p \in Seq(Nat), NEW q \in Seq(Nat), NEW r \in Seq(Nat),
         Before(p, q), Before(q, r)
  PROVE  Before(p, r)
<1>0. Len(p) \in Nat /\ Len(q) \in Nat /\ Len(r) \in Nat
  BY LenProperties
<1>1. /\ Len(p) \in Nat /\ Len(q) \in Nat /\ Len(r) \in Nat
      /\ \A i \in Nat \ {0} : /\ i =< Len(p) => p[i] \in Nat
                              /\ i =< Len(q) => q[i] \in Nat
                              /\ i =< Len(r) => r[i] \in Nat
  BY LenProperties, ElementOfSeq
<1>2. CASE Shorter(p, q) /\ Shorter(q, r)
  <2>1. Shorter(p, r)
    BY <1>1, <1>2 DEF Shorter
  <2> QED BY <2>1, BeforeMeans
<1>3. ASSUME Shorter(p, q), NEW i, Lex(q, r, i) PROVE Before(p, r)
  <2>1. CASE i =< Len(p)
    <3>1. Lex(p, r, i)
      BY <1>1, <1>3, <2>1 DEF Shorter, Lex
    <3> QED BY <3>1, BeforeMeans
  <2>2. CASE ~(i =< Len(p))
    <3>1. Shorter(p, r)
      BY <1>1, <1>3, <2>2 DEF Shorter, Lex
    <3> QED BY <3>1, BeforeMeans
  <2> QED BY <2>1, <2>2
<1>4. ASSUME NEW i, Lex(p, q, i), Shorter(q, r) PROVE Before(p, r)
  <2>1. Lex(p, r, i)
    BY <1>1, <1>4 DEF Shorter, Lex
  <2> QED BY <2>1, BeforeMeans
<1>5. ASSUME NEW i, Lex(p, q, i), NEW j, Lex(q, r, j) PROVE Before(p, r)
  <2>1. /\ i \in Nat \ {0} /\ i =< Len(p) /\ i =< Len(q) /\ p[i] < q[i]
        /\ j \in Nat \ {0} /\ j =< Len(q) /\ j =< Len(r) /\ q[j] < r[j]
        /\ \A k \in Nat \ {0} : k < i => p[k] = q[k]
        /\ \A k \in Nat \ {0} : k < j => q[k] = r[k]
    BY <1>5 DEF Lex
  <2>2. CASE i < j
    <3>0. i =< Len(r)
      BY <1>0, <2>1, <2>2
    <3>1. ASSUME NEW k \in Nat \ {0}, k < i PROVE k < j
      BY <2>1, <2>2, <3>1
    <3>2. q[i] = r[i]
      BY <2>1, <2>2
    <3>3. Lex(p, r, i)
      BY <2>1, <3>0, <3>1, <3>2 DEF Lex
    <3> QED BY <3>3, BeforeMeans
  <2>3. CASE j < i
    <3>0. j =< Len(p)
      BY <1>0, <2>1, <2>3
    <3>1. ASSUME NEW k \in Nat \ {0}, k < j PROVE k < i
      BY <2>1, <2>3, <3>1
    <3>2. p[j] = q[j]
      BY <2>1, <2>3
    <3>3. Lex(p, r, j)
      BY <2>1, <3>0, <3>1, <3>2 DEF Lex
    <3> QED BY <3>3, BeforeMeans
  <2>4. CASE i = j
    <3>1. p[i] < r[i]
      BY <1>1, <2>1, <2>4
    <3>2. Lex(p, r, i)
      BY <2>1, <2>4, <3>1 DEF Lex
    <3> QED BY <3>2, BeforeMeans
  <2>5. i < j \/ j < i \/ i = j
    BY <2>1
  <2> QED BY <2>2, <2>3, <2>4, <2>5
<1> QED BY <1>2, <1>3, <1>4, <1>5, BeforeMeans

LEMMA BeforeTotal ==
  ASSUME NEW p \in Seq(Nat), NEW q \in Seq(Nat), p # q
  PROVE  Before(p, q) \/ Before(q, p)
<1>1. /\ Len(p) \in Nat /\ Len(q) \in Nat
      /\ \A i \in Nat \ {0} : /\ i =< Len(p) => p[i] \in Nat
                              /\ i =< Len(q) => q[i] \in Nat
  BY LenProperties, ElementOfSeq
<1> DEFINE D == {i \in Nat \ {0} : i =< Len(p) /\ i =< Len(q) /\ p[i] # q[i]}
<1>2. CASE D = {}
  <2>1. \A k \in Nat \ {0} : k =< Len(p) /\ k =< Len(q) => p[k] = q[k]
    BY <1>2
  <2>2. CASE Len(p) = Len(q)
    <3>1. \A k \in 1 .. Len(p) : p[k] = q[k]
      BY <1>1, <2>1, <2>2
    <3> QED BY <2>2, <3>1, SeqEqual
  <2>3. CASE Len(p) < Len(q)
    <3>1. Shorter(p, q)
      BY <1>1, <2>1, <2>3 DEF Shorter
    <3> QED BY <3>1, BeforeMeans
  <2>4. CASE Len(q) < Len(p)
    <3>1. Shorter(q, p)
      BY <1>1, <2>1, <2>4 DEF Shorter
    <3> QED BY <3>1, BeforeMeans
  <2> QED BY <1>1, <2>2, <2>3, <2>4
<1>3. CASE D # {}
  <2>1. PICK i \in D : \A k \in D : i =< k
    BY <1>3, LeastNatural
  <2>2. /\ i \in Nat \ {0} /\ i =< Len(p) /\ i =< Len(q) /\ p[i] # q[i]
        /\ p[i] \in Nat /\ q[i] \in Nat
    BY <1>1, <2>1
  <2>3. ASSUME NEW k \in Nat \ {0}, k < i PROVE p[k] = q[k]
    <3>1. k =< Len(p) /\ k =< Len(q) /\ ~(i =< k)
      BY <1>1, <2>2, <2>3
    <3> QED BY <2>1, <3>1
  <2>4. p[i] < q[i] \/ q[i] < p[i]
    BY <2>2
  <2>5. Lex(p, q, i) \/ Lex(q, p, i)
    BY <2>2, <2>3, <2>4 DEF Lex
  <2> QED BY <2>5, BeforeMeans
<1> QED BY <1>2, <1>3

\* The walk always has a next entry: a set of paths has a first one in the order
\* of filepath.Walk and ioutil.ReadDir (tar.go 31, copy_linux.go 36-41).  Its
\* first element is the one with the fewest before it.
LEMMA FirstOfIsFirst ==
  ASSUME NEW S \in SUBSET Seq(Nat), IsFiniteSet(S), S # {}
  PROVE  FirstOf(S) \in S /\ \A q \in S \ {FirstOf(S)} : Before(FirstOf(S), q)
<1> DEFINE Below(p) == {q \in S : Before(q, p)}
           Ranks == {Cardinality(Below(p)) : p \in S}
<1>1. \A p \in S : IsFiniteSet(Below(p)) /\ Cardinality(Below(p)) \in Nat
  BY FS_Subset, FS_CardinalityType
<1>2. PICK n \in Ranks : \A m \in Ranks : n =< m
  <2>1. Ranks \in SUBSET Nat /\ Ranks # {}
    BY <1>1
  <2> QED BY <2>1, LeastNatural
<1>3. PICK p \in S : n = Cardinality(Below(p))
  BY <1>2
<1>4. ASSUME NEW q \in S, Before(q, p) PROVE FALSE
  <2>1. Below(q) \in SUBSET Below(p) /\ Below(q) # Below(p)
    BY <1>4, BeforeTransitive, BeforeIrreflexive
  <2>2. /\ Cardinality(Below(q)) =< Cardinality(Below(p))
        /\ Cardinality(Below(q)) # Cardinality(Below(p))
    BY <1>1, <2>1, FS_Subset
  <2>3. Cardinality(Below(p)) =< Cardinality(Below(q))
    BY <1>2, <1>3
  <2>4. Cardinality(Below(p)) \in Nat /\ Cardinality(Below(q)) \in Nat
    BY <1>1
  <2> HIDE DEF Below
  <2> QED BY <2>2, <2>3, <2>4
<1>5. \A q \in S \ {p} : Before(p, q)
  BY <1>4, BeforeTotal
<1> QED BY <1>5 DEF FirstOf

-----------------------------------------------------------------------------
LEMMA PathFacts ==
  ASSUME NEW p \in Paths
  PROVE  /\ p \in Seq(Nat) /\ p # << >> /\ Len(p) \in Nat \ {0}
         /\ Parent(p) \in Seq(Nat) /\ Len(Parent(p)) = Len(p) - 1
         /\ \A i \in 1 .. Len(p) - 1 : Parent(p)[i] = p[i]
<1>1. p \in Seq(Nat) /\ p # << >>
  BY ArchiveAssumption
<1> QED BY <1>1, FrontIs DEF Parent

\* The walk lists a directory before what is in it.
LEMMA ParentBefore ==
  ASSUME NEW p \in Paths
  PROVE  Before(Parent(p), p)
<1>1. /\ p \in Seq(Nat) /\ Len(p) \in Nat /\ Parent(p) \in Seq(Nat)
      /\ Len(Parent(p)) = Len(p) - 1
      /\ \A i \in 1 .. Len(p) - 1 : Parent(p)[i] = p[i]
  BY PathFacts
<1>2. Shorter(Parent(p), p)
  BY <1>1 DEF Shorter
<1> QED BY <1>1, <1>2, BeforeMeans

\* The next entry's directory has been dealt with.
LEMMA FirstOfPaths ==
  ASSUME NEW S \in SUBSET Paths, S # {}
  PROVE  FirstOf(S) \in S /\ Parent(FirstOf(S)) \notin S
<1>1. S \in SUBSET Seq(Nat) /\ IsFiniteSet(S)
  BY ArchiveAssumption, FS_Subset
<1>2. FirstOf(S) \in S /\ \A q \in S \ {FirstOf(S)} : Before(FirstOf(S), q)
  BY <1>1, FirstOfIsFirst
<1> DEFINE p == FirstOf(S)
<1>3. Before(Parent(p), p) /\ p \in Seq(Nat)
  BY <1>2, ParentBefore, PathFacts
<1>4. ASSUME Parent(p) \in S PROVE FALSE
  <2>1. Parent(p) # p
    BY <1>3, BeforeIrreflexive
  <2>2. Before(p, Parent(p)) /\ Parent(p) \in Seq(Nat)
    BY <1>1, <1>2, <1>4, <2>1
  <2> HIDE DEF p
  <2> QED BY <1>3, <2>2, BeforeTransitive, BeforeIrreflexive
<1> QED BY <1>2, <1>4

-----------------------------------------------------------------------------
\* The initial trees.
LEMMA TreesAreTrees ==
  ASSUME src \in Trees
  PROVE  /\ DOMAIN src \in SUBSET Paths
         /\ \A p \in DOMAIN src :
              /\ src[p] \in [kind : Kinds, data : {"all"}, mtime : {Then}]
              /\ Parent(p) # << >> => Parent(p) \in DOMAIN src /\ src[Parent(p)].kind = "dir"
<1>1. PICK P \in SUBSET Paths :
        src \in [P -> {[kind |-> k, data |-> "all", mtime |-> Then] : k \in Kinds}]
  BY DEF Trees
<1>2. \A p \in DOMAIN src : src[p] \in [kind : Kinds, data : {"all"}, mtime : {Then}]
  BY <1>1
<1>3. ASSUME NEW p \in DOMAIN src, Parent(p) # << >> PROVE Len(p) > 1
  <2>1. Len(p) \in Nat \ {0} /\ Parent(p) \in Seq(Nat) /\ Len(Parent(p)) = Len(p) - 1
    BY <1>1, PathFacts
  <2>2. Len(Parent(p)) \in Nat \ {0}
    BY <1>3, <2>1, EmptySeq
  <2> QED BY <2>1, <2>2
<1> QED BY <1>1, <1>2, <1>3 DEF Trees

LEMMA InvInit == Init => IInv
<1> SUFFICES ASSUME Init PROVE IInv
  OBVIOUS
<1>1. SrcInv
  BY TreesAreTrees DEF Init, SrcInv
<1>2. Extracted = {} /\ DOMAIN dest = {<< >>}
  BY DEF Init, Extracted
<1>3. TarInv
  <2>1. archive = << >> /\ archive \in Seq(DOMAIN src) /\ Len(archive) = 0
    BY EmptySeq DEF Init
  <2>2. ArchiveInv
    BY <2>1 DEF ArchiveInv
  <2>3. ExtractInv
    BY <1>2, <2>1 DEF Init, ExtractInv
  <2> QED BY <2>2, <2>3 DEF Init, TarInv
<1>4. CopyInv
  <2>1. stack \in Seq(DOMAIN src \cup {<< >>}) /\ Len(stack) = 1 /\ stack[1] = << >>
    BY DEF Init
  <2>2. StackInv
    BY <2>1, EmptySeq DEF Init, StackInv
  <2>3. Open = {<< >>}
    BY <2>1 DEF Open
  <2> QED BY <1>2, <2>2, <2>3 DEF Init, CopyInv
<1>5. Reproduced
  BY DEF Init, Reproduced
<1> QED BY <1>1, <1>3, <1>4, <1>5 DEF IInv

-----------------------------------------------------------------------------
(* The archive. *)

LEMMA WriteEntryStep == IInv /\ WriteEntry => IInv'
<1> SUFFICES ASSUME IInv, WriteEntry PROVE IInv'
  OBVIOUS
<1> DEFINE p == FirstOf(DOMAIN src \ ArchivedPaths)
<1>1. /\ pc = "create" /\ mode = "tar" /\ ArchiveInv /\ ExtractInv /\ at = 0 /\ SrcInv
      /\ archive \in Seq(DOMAIN src) /\ Len(archive) \in Nat
      /\ DOMAIN archive = 1 .. Len(archive)
  BY LenProperties DEF IInv, TarInv, CopyInv, SrcInv, ArchiveInv, WriteEntry
<1>2. ArchivedPaths \in SUBSET DOMAIN src /\ ArchivedPaths # DOMAIN src
  BY <1>1, ElementOfSeq DEF ArchivedPaths, WriteEntry
<1>3. p \in DOMAIN src \ ArchivedPaths /\ Parent(p) \notin DOMAIN src \ ArchivedPaths
  BY <1>1, <1>2, FirstOfPaths DEF SrcInv
<1>4. Parent(p) # << >> => \E k \in 1 .. Len(archive) : archive[k] = Parent(p)
  BY <1>1, <1>3 DEF SrcInv, ArchivedPaths
<1>5. /\ UNCHANGED <<mode, src, at, dirs, stack, copied, dest>>
      /\ archive' = Append(archive, p)
      /\ IF src[p].kind = "link" THEN Stop("unsupported") ELSE UNCHANGED <<pc, err>>
  BY DEF WriteEntry
<1> HIDE DEF p
<1>6. SrcInv'
  BY <1>1, <1>5 DEF SrcInv
<1>7. CopyInv'
  BY <1>1, <1>5 DEF CopyInv
<1>8. Reproduced'
  BY <1>1, <1>3, <1>5 DEF Reproduced, Stop
<1>9. ASSUME src[p].kind # "link" PROVE TarInv'
  <2>1. /\ archive' \in Seq(DOMAIN src) /\ Len(archive') = Len(archive) + 1
        /\ \A i \in 1 .. Len(archive) : archive'[i] = archive[i]
        /\ archive'[Len(archive) + 1] = p
    BY <1>1, <1>3, <1>5, AppendProperties
  <2>2. ASSUME NEW i \in 1 .. Len(archive')
        PROVE  /\ src[archive'[i]].kind # "link"
               /\ Parent(archive'[i]) # << >> =>
                    \E k \in 1 .. i - 1 : archive'[k] = Parent(archive'[i])
    <3>1. CASE i = Len(archive) + 1
      <4>1. 1 .. i - 1 = 1 .. Len(archive)
        BY <1>1, <3>1
      <4> QED BY <1>4, <1>9, <2>1, <3>1, <4>1
    <3>2. CASE i # Len(archive) + 1
      <4>1. i \in 1 .. Len(archive) /\ \A k \in 1 .. i - 1 : k \in 1 .. Len(archive)
        BY <1>1, <2>1, <2>2, <3>2
      <4> QED BY <1>1, <2>1, <4>1 DEF ArchiveInv
    <3> QED BY <3>1, <3>2
  <2>3. ArchiveInv'
    BY <1>5, <2>1, <2>2 DEF ArchiveInv, Parent
  <2>4. Extracted = {} /\ Extracted' = {}
    BY <1>1, <1>5 DEF Extracted
  <2>5. ExtractInv'
    <3>1. 0 \in 0 .. Len(archive')
      BY <1>1, <2>1
    <3> QED BY <1>1, <1>5, <2>4, <3>1 DEF ExtractInv
  <2> QED BY <1>1, <1>5, <1>9, <2>3, <2>5 DEF TarInv
<1>10. CASE src[p].kind = "link"
  BY <1>5, <1>6, <1>7, <1>8, <1>10 DEF IInv, TarInv, Stop
<1> QED BY <1>6, <1>7, <1>8, <1>9, <1>10 DEF IInv

LEMMA CreateDoneStep == IInv /\ CreateDone => IInv'
<1> SUFFICES ASSUME IInv, CreateDone PROVE IInv'
  OBVIOUS
<1>1. mode = "tar" /\ at = 0 /\ Extracted = {} /\ pc' = "extract"
  BY DEF IInv, SrcInv, TarInv, CopyInv, CreateDone, Extracted
<1>2. UNCHANGED <<mode, src, archive, at, dirs, stack, copied, dest, err>>
  BY DEF CreateDone
<1>3. TarInv'
  BY <1>1, <1>2 DEF IInv, CreateDone, TarInv, ArchiveInv, ExtractInv, Extracted, Fresh,
                   ArchivedPaths, Parent
<1>4. SrcInv' /\ CopyInv' /\ Reproduced'
  BY <1>1, <1>2 DEF IInv, SrcInv, CopyInv, Reproduced
<1> QED BY <1>3, <1>4 DEF IInv

LEMMA ExtractDoneStep == IInv /\ ExtractDone => IInv'
<1> SUFFICES ASSUME IInv, ExtractDone PROVE IInv'
  OBVIOUS
<1>1. mode = "tar" /\ pc' = "times"
  BY DEF IInv, SrcInv, CopyInv, ExtractDone
<1>2. UNCHANGED <<mode, src, archive, at, dirs, stack, copied, dest, err>>
  BY DEF ExtractDone
<1>3. Extracted' = Extracted /\ ArchivedPaths' = ArchivedPaths
  BY <1>2 DEF Extracted, ArchivedPaths
<1>4. (ArchiveInv => ArchiveInv') /\ (ExtractInv => ExtractInv')
  BY <1>2, <1>3 DEF ArchiveInv, ExtractInv, Fresh
<1>5. TarInv'
  BY <1>1, <1>2, <1>3, <1>4 DEF IInv, ExtractDone, TarInv
<1>6. SrcInv' /\ CopyInv' /\ Reproduced'
  BY <1>1, <1>2 DEF IInv, SrcInv, CopyInv, Reproduced
<1> QED BY <1>5, <1>6 DEF IInv

LEMMA StorageFailsStep == IInv /\ StorageFails => IInv'
<1> SUFFICES ASSUME IInv, StorageFails PROVE IInv'
  OBVIOUS
<1>1. pc' = "done" /\ err' = "storage" /\ UNCHANGED <<mode, src>>
  BY DEF StorageFails, Stop
<1> QED BY <1>1 DEF IInv, SrcInv, TarInv, CopyInv, Reproduced

LEMMA TimesDoneStep == IInv /\ TimesDone => IInv'
<1> SUFFICES ASSUME IInv, TimesDone PROVE IInv'
  OBVIOUS
<1>1. /\ mode = "tar" /\ pc' = "done" /\ err' = "none" /\ dirs = {}
      /\ UNCHANGED <<mode, src, dest>>
      /\ ArchiveInv /\ ExtractInv /\ at = Len(archive) /\ ArchivedPaths = DOMAIN src
  BY DEF IInv, SrcInv, TarInv, CopyInv, TimesDone, Stop
<1>2. DOMAIN archive = 1 .. Len(archive)
  BY <1>1, LenProperties DEF ArchiveInv
<1>3. Extracted = DOMAIN src
  BY <1>1, <1>2 DEF Extracted, ArchivedPaths
<1>4. \A p \in DOMAIN src : src[p].kind # "link" /\ dest[p] = src[p]
  BY <1>1, <1>2, <1>3 DEF ArchiveInv, ExtractInv, ArchivedPaths
<1>5. DOMAIN dest = DOMAIN src \cup {<< >>}
  BY <1>1, <1>3 DEF ExtractInv
<1>6. Reproduced'
  BY <1>1, <1>4, <1>5 DEF Reproduced
<1> QED BY <1>1, <1>6 DEF IInv, SrcInv, TarInv, CopyInv

\* A new entry keeps the directory fresh; setting its time completes it.
LEMMA FreshMeans ==
  ASSUME SrcInv, NEW p \in DOMAIN src
  PROVE  /\ [Fresh(p) EXCEPT !.mtime = Now] = Fresh(p)
         /\ [Fresh(p) EXCEPT !.mtime = src[p].mtime] = src[p]
<1>1. src[p] \in [kind : Kinds, data : {"all"}, mtime : {Then}]
  BY DEF SrcInv
<1> QED BY <1>1 DEF Fresh

LEMMA ExtractEntryStep == IInv /\ ExtractEntry => IInv'
<1> SUFFICES ASSUME IInv, ExtractEntry PROVE IInv'
  OBVIOUS
<1> DEFINE p == archive[at + 1]
<1>1. /\ pc = "extract" /\ mode = "tar" /\ ArchiveInv /\ ExtractInv /\ SrcInv
      /\ ArchivedPaths = DOMAIN src /\ \A q \in Extracted : src[q].kind = "dir" => q \in dirs
  BY DEF IInv, TarInv, CopyInv, SrcInv, ExtractEntry
<1>2. /\ archive \in Seq(DOMAIN src) /\ Len(archive) \in Nat /\ at \in Nat
      /\ at + 1 \in 1 .. Len(archive)
  BY <1>1, LenProperties DEF ArchiveInv, ExtractInv, ExtractEntry
<1>3. p \in DOMAIN src /\ p \in Paths
  BY <1>1, <1>2, ElementOfSeq DEF SrcInv
<1>4. Parent(p) \in DOMAIN dest
  <2>1. CASE Parent(p) = << >>
    BY <1>1, <2>1 DEF ExtractInv
  <2>2. CASE Parent(p) # << >>
    <3>1. PICK k \in 1 .. at + 1 - 1 : archive[k] = Parent(p)
      BY <1>1, <1>2, <2>2 DEF ArchiveInv
    <3>2. k \in 1 .. at
      BY <1>2, <3>1
    <3> QED BY <1>1, <3>1, <3>2 DEF ExtractInv, Extracted
  <2> QED BY <2>1, <2>2
<1>5. /\ at' = at + 1 /\ UNCHANGED <<mode, src, archive, stack, copied, pc, err>>
      /\ \/ /\ src[p].kind = "dir" /\ dest' = With(p, Fresh(p)) /\ dirs' = dirs \cup {p}
         \/ src[p].kind # "dir" /\ dest' = With(p, src[p]) /\ dirs' = dirs
  BY <1>4 DEF ExtractEntry, Fresh
<1>6. Extracted' = Extracted \cup {p}
  <2>1. 1 .. at + 1 = (1 .. at) \cup {at + 1}
    BY <1>2
  <2> QED BY <1>5, <2>1 DEF Extracted
<1> HIDE DEF p
<1>7. << >> \notin Extracted /\ Extracted \in SUBSET DOMAIN src
  <2>1. 1 .. at \in SUBSET (1 .. Len(archive))
    BY <1>2
  <2>2. Extracted \in SUBSET DOMAIN src
    BY <1>2, <2>1, ElementOfSeq DEF Extracted
  <2>3. << >> \notin DOMAIN src
    BY <1>1, PathFacts DEF SrcInv
  <2> QED BY <2>2, <2>3
<1> DEFINE e == IF src[p].kind = "dir" THEN Fresh(p) ELSE src[p]
<1>8. dest' = With(p, e)
  BY <1>5
<1> HIDE DEF e
<1>9. /\ DOMAIN dest' = DOMAIN dest \cup {p} /\ dest'[p] = e
       /\ \A q \in DOMAIN dest \ {p} :
            \/ dest'[q] = dest[q]
            \/ q = Parent(p) /\ dest'[q] = [dest[q] EXCEPT !.mtime = Now]
  BY <1>8 DEF With
<1>10. DOMAIN dest' = {<< >>} \cup Extracted'
  BY <1>1, <1>6, <1>9 DEF ExtractInv
<1>11. dirs' \in SUBSET {q \in Extracted' : src'[q].kind = "dir"}
  BY <1>1, <1>5, <1>6 DEF ExtractInv
<1>12. \A q \in Extracted' : src'[q].kind = "dir" => q \in dirs'
  BY <1>1, <1>5, <1>6
<1>13. ASSUME NEW q \in Extracted'
       PROVE  dest'[q] = IF q \in dirs' THEN Fresh(q) ELSE src[q]
  <2>1. CASE q = p
    <3>1. src[p].kind # "dir" => p \notin dirs
      BY <1>1 DEF ExtractInv
    <3> QED BY <1>5, <1>9, <2>1, <3>1 DEF e
  <2>2. CASE q # p
    <3>1. q \in Extracted /\ q \in DOMAIN dest \ {p} /\ (q \in dirs' <=> q \in dirs)
      BY <1>1, <1>5, <1>6, <2>2 DEF ExtractInv
    <3>2. dest[q] = IF q \in dirs THEN Fresh(q) ELSE src[q]
      BY <1>1, <3>1 DEF ExtractInv
    <3>3. CASE dest'[q] = dest[q]
      BY <3>1, <3>2, <3>3
    <3>4. CASE q = Parent(p) /\ dest'[q] = [dest[q] EXCEPT !.mtime = Now]
      <4>1. q \in dirs
        BY <1>1, <1>3, <1>7, <3>1, <3>4 DEF SrcInv
      <4> QED BY <1>1, <1>7, <3>1, <3>2, <3>4, <4>1, FreshMeans
    <3> QED BY <1>9, <3>1, <3>3, <3>4
  <2> QED BY <2>1, <2>2
<1>14. ExtractInv'
  <2>1. at' \in 0 .. Len(archive')
    BY <1>2, <1>5
  <2>2. \A q : Fresh(q)' = Fresh(q)
    BY <1>5 DEF Fresh
  <2> QED BY <1>5, <1>10, <1>11, <1>13, <2>1, <2>2 DEF ExtractInv
<1>15. ArchiveInv' /\ ArchivedPaths' = DOMAIN src'
  BY <1>1, <1>5 DEF ArchiveInv, ArchivedPaths, Parent
<1>16. TarInv'
  BY <1>1, <1>5, <1>12, <1>14, <1>15 DEF TarInv
<1>17. SrcInv' /\ CopyInv' /\ Reproduced'
  BY <1>1, <1>5 DEF SrcInv, CopyInv, Reproduced, Parent
<1> QED BY <1>16, <1>17 DEF IInv

LEMMA SetDirectoryTimeStep == ASSUME IInv, NEW d \in dirs, SetDirectoryTime(d) PROVE IInv'
<1>1. /\ pc = "times" /\ mode = "tar" /\ ArchiveInv /\ ExtractInv /\ SrcInv /\ at = Len(archive)
      /\ ArchivedPaths = DOMAIN src
  BY DEF IInv, TarInv, CopyInv, SrcInv, SetDirectoryTime
<1>2. /\ UNCHANGED <<mode, src, pc, archive, at, stack, copied, err>>
      /\ dirs' = dirs \ {d} /\ dest' = [dest EXCEPT ![d].mtime = src[d].mtime]
  BY DEF SetDirectoryTime, WithTime
<1>3. Extracted' = Extracted /\ ArchivedPaths' = ArchivedPaths /\ \A q : Fresh(q)' = Fresh(q)
  BY <1>2 DEF Extracted, ArchivedPaths, Fresh
<1>4. d \in Extracted /\ d \in DOMAIN dest /\ dest[d] = Fresh(d)
  BY <1>1 DEF ExtractInv
<1>5. d \in DOMAIN src
  <2>1. archive \in Seq(DOMAIN src) /\ 1 .. at = 1 .. Len(archive)
    BY <1>1 DEF ArchiveInv
  <2> QED BY <1>4, <2>1, ElementOfSeq DEF Extracted
<1>6. /\ DOMAIN dest' = DOMAIN dest /\ dest'[d] = [dest[d] EXCEPT !.mtime = src[d].mtime]
      /\ \A q \in DOMAIN dest \ {d} : dest'[q] = dest[q]
  BY <1>2, <1>4
<1>7. dest'[d] = src[d]
  BY <1>1, <1>4, <1>5, <1>6, FreshMeans
<1>8. \A q \in Extracted : dest'[q] = IF q \in dirs' THEN Fresh(q) ELSE src[q]
  BY <1>1, <1>2, <1>6, <1>7 DEF ExtractInv
<1>9. ExtractInv'
  BY <1>1, <1>2, <1>3, <1>6, <1>8 DEF ExtractInv
<1>10. ArchiveInv'
  BY <1>1, <1>2 DEF ArchiveInv, Parent
<1>11. TarInv'
  BY <1>1, <1>2, <1>3, <1>9, <1>10 DEF TarInv
<1>12. SrcInv' /\ CopyInv' /\ Reproduced'
  BY <1>1, <1>2 DEF SrcInv, CopyInv, Reproduced, Parent
<1> QED BY <1>11, <1>12 DEF IInv

-----------------------------------------------------------------------------
(* The copy. *)

\* The next entry to copy is new: it is longer than every path of the stack.
LEMMA NextToCopy ==
  ASSUME IInv, pc = "copy", ToCopy # {}, NEW p, p = FirstOf(ToCopy)
  PROVE  /\ mode = "copy" /\ SrcInv /\ StackInv /\ p \in DOMAIN src /\ p \notin copied
         /\ p \notin Open /\ p # << >> /\ Parent(p) = stack[1] /\ Len(p) = Len(stack)
<1>1. mode = "copy" /\ SrcInv /\ StackInv
  BY DEF IInv, SrcInv, TarInv, CopyInv
<1>2. p \in ToCopy
  <2>1. ToCopy \in SUBSET Paths
    BY <1>1 DEF ToCopy, Children, SrcInv
  <2> QED BY <2>1, FirstOfPaths
<1>3. Len(stack) \in Nat \ {0} /\ Head(stack) = stack[1]
  BY <1>1, LenProperties DEF StackInv
<1>4. p \in DOMAIN src /\ p \in Paths /\ p \notin copied /\ Parent(p) = stack[1]
  BY <1>1, <1>2, <1>3 DEF ToCopy, Children, SrcInv
<1>5. Len(p) \in Nat /\ Len(Parent(p)) = Len(p) - 1 /\ p # << >>
  BY <1>4, PathFacts
<1>6. Len(stack[1]) = Len(stack) - 1
  BY <1>1, <1>3 DEF StackInv
<1>7. Len(p) = Len(stack)
  BY <1>3, <1>4, <1>5, <1>6
<1>8. ASSUME NEW i \in 1 .. Len(stack), stack[i] = p PROVE FALSE
  <2>1. Len(p) = Len(stack) - i
    BY <1>1, <1>8 DEF StackInv
  <2> QED BY <1>3, <1>7, <2>1
<1> QED BY <1>1, <1>4, <1>5, <1>7, <1>8 DEF Open

\* Making it leaves what is copied, and the directories that are open keep the
\* time of now.
LEMMA EntryMade ==
  ASSUME IInv, pc = "copy", ToCopy # {}, NEW p, p = FirstOf(ToCopy), NEW e, dest' = With(p, e)
  PROVE  /\ DOMAIN dest' = Open \cup copied \cup {p} /\ dest'[p] = e
         /\ \A q \in copied : dest'[q] = Final(q)
         /\ \A q \in Open : q # << >> => src[q].kind = "dir" /\ dest'[q] = Fresh(q)
<1>1. /\ mode = "copy" /\ SrcInv /\ StackInv /\ p \in DOMAIN src /\ p \notin copied
      /\ p \notin Open /\ Parent(p) = stack[1]
  BY NextToCopy
<1>2. DOMAIN dest = Open \cup copied /\ \A q \in copied : dest[q] = Final(q)
  BY <1>1 DEF IInv, CopyInv
<1>3. /\ DOMAIN dest' = DOMAIN dest \cup {p} /\ dest'[p] = e
      /\ \A q \in DOMAIN dest \ {p} :
           dest'[q] = IF q = Parent(p) /\ p \notin DOMAIN dest THEN [dest[q] EXCEPT !.mtime = Now]
                      ELSE dest[q]
  BY DEF With
<1>4. 1 \in 1 .. Len(stack)
  BY <1>1, LenProperties DEF StackInv
<1>5. stack[1] \notin copied /\ Open \in SUBSET (DOMAIN src \cup {<< >>})
  BY <1>1, <1>4, ElementOfSeq DEF StackInv, Open
<1>6. \A q \in copied : dest'[q] = Final(q)
  BY <1>1, <1>2, <1>3, <1>5
<1>7. ASSUME NEW q \in Open, q # << >> PROVE src[q].kind = "dir" /\ dest'[q] = Fresh(q)
  <2>1. dest[q] = Fresh(q) /\ src[q].kind = "dir" /\ q \in DOMAIN src
    BY <1>1, <1>5, <1>7 DEF StackInv, Open
  <2> QED BY <1>1, <1>2, <1>3, <1>7, <2>1, FreshMeans
<1> QED BY <1>2, <1>3, <1>6, <1>7

LEMMA CopyDirectoryStep == IInv /\ CopyDirectory => IInv'
<1> SUFFICES ASSUME IInv, CopyDirectory PROVE IInv'
  OBVIOUS
<1>1. PICK p : p = FirstOf(ToCopy)
  OBVIOUS
<1>2. PICK e : e = Fresh(p)
  OBVIOUS
<1>3. /\ pc = "copy" /\ ToCopy # {} /\ dest' = With(p, e) /\ stack' = <<p>> \o stack
      /\ src[p].kind = "dir" /\ UNCHANGED <<mode, src, pc, archive, at, dirs, copied, err>>
  BY <1>1, <1>2 DEF CopyDirectory, Fresh
<1>4. /\ mode = "copy" /\ SrcInv /\ StackInv /\ p \in DOMAIN src /\ p \notin copied
      /\ p # << >> /\ Len(p) = Len(stack)
  BY <1>1, <1>3, NextToCopy
<1>5. /\ DOMAIN dest' = Open \cup copied \cup {p} /\ dest'[p] = e
      /\ \A q \in copied : dest'[q] = Final(q)
      /\ \A q \in Open : q # << >> => src[q].kind = "dir" /\ dest'[q] = Fresh(q)
  BY <1>1, <1>3, EntryMade
<1>6. /\ stack \in Seq(DOMAIN src \cup {<< >>}) /\ Len(stack) \in Nat \ {0}
      /\ \A i \in 1 .. Len(stack) : Len(stack[i]) = Len(stack) - i /\ stack[i] \notin copied
  BY <1>4, LenProperties DEF StackInv
<1>7. /\ stack' \in Seq(DOMAIN src \cup {<< >>}) /\ Len(stack') = Len(stack) + 1
      /\ stack'[1] = p /\ \A i \in 2 .. Len(stack) + 1 : stack'[i] = stack[i - 1]
  BY <1>3, <1>4, <1>6
<1>8. Open' = Open \cup {p}
  <2>1. ASSUME NEW i \in 1 .. Len(stack'), i # 1
        PROVE  \E k \in 1 .. Len(stack) : stack'[i] = stack[k]
    <3>1. i \in 2 .. Len(stack) + 1 /\ i - 1 \in 1 .. Len(stack)
      BY <1>6, <1>7, <2>1
    <3> QED BY <1>7, <3>1
  <2>2. ASSUME NEW i \in 1 .. Len(stack)
        PROVE  i + 1 \in 1 .. Len(stack') /\ stack'[i + 1] = stack[i]
    <3>1. i + 1 \in 2 .. Len(stack) + 1 /\ i + 1 \in 1 .. Len(stack') /\ (i + 1) - 1 = i
      BY <1>6, <1>7
    <3>2. stack'[i + 1] = stack[(i + 1) - 1]
      BY <1>7, <3>1
    <3> QED BY <3>1, <3>2
  <2>3. 1 \in 1 .. Len(stack')
    BY <1>6, <1>7
  <2>4. Open' \in SUBSET (Open \cup {p})
    BY <1>7, <2>1 DEF Open
  <2>5. Open \in SUBSET Open'
    BY <2>2 DEF Open
  <2>6. p \in Open'
    BY <1>7, <2>3 DEF Open
  <2> QED BY <2>4, <2>5, <2>6
<1>9. ASSUME NEW i \in 1 .. Len(stack')
      PROVE  Len(stack'[i]) = Len(stack') - i /\ stack'[i] \notin copied
  <2>1. CASE i = 1
    BY <1>4, <1>6, <1>7, <2>1
  <2>2. CASE i # 1
    <3>1. i \in 2 .. Len(stack) + 1 /\ i - 1 \in 1 .. Len(stack)
      BY <1>6, <1>7, <2>2
    <3>2. stack'[i] = stack[i - 1] /\ Len(stack[i - 1]) = Len(stack) - (i - 1)
      BY <1>6, <1>7, <3>1
    <3>3. Len(stack) - (i - 1) = Len(stack') - i
      BY <1>6, <1>7, <3>1
    <3> QED BY <1>6, <3>1, <3>2, <3>3
  <2> QED BY <2>1, <2>2
<1>10. \A q \in Open' : q # << >> => src[q].kind = "dir" /\ dest'[q] = Fresh(q)
  BY <1>2, <1>3, <1>5, <1>8
<1>11. \A q : Fresh(q)' = Fresh(q) /\ Final(q)' = Final(q) /\ Children(q)' = Children(q)
  BY <1>3 DEF Fresh, Final, Children, Parent
<1>12. StackInv'
  BY <1>3, <1>6, <1>7, <1>9, <1>10, <1>11 DEF StackInv, Open
<1>13. CopyInv'
  BY <1>3, <1>4, <1>5, <1>8, <1>11, <1>12 DEF IInv, CopyInv
<1>14. SrcInv' /\ TarInv' /\ Reproduced'
  BY <1>3, <1>4 DEF SrcInv, TarInv, Reproduced, Parent
<1> QED BY <1>13, <1>14 DEF IInv

LEMMA CopyFileStep == IInv /\ CopyFile => IInv'
<1> SUFFICES ASSUME IInv, CopyFile PROVE IInv'
  OBVIOUS
<1>1. PICK p : p = FirstOf(ToCopy)
  OBVIOUS
<1>2. PICK e : e = [src[p] EXCEPT !.kind = "file"]
  OBVIOUS
<1>3. /\ pc = "copy" /\ ToCopy # {} /\ dest' = With(p, e) /\ copied' = copied \cup {p}
      /\ src[p].kind # "dir"
      /\ UNCHANGED <<mode, src, pc, archive, at, dirs, stack, err>>
  BY <1>1, <1>2 DEF CopyFile
<1>4. /\ mode = "copy" /\ SrcInv /\ StackInv /\ p \in DOMAIN src /\ p \notin Open /\ p # << >>
  BY <1>1, <1>3, NextToCopy
<1>5. /\ DOMAIN dest' = Open \cup copied \cup {p} /\ dest'[p] = e
      /\ \A q \in copied : dest'[q] = Final(q)
      /\ \A q \in Open : q # << >> => src[q].kind = "dir" /\ dest'[q] = Fresh(q)
  BY <1>1, <1>3, EntryMade
<1>6. e = Final(p)
  <2>1. src[p] \in [kind : Kinds, data : {"all"}, mtime : {Then}]
    BY <1>4 DEF SrcInv
  <2> QED BY <1>2, <1>3, <2>1 DEF Final, Kinds
<1>7. Children(p) = {}
  BY <1>3, <1>4 DEF Children, SrcInv
<1>8. \A q : Fresh(q)' = Fresh(q) /\ Final(q)' = Final(q) /\ Children(q)' = Children(q)
  BY <1>3 DEF Fresh, Final, Children, Parent
<1>9. Open' = Open
  BY <1>3 DEF Open
<1>10. StackInv'
  BY <1>3, <1>4, <1>5, <1>8 DEF StackInv, Open
<1>11. CopyInv'
  BY <1>3, <1>4, <1>5, <1>6, <1>7, <1>8, <1>9, <1>10 DEF IInv, CopyInv
<1>12. SrcInv' /\ TarInv' /\ Reproduced'
  BY <1>3, <1>4 DEF SrcInv, TarInv, Reproduced, Parent
<1> QED BY <1>11, <1>12 DEF IInv

\* A set of entries with the children of the directory and of all its own
\* members is the whole tree.
LEMMA WholeTree ==
  ASSUME SrcInv, NEW S \in SUBSET DOMAIN src, Children(<< >>) \in SUBSET S,
         \A p \in S : Children(p) \in SUBSET S
  PROVE  S = DOMAIN src
<1> SUFFICES ASSUME DOMAIN src \ S # {} PROVE FALSE
  OBVIOUS
<1> DEFINE Lengths == {Len(p) : p \in DOMAIN src \ S}
<1>1. \A p \in DOMAIN src : Len(p) \in Nat \ {0} /\ Len(Parent(p)) = Len(p) - 1
  BY PathFacts DEF SrcInv
<1>2. PICK n \in Lengths : \A m \in Lengths : n =< m
  <2>1. Lengths \in SUBSET Nat /\ Lengths # {}
    BY <1>1
  <2> QED BY <2>1, LeastNatural
<1>3. PICK p \in DOMAIN src \ S : Len(p) = n
  BY <1>2
<1>4. p \in Children(Parent(p))
  BY <1>3 DEF Children
<1>5. Parent(p) # << >> /\ Parent(p) \in DOMAIN src \ S
  BY <1>3, <1>4 DEF SrcInv
<1>6. n =< Len(Parent(p))
  BY <1>2, <1>5
<1> QED BY <1>1, <1>3, <1>6

LEMMA ReturnFromDirectoryStep == IInv /\ ReturnFromDirectory => IInv'
<1> SUFFICES ASSUME IInv, ReturnFromDirectory PROVE IInv'
  OBVIOUS
<1>1. /\ pc = "copy" /\ mode = "copy" /\ SrcInv /\ StackInv /\ ToCopy = {}
      /\ copied \in SUBSET DOMAIN src /\ DOMAIN dest = Open \cup copied
      /\ \A p \in copied : Children(p) \in SUBSET copied /\ dest[p] = Final(p)
      /\ UNCHANGED <<mode, src, archive, at, dirs>>
  BY DEF IInv, SrcInv, TarInv, CopyInv, ReturnFromDirectory
<1>2. PICK h : h = Head(stack)
  OBVIOUS
<1>3. /\ stack \in Seq(DOMAIN src \cup {<< >>}) /\ Len(stack) \in Nat \ {0} /\ h = stack[1]
      /\ h \in DOMAIN src \cup {<< >>} /\ Len(h) = Len(stack) - 1 /\ h \notin copied
  <2>1. stack \in Seq(DOMAIN src \cup {<< >>}) /\ Len(stack) \in Nat \ {0}
    BY <1>1, LenProperties DEF StackInv
  <2>2. h = stack[1] /\ 1 \in 1 .. Len(stack)
    BY <1>2, <2>1
  <2> QED BY <1>1, <2>1, <2>2, ElementOfSeq DEF StackInv
<1>4. Children(h) \in SUBSET copied
  BY <1>1, <1>2 DEF ToCopy
<1>5. h # << >> => h \in DOMAIN src /\ Len(h) \in Nat \ {0}
  BY <1>1, <1>3, PathFacts DEF SrcInv
<1>6. SrcInv' /\ TarInv'
  BY <1>1 DEF SrcInv, TarInv, Parent
<1>7. CASE Len(stack) = 1
  <2>1. h = << >>
    BY <1>3, <1>5, <1>7
  <2>2. copied = DOMAIN src
    BY <1>1, <1>4, <2>1, WholeTree
  <2>3. Open = {<< >>}
    <3>1. 1 .. Len(stack) = {1}
      BY <1>7
    <3> QED BY <1>3, <2>1, <3>1 DEF Open
  <2>4. pc' = "done" /\ err' = "none" /\ dest' = dest
    BY <1>7 DEF ReturnFromDirectory, Stop
  <2>5. Reproduced' /\ CopyInv'
    BY <1>1, <2>2, <2>3, <2>4 DEF Reproduced, CopyInv, Final
  <2> QED BY <1>6, <2>5 DEF IInv
<1>8. CASE Len(stack) # 1
  <2>1. /\ stack' = Tail(stack) /\ copied' = copied \cup {h}
        /\ dest' = [dest EXCEPT ![h].mtime = src[h].mtime] /\ UNCHANGED <<pc, err>>
    BY <1>2, <1>8 DEF ReturnFromDirectory, WithTime
  <2>2. h # << >> /\ h \in DOMAIN src /\ h \in Open
    <3>1. Len(h) # 0 /\ 1 \in 1 .. Len(stack)
      BY <1>3, <1>8
    <3>2. h # << >>
      BY <3>1, EmptySeq
    <3> QED BY <1>3, <3>1, <3>2 DEF Open
  <2>3. dest[h] = Fresh(h) /\ src[h].kind = "dir"
    BY <1>1, <2>2 DEF StackInv, Open
  <2>4. /\ DOMAIN dest' = DOMAIN dest /\ dest'[h] = [dest[h] EXCEPT !.mtime = src[h].mtime]
        /\ \A q \in DOMAIN dest \ {h} : dest'[q] = dest[q]
    BY <1>1, <2>1, <2>2
  <2>5. dest'[h] = Final(h)
    BY <1>1, <2>2, <2>3, <2>4, FreshMeans DEF Final
  <2>6. /\ stack' \in Seq(DOMAIN src \cup {<< >>}) /\ Len(stack') = Len(stack) - 1
        /\ Len(stack') \in Nat \ {0}
        /\ \A i \in 1 .. Len(stack') : stack'[i] = stack[i + 1]
    BY <1>3, <1>8, <2>1, HeadTailProperties
  <2>7. ASSUME NEW i \in 1 .. Len(stack')
        PROVE  /\ Len(stack'[i]) = Len(stack') - i /\ stack'[i] \notin copied /\ stack'[i] # h
               /\ stack'[i] \in Open
    <3>1. i + 1 \in 1 .. Len(stack) /\ stack'[i] = stack[i + 1]
      BY <1>3, <2>6
    <3>2. Len(stack[i + 1]) = Len(stack) - (i + 1) /\ stack[i + 1] \notin copied
      BY <1>1, <3>1 DEF StackInv
    <3>3. Len(stack) - (i + 1) = Len(stack') - i /\ Len(stack) - (i + 1) # Len(stack) - 1
      BY <1>3, <2>6
    <3> QED BY <1>3, <3>1, <3>2, <3>3 DEF Open
  <2>8. Open = Open' \cup {h}
    <3>1. ASSUME NEW i \in 1 .. Len(stack), i # 1
          PROVE  \E k \in 1 .. Len(stack') : stack'[k] = stack[i]
      <4>1. i - 1 \in 1 .. Len(stack') /\ (i - 1) + 1 = i
        BY <1>3, <2>6, <3>1
      <4> QED BY <2>6, <4>1
    <3>2. Open \in SUBSET (Open' \cup {h})
      BY <1>3, <3>1 DEF Open
    <3>3. Open' \in SUBSET Open
      BY <2>7 DEF Open
    <3> QED BY <2>2, <3>2, <3>3
  <2>9. \A q : Fresh(q)' = Fresh(q) /\ Final(q)' = Final(q) /\ Children(q)' = Children(q)
    BY <1>1 DEF Fresh, Final, Children, Parent
  <2>10. \A q \in Open : q # << >> => src[q].kind = "dir" /\ dest[q] = Fresh(q)
    BY <1>1 DEF StackInv, Open
  <2>11. ASSUME NEW i \in 1 .. Len(stack'), stack'[i] # << >>
         PROVE  src[stack'[i]].kind = "dir" /\ dest'[stack'[i]] = Fresh(stack'[i])
    BY <1>1, <2>4, <2>7, <2>10, <2>11
  <2>12. StackInv'
    BY <1>1, <2>1, <2>6, <2>7, <2>9, <2>11 DEF StackInv
  <2>13. CopyInv'
    BY <1>1, <1>4, <2>1, <2>2, <2>4, <2>5, <2>8, <2>9, <2>12 DEF CopyInv
  <2> QED BY <1>1, <1>6, <2>1, <2>13 DEF IInv, Reproduced
<1> QED BY <1>7, <1>8

-----------------------------------------------------------------------------
LEMMA InvNext == IInv /\ [Next]_vars => IInv'
<1> SUFFICES ASSUME IInv, [Next]_vars PROVE IInv'
  OBVIOUS
<1>1. CASE UNCHANGED vars
  <2>1. UNCHANGED <<mode, src, pc, archive, at, dirs, stack, copied, dest, err>>
    BY <1>1 DEF vars
  <2>2. /\ Extracted' = Extracted /\ ArchivedPaths' = ArchivedPaths /\ Open' = Open
        /\ \A q : Fresh(q)' = Fresh(q) /\ Final(q)' = Final(q) /\ Children(q)' = Children(q)
    BY <2>1 DEF Extracted, ArchivedPaths, Open, Fresh, Final, Children, Parent
  <2>3. (ArchiveInv => ArchiveInv') /\ (ExtractInv => ExtractInv') /\ (StackInv => StackInv')
    BY <2>1, <2>2 DEF ArchiveInv, ExtractInv, StackInv, Parent
  <2>4. TarInv' /\ CopyInv'
    BY <2>1, <2>2, <2>3 DEF IInv, TarInv, CopyInv
  <2>5. SrcInv' /\ Reproduced'
    BY <2>1 DEF IInv, SrcInv, Reproduced, Parent
  <2> QED BY <2>4, <2>5 DEF IInv
<1> QED
  BY <1>1, WriteEntryStep, CreateDoneStep, ExtractEntryStep, ExtractDoneStep, TimesDoneStep,
     SetDirectoryTimeStep, CopyDirectoryStep, CopyFileStep, ReturnFromDirectoryStep,
     StorageFailsStep DEF Next, Finished

\* The inductive invariant holds in every state of every behaviour.
THEOREM Invariance == Spec => []IInv
BY InvInit, InvNext, PTL DEF Spec

\* An archive that is made and extracted, and a copy, reproduce every finite tree
\* with all contents and times, and fail for the storage or a link only
\* (tar.go 31, 57-66, 105-159, copy_linux.go 30-63).
THEOREM ReproducedAlways == Spec => []Reproduced
<1>1. IInv => Reproduced
  BY DEF IInv
<1> QED BY Invariance, <1>1, PTL
=============================================================================
