--------------------------- MODULE PromotionProofs --------------------------
(***************************************************************************)
(* The promotion for any set of paths, any tree of the target, whatever    *)
(* the coder leaves and however often others edit the target: which paths  *)
(* the patch has, that nothing else of the target changes, and what a      *)
(* promoted target is.                                                     *)
(***************************************************************************)
EXTENDS Promotion, TLAPS

Plain == [mode : Modes, text : Texts]
Files == [mode : Modes, text : Texts \cup {Merged}]
Blobs == [mode : Modes, blob : {"raw", "clean"} \X (Texts \cup {Merged})]

(* What the trees hold at each point.                                      *)
TreeInv ==
  /\ PromotionTypeOK
  /\ target \in [DOMAIN target -> Files]
  /\ pc \notin {"create", "promoted", "blocked"} => target \in [DOMAIN target -> Plain]
  /\ given \in [DOMAIN given -> Plain] /\ DOMAIN given \cap Ignored = {}
  /\ clone \in [DOMAIN clone -> Entries]
  /\ index \in [DOMAIN index -> Blobs]

(* Nobody edits the target once git writes to it, and the check before the *)
(* patch stands until somebody does.                                       *)
EditInv ==
  /\ pc \notin {"create", "promoted", "blocked"} => target = was
  /\ pc \in {"build", "apply", "delete", "create", "promoted"} /\ ~late =>
       Visible(was) = captured

(* The patch while it is applied; what it has for a path the coder left.   *)
Left(p) == [mode |-> clone[p].mode, blob |-> <<"raw", clone[p].text>>]

PatchInv ==
  pc \in {"apply", "delete", "create"} =>
    /\ Patch = Delta
    /\ \A p \in Delta : p \in DOMAIN index <=> p \in DOMAIN clone
    /\ pc = "apply" => \A p \in Creations : index[p] = Left(p)

(* A path that passed git's check is as the coder got it, or merged.       *)
Taken(p) ==
  /\ At(was, p) = At(given, p)
  /\ p \in DOMAIN index => index[p] = Left(p)

Both(p) ==
  /\ p \in DOMAIN index \cap DOMAIN given
  /\ index[p].blob = <<"raw", Merged>> /\ At(was, p) # given[p]

CheckedInv == pc \in {"delete", "create"} => \A p \in Delta : Taken(p) \/ Both(p)

(* Between the deletions and the creations.                                *)
CreateInv ==
  pc = "create" =>
    \A p \in Paths : At(target, p) = IF p \in Deletions THEN Absent ELSE At(was, p)

(* The promoted target, path by path.                                      *)
WholeInv ==
  pc = "promoted" => \A p \in Delta :
    \/ At(target, p) = At(clone, p) /\ At(was, p) = At(given, p)
    \/ /\ p \in DOMAIN target \cap DOMAIN given
       /\ target[p].text = Merged /\ At(was, p) # given[p]

PromotionInv ==
  /\ TreeInv /\ EditInv /\ PatchInv /\ CheckedInv /\ CreateInv /\ WholeInv
  /\ OnlyTheDeltaIsTouched

USE PromotionAssumption

-----------------------------------------------------------------------------
(* Trees.                                                                  *)

(* Taking paths away from a tree.                                          *)
LEMMA WithoutIs ==
  ASSUME NEW tree, NEW D
  PROVE  /\ DOMAIN Without(tree, D) = DOMAIN tree \ D
         /\ \A p : At(Without(tree, D), p) = IF p \in D THEN Absent ELSE At(tree, p)
         /\ \A S : tree \in [DOMAIN tree -> S] =>
              Without(tree, D) \in [DOMAIN Without(tree, D) -> S]
         /\ IsTree(tree) => IsTree(Without(tree, D))
<1>1. Without(tree, D) = [x \in DOMAIN tree \ D |-> tree[x]]
  BY DEF Without, Restrict
<1> QED BY <1>1 DEF At, IsTree, PrefixFree

(* No path is under itself.                                                *)
LEMMA NotUnderItself == \A p : ~Under(p, p)
BY DEF Under, IsStrictPrefix

(* Two trees differ in a path when one has it and the other not, or has    *)
(* another entry there.                                                    *)
LEMMA EntriesAre ==
  /\ \A e \in Plain \cup Files : e.mode \in Modes /\ e # Absent
  /\ Absent \notin Entries /\ Absent.mode = "absent" /\ Plain \subseteq Files /\ Plain \subseteq Entries
  /\ \A e \in Entries : e.mode \in Modes => e \in Plain
  /\ Merged \notin Texts
BY DEF Plain, Files, Entries, Modes, Absent, Texts, Merged

-----------------------------------------------------------------------------
(* The patch.                                                              *)

(* The coder's trees, once the checks have passed.                         *)
Sound ==
  /\ IsTree(given) /\ IsTree(clone)
  /\ given \in [DOMAIN given -> Plain] /\ clone \in [DOMAIN clone -> Entries]
  /\ \A p \in Candidates : HasSymlinkedAncestor(p) \/ Supported(p)

(* No file of the clone is read through a link, and a path that is read    *)
(* through one is gone.                                                    *)
LEMMA ClassifiedIs ==
  ASSUME Sound, NEW p \in Paths
  PROVE  /\ p \in DOMAIN clone => ~HasSymlinkedAncestor(p) /\ ClassifyEntry(p) = clone[p]
         /\ p \notin DOMAIN clone /\ ~HasSymlinkedAncestor(p) => ClassifyEntry(p) = Absent
<1>1. p \in DOMAIN clone => ~HasSymlinkedAncestor(p)
  BY DEF Sound, IsTree, PrefixFree, HasSymlinkedAncestor, Link
<1>2. ~HasSymlinkedAncestor(p) => ClassifyEntry(p) = At(clone, p)
  BY DEF HasSymlinkedAncestor, ClassifyEntry
<1> QED BY <1>1, <1>2 DEF At

LEMMA RemovedIs ==
  ASSUME Sound
  PROVE  Removed = DOMAIN given \ DOMAIN clone
<1>1. Candidates \subseteq Paths /\ DOMAIN given \subseteq Candidates
      /\ Candidates \subseteq DOMAIN given \cup DOMAIN clone
  BY DEF Sound, IsTree, Candidates
<1>2. ASSUME NEW p \in DOMAIN clone
      PROVE  p \notin Removed
  <2>1. p \in Paths /\ clone[p] \in Entries
    BY DEF Sound, IsTree
  <2> QED BY <2>1, ClassifiedIs, EntriesAre DEF Removed
<1>3. ASSUME NEW p \in DOMAIN given \ DOMAIN clone
      PROVE  p \in Removed
  BY <1>1, ClassifiedIs DEF Removed
<1> QED BY <1>1, <1>2, <1>3 DEF Removed

LEMMA ChangedIs ==
  ASSUME Sound
  PROVE  Changed = {p \in DOMAIN clone :
           IF p \in DOMAIN given THEN given[p] # clone[p]
           ELSE p \notin rules /\ clone[p].mode \in Modes}
<1> DEFINE C == {p \in DOMAIN clone :
           IF p \in DOMAIN given THEN given[p] # clone[p]
           ELSE p \notin rules /\ clone[p].mode \in Modes}
<1>1. Candidates \subseteq Paths /\ DOMAIN given \subseteq Candidates /\ DOMAIN clone \subseteq Paths
      /\ Candidates \subseteq DOMAIN given \cup DOMAIN clone
  BY DEF Sound, IsTree, Candidates
<1>2. Candidates \ Removed = Candidates \cap DOMAIN clone
  BY <1>1, RemovedIs
<1>3. ASSUME NEW p \in Candidates \cap DOMAIN clone
      PROVE  p \in Changed <=> p \in C
  <2>1. ClassifyEntry(p) = clone[p] /\ clone[p] \in Entries
    BY <1>1, ClassifiedIs DEF Sound
  <2>2. CASE p \in DOMAIN given
    <3>1. given[p] \in Plain
      BY <2>2 DEF Sound
    <3>2. given[p].mode = clone[p].mode /\ given[p].text = clone[p].text => given[p] = clone[p]
      BY <2>1, <3>1 DEF Plain, Entries
    <3>3. Unchanged(p) <=> given[p] = clone[p]
      BY <2>1, <2>2, <3>2 DEF Unchanged
    <3> QED BY <1>2, <2>2, <3>3 DEF Changed
  <2>3. CASE p \notin DOMAIN given
    <3>1. p \notin rules /\ clone[p].mode # "special"
      BY <2>3 DEF Candidates
    <3>2. clone[p].mode \in Modes
      BY <2>1, <3>1 DEF Entries
    <3>3. ~Unchanged(p)
      BY <2>3 DEF Unchanged
    <3> QED BY <1>2, <2>3, <3>1, <3>2, <3>3 DEF Changed
  <2> QED BY <2>2, <2>3
<1>4. ASSUME NEW p \in C
      PROVE  p \in Candidates
  BY <1>1 DEF Candidates, Modes
<1>5. Changed \subseteq Candidates \cap DOMAIN clone
  BY <1>2 DEF Changed
<1> HIDE DEF C
<1>6. C \subseteq DOMAIN clone
  BY DEF C
<1>7. Changed = C
  BY <1>3, <1>4, <1>5, <1>6
<1> QED BY <1>7 DEF C

(* The entries of the two trees Git compares.                              *)
LEMMA CommittedIs ==
  ASSUME Sound
  PROVE  /\ DOMAIN Committed = DOMAIN given /\ Committed \in [DOMAIN given -> Blobs]
         /\ \A p \in DOMAIN given :
              /\ Committed[p].mode = given[p].mode
              /\ Committed[p].blob = <<Committed[p].blob[1], given[p].text>>
<1>1. DOMAIN Committed = DOMAIN given
  BY DEF Committed
<1>2. ASSUME NEW p \in DOMAIN given
      PROVE  /\ Committed[p] \in Blobs /\ Committed[p].mode = given[p].mode
             /\ Committed[p].blob = <<Committed[p].blob[1], given[p].text>>
  <2>1. given[p].mode \in Modes /\ given[p].text \in Texts
    BY DEF Sound, Plain
  <2>2. PICK f \in {"raw", "clean"} :
          Committed[p] = [mode |-> given[p].mode, blob |-> <<f, given[p].text>>]
    BY DEF Committed
  <2> QED BY <2>1, <2>2 DEF Blobs
<1>3. Committed \in [DOMAIN given -> Blobs]
  BY <1>2 DEF Committed
<1> QED BY <1>1, <1>2, <1>3

(* promote.index is the baseline without what is gone, and with every      *)
(* changed path as the coder left it.  Nothing of the baseline collides    *)
(* with a changed path, since the coder's tree is one.                     *)
LEMMA IndexIs ==
  ASSUME Sound
  PROVE  /\ DOMAIN PromotedIndex = (DOMAIN given \cap DOMAIN clone) \cup Changed
         /\ \A p \in Changed : PromotedIndex[p] = Left(p)
         /\ \A p \in (DOMAIN given \cap DOMAIN clone) \ Changed : PromotedIndex[p] = Committed[p]
         /\ PromotedIndex \in [DOMAIN PromotedIndex -> Blobs]
         /\ IsTree(PromotedIndex)
<1> DEFINE kept == Without(Committed, Removed)
           left == {p \in DOMAIN kept : \A q \in Changed : ~Under(p, q) /\ ~Under(q, p)}
<1>1. DOMAIN kept = DOMAIN given \cap DOMAIN clone
      /\ \A p \in DOMAIN given \cap DOMAIN clone : kept[p] = Committed[p]
  BY CommittedIs, RemovedIs DEF Without, Restrict
<1>2. Changed \subseteq DOMAIN clone
  BY ChangedIs
<1>3. left = DOMAIN given \cap DOMAIN clone
  BY <1>1, <1>2 DEF Sound, IsTree, PrefixFree
<1>4. PromotedIndex = [p \in left \cup Changed |->
        IF p \in Changed
        THEN [mode |-> ClassifyEntry(p).mode, blob |-> <<"raw", ClassifyEntry(p).text>>]
        ELSE kept[p]]
  BY DEF PromotedIndex
<1> HIDE DEF kept, left
<1>5. \A p \in Changed : ClassifyEntry(p) = clone[p] /\ p \in Candidates
  BY <1>2, ClassifiedIs DEF Sound, IsTree, Changed
<1>6. /\ DOMAIN PromotedIndex = (DOMAIN given \cap DOMAIN clone) \cup Changed
      /\ \A p \in Changed : PromotedIndex[p] = Left(p)
      /\ \A p \in (DOMAIN given \cap DOMAIN clone) \ Changed : PromotedIndex[p] = Committed[p]
  BY <1>1, <1>3, <1>4, <1>5 DEF Left
<1>7. \A p \in Changed : Left(p) \in Blobs
  <2> SUFFICES ASSUME NEW p \in Changed
               PROVE  Left(p) \in Blobs
    OBVIOUS
  <2>1. Supported(p)
    BY <1>2, <1>5, ClassifiedIs DEF Sound, IsTree
  <2>2. clone[p] \in Entries /\ clone[p].mode \in Modes
    BY <1>2, <1>5, <2>1 DEF Sound, Supported, Entries, Modes
  <2>3. clone[p].text \in Texts
    BY <2>2 DEF Entries
  <2> QED BY <2>2, <2>3 DEF Left, Blobs
<1>8. \A p \in DOMAIN PromotedIndex : PromotedIndex[p] \in Blobs
  BY <1>6, <1>7, CommittedIs
<1>9. PromotedIndex \in [DOMAIN PromotedIndex -> Blobs]
  BY <1>4, <1>8
<1>10. IsTree(PromotedIndex)
  <2>1. DOMAIN PromotedIndex \subseteq DOMAIN clone
    BY <1>2, <1>6
  <2> QED BY <2>1 DEF Sound, IsTree, PrefixFree
<1> QED BY <1>6, <1>9, <1>10

(* Delta, said like the code finds it.                                     *)
LEMMA DeltaIs ==
  ASSUME Sound
  PROVE  Delta = Removed \cup Changed
<1>1. Removed = DOMAIN given \ DOMAIN clone
  BY RemovedIs
<1>2. Changed = {p \in DOMAIN clone :
           IF p \in DOMAIN given THEN given[p] # clone[p]
           ELSE p \notin rules /\ clone[p].mode \in Modes}
  BY ChangedIs
<1>3. \A p \in DOMAIN given : given[p] # Absent
  BY EntriesAre DEF Sound
<1>4. \A p \in DOMAIN clone : clone[p] # Absent
  BY EntriesAre DEF Sound
<1>5. DOMAIN given \subseteq Paths /\ DOMAIN clone \subseteq Paths
  BY DEF Sound, IsTree
<1>6. ASSUME NEW p \in Paths
      PROVE  p \in Delta <=> p \in Removed \/ p \in Changed
  BY <1>1, <1>2, <1>3, <1>4, <1>6 DEF Delta, At
<1>7. Delta \subseteq Paths /\ Removed \subseteq Paths /\ Changed \subseteq Paths
  BY <1>1, <1>2, <1>5 DEF Delta
<1> QED BY <1>6, <1>7

(* The patch has the paths the coder changed, and no other.                *)
LEMMA PatchIs ==
  ASSUME Sound
  PROVE  /\ {p \in Paths : At(Committed, p) # At(PromotedIndex, p)} = Delta
         /\ \A p \in Delta : p \in DOMAIN PromotedIndex <=> p \in DOMAIN clone
         /\ \A p \in Delta \cap DOMAIN PromotedIndex : PromotedIndex[p] = Left(p)
<1>1. Removed = DOMAIN given \ DOMAIN clone /\ Delta = Removed \cup Changed
  BY RemovedIs, DeltaIs
<1>2. Changed = {p \in DOMAIN clone :
           IF p \in DOMAIN given THEN given[p] # clone[p]
           ELSE p \notin rules /\ clone[p].mode \in Modes}
  BY ChangedIs
<1>3. /\ DOMAIN PromotedIndex = (DOMAIN given \cap DOMAIN clone) \cup Changed
      /\ \A p \in Changed : PromotedIndex[p] = Left(p)
      /\ \A p \in (DOMAIN given \cap DOMAIN clone) \ Changed : PromotedIndex[p] = Committed[p]
      /\ PromotedIndex \in [DOMAIN PromotedIndex -> Blobs]
  BY IndexIs
<1>4. /\ DOMAIN Committed = DOMAIN given /\ Committed \in [DOMAIN given -> Blobs]
      /\ \A p \in DOMAIN given :
              /\ Committed[p].mode = given[p].mode
              /\ Committed[p].blob = <<Committed[p].blob[1], given[p].text>>
  BY CommittedIs
<1>5. \A e \in Blobs : e # Absent
  BY DEF Blobs, Absent, Modes
<1>6. DOMAIN given \subseteq Paths /\ DOMAIN clone \subseteq Paths
  BY DEF Sound, IsTree
<1>7. ASSUME NEW p \in Paths
      PROVE  At(Committed, p) # At(PromotedIndex, p) <=> p \in Delta
  <2>1. CASE p \in Removed
    <3>1. At(Committed, p) # Absent /\ At(PromotedIndex, p) = Absent
      BY <1>1, <1>2, <1>3, <1>4, <1>5, <2>1 DEF At
    <3> QED BY <1>1, <2>1, <3>1
  <2>2. CASE p \in Changed \ DOMAIN given
    <3>1. At(Committed, p) = Absent /\ At(PromotedIndex, p) # Absent
      BY <1>3, <1>4, <1>5, <2>2 DEF At
    <3> QED BY <1>1, <2>2, <3>1
  <2>3. CASE p \in Changed \cap DOMAIN given
    <3>1. given[p] # clone[p] /\ given[p] \in Plain /\ clone[p] \in Entries
      BY <1>2, <2>3 DEF Sound
    <3>2. given[p].mode # clone[p].mode \/ given[p].text # clone[p].text
      BY <3>1 DEF Plain, Entries
    <3>3. /\ At(PromotedIndex, p) = Left(p) /\ At(Committed, p) = Committed[p]
          /\ Left(p).mode = clone[p].mode /\ Left(p).blob = <<"raw", clone[p].text>>
      BY <1>3, <1>4, <2>3 DEF At, Left
    <3>4. At(Committed, p) # At(PromotedIndex, p)
      BY <1>4, <2>3, <3>2, <3>3
    <3> QED BY <1>1, <2>3, <3>4
  <2>4. CASE p \notin Removed \cup Changed
    <3>1. At(Committed, p) = At(PromotedIndex, p)
      BY <1>1, <1>3, <1>4, <2>4 DEF At
    <3> QED BY <1>1, <2>4, <3>1
  <2> QED BY <2>1, <2>2, <2>3, <2>4
<1>8. Delta \subseteq Paths
  BY DEF Delta
<1>9. {p \in Paths : At(Committed, p) # At(PromotedIndex, p)} = Delta
  BY <1>7, <1>8
<1>10. \A p \in Delta : p \in DOMAIN PromotedIndex <=> p \in DOMAIN clone
  BY <1>1, <1>2, <1>3
<1>11. \A p \in Delta \cap DOMAIN PromotedIndex : PromotedIndex[p] = Left(p)
  BY <1>1, <1>3
<1> QED BY <1>9, <1>10, <1>11

-----------------------------------------------------------------------------
(* The steps.                                                              *)

PatchOf(j) == {p \in Paths : At(Committed, p) # At(j, p)}

(* What stays as it is while the sandbox and the clone do.                 *)
LEMMA SandboxRests ==
  ASSUME UNCHANGED <<given, clone, rules>>
  PROVE  /\ Committed' = Committed /\ Delta' = Delta /\ Patch' = PatchOf(index')
         /\ \A p : Left(p)' = Left(p)
BY DEF Committed, Delta, Patch, PatchOf, Left, At

(* The steps before the patch is built, and those that end the promotion   *)
(* early, change nothing the later ones look at.                           *)
LEMMA EarlyStep ==
  ASSUME PromotionInv, Capture \/ Seed \/ Coder \/ Verify \/ Refuse
  PROVE  PromotionInv'
<1> USE DEF PromotionInv, PromotionTypeOK
<1>1. /\ UNCHANGED <<target, index, was, edits>>
      /\ pc \in {"capture", "seed", "coder", "verify", "build"}
      /\ pc' \in {"seed", "coder", "verify", "build", "blocked"}
  BY DEF Capture, Seed, Coder, Verify, Refuse, Go, sandbox, coder, others
<1>2. target = was /\ target \in [DOMAIN target -> Plain]
  BY <1>1 DEF EditInv, TreeInv
<1>3. /\ DOMAIN Visible(target) = DOMAIN target \ Ignored
      /\ Visible(target) \in [DOMAIN Visible(target) -> Plain] /\ IsTree(Visible(target))
  BY <1>2, WithoutIs DEF Visible, TreeInv
<1>4. /\ captured' = captured \/ captured' = Visible(target)
      /\ given' = given \/ given' = Visible(target)
      /\ \/ clone' = clone
         \/ clone' = Visible(target)
         \/ clone' \in TreesOf(Written)
  BY DEF Capture, Seed, Coder, Verify, Refuse, sandbox, coder
<1>5. IsTree(clone') /\ clone' \in [DOMAIN clone' -> Entries]
  <2>1. CASE clone' \in TreesOf(Written)
    <3>1. PICK D \in SUBSET Paths : PrefixFree(D) /\ clone' \in [D -> Written]
      BY <2>1 DEF TreesOf
    <3>2. DOMAIN clone' = D /\ clone' \in [D -> Entries]
      BY <3>1
    <3> QED BY <3>1, <3>2 DEF IsTree
  <2> QED BY <1>3, <1>4, <2>1, EntriesAre DEF TreeInv
<1>6. rules' \in {Ignored, {}} /\ damage' \subseteq Damages /\ late' \in BOOLEAN
  BY DEF Capture, Seed, Coder, Verify, Refuse, sandbox, coder, others, TreeInv
<1>7. PromotionTypeOK'
  BY <1>1, <1>3, <1>4, <1>5, <1>6 DEF TreeInv, Points
<1>8. TreeInv'
  BY <1>1, <1>2, <1>3, <1>4, <1>5, <1>7 DEF TreeInv
<1>9. EditInv'
  BY <1>1, <1>2 DEF EditInv, Capture, Seed, Coder, Verify, Refuse, Go, Visible, sandbox, others
<1>10. PatchInv' /\ CheckedInv' /\ CreateInv' /\ WholeInv'
  BY <1>1 DEF PatchInv, CheckedInv, CreateInv, WholeInv
<1>11. OnlyTheDeltaIsTouched'
  BY <1>1, <1>2 DEF OnlyTheDeltaIsTouched
<1> QED BY <1>8, <1>9, <1>10, <1>11

(* The patch is built from a clone that passed every check.                *)
LEMMA BuildStep ==
  ASSUME PromotionInv, BuildPatch
  PROVE  PromotionInv'
<1> USE DEF PromotionInv, PromotionTypeOK
<1>1. /\ UNCHANGED <<target, captured, given, clone, rules, damage, was, late, edits>>
      /\ pc = "build" /\ pc' = "apply" /\ index' = PromotedIndex
      /\ \A p \in Candidates : HasSymlinkedAncestor(p) \/ Supported(p)
  BY DEF BuildPatch, Go, sandbox, coder, others
<1>2. Sound
  BY <1>1 DEF TreeInv, Sound
<1>3. index' \in [DOMAIN index' -> Blobs] /\ IsTree(index')
  BY <1>1, <1>2, IndexIs
<1>4. \A p \in DOMAIN index' : index'[p].mode \in Modes
  BY <1>3 DEF Blobs
<1>5. TreeInv'
  BY <1>1, <1>3, <1>4 DEF TreeInv, Points
<1>6. EditInv'
  BY <1>1 DEF EditInv, Visible
<1>7. PatchInv'
  <2>1. Patch' = Delta /\ Delta' = Delta /\ \A p : Left(p)' = Left(p)
    BY <1>1, <1>2, PatchIs, SandboxRests DEF PatchOf
  <2>2. /\ \A p \in Delta : p \in DOMAIN index' <=> p \in DOMAIN clone
        /\ \A p \in Delta \cap DOMAIN index' : index'[p] = Left(p)
    BY <1>1, <1>2, PatchIs
  <2>3. Creations' = Delta \cap DOMAIN index'
    BY <2>1 DEF Creations
  <2> QED BY <1>1, <2>1, <2>2, <2>3 DEF PatchInv
<1>8. CheckedInv' /\ CreateInv' /\ WholeInv'
  BY <1>1 DEF CheckedInv, CreateInv, WholeInv
<1>9. OnlyTheDeltaIsTouched'
  <2>1. target' = was'
    BY <1>1 DEF EditInv
  <2> QED BY <2>1 DEF OnlyTheDeltaIsTouched
<1> QED BY <1>5, <1>6, <1>7, <1>8, <1>9

(* Git's check of the target: what it lets pass is as the coder got it, or *)
(* takes both changes; the paths of the patch stay the same.               *)
LEMMA ApplyChecksStep ==
  ASSUME PromotionInv, ApplyChecks
  PROVE  PromotionInv'
<1> USE DEF PromotionInv, PromotionTypeOK
<1>1. /\ UNCHANGED <<target, captured, given, clone, rules, damage, was, late, edits>>
      /\ pc = "apply" /\ pc' \in {"delete", "blocked"}
      /\ target = was
  BY DEF ApplyChecks, Go, sandbox, coder, others, EditInv
<1>2. CASE pc' = "blocked" /\ index' = index
  <2>1. TreeInv' /\ EditInv' /\ PatchInv' /\ CheckedInv' /\ CreateInv' /\ WholeInv'
    BY <1>1, <1>2 DEF TreeInv, EditInv, PatchInv, CheckedInv, CreateInv, WholeInv, Points
  <2>2. OnlyTheDeltaIsTouched'
    BY <1>1 DEF OnlyTheDeltaIsTouched
  <2> QED BY <2>1, <2>2
<1>3. CASE /\ Applicable /\ pc' = "delete"
           /\ index' = [p \in DOMAIN index |->
                          IF p \in Deletions /\ Mergeable(p)
                          THEN [index[p] EXCEPT !.blob = <<"raw", Merged>>] ELSE index[p]]
  <2> DEFINE Merging(p) == p \in Deletions /\ Mergeable(p)
  <2>1. /\ DOMAIN index' = DOMAIN index
        /\ \A p \in DOMAIN index : ~Merging(p) => index'[p] = index[p]
        /\ \A p \in DOMAIN index : Merging(p) => index'[p] = [index[p] EXCEPT !.blob = <<"raw", Merged>>]
    BY <1>3
  <2>2. \A p \in DOMAIN index : index[p] \in Blobs
    BY DEF TreeInv
  <2>3. \A p \in DOMAIN index : Merging(p) =>
          index'[p] \in Blobs /\ index'[p].blob = <<"raw", Merged>>
    <3> SUFFICES ASSUME NEW p \in DOMAIN index, Merging(p)
                 PROVE  index'[p] \in Blobs /\ index'[p].blob = <<"raw", Merged>>
      OBVIOUS
    <3>1. <<"raw", Merged>> \in {"raw", "clean"} \X (Texts \cup {Merged})
      OBVIOUS
    <3>2. index[p] \in Blobs /\ index'[p] = [index[p] EXCEPT !.blob = <<"raw", Merged>>]
      BY <2>1, <2>2
    <3> HIDE DEF Merging
    <3> QED BY <3>1, <3>2 DEF Blobs
  <2>4. \A p : Merging(p) => p \in Deletions /\ Mergeable(p)
    OBVIOUS
  <2>5. \A p : p \in Deletions /\ Mergeable(p) => Merging(p)
    OBVIOUS
  <2> HIDE DEF Merging
  <2>6. \A p \in DOMAIN index' : index'[p] \in Blobs
    BY <2>1, <2>2, <2>3
  <2>7. index' \in [DOMAIN index' -> Blobs]
    BY <1>3, <2>6
  <2>8. IsTree(index') /\ \A p \in DOMAIN index' : index'[p].mode \in Modes
    BY <2>1, <2>6 DEF TreeInv, IsTree, Blobs
  <2>9. TreeInv'
    BY <1>1, <1>3, <2>7, <2>8 DEF TreeInv, Points
  <2>10. EditInv'
    BY <1>1 DEF EditInv, Visible
  <2>11. /\ Patch = Delta /\ Patch' = PatchOf(index') /\ Delta' = Delta /\ Committed' = Committed
         /\ \A p : Left(p)' = Left(p)
    BY <1>1, SandboxRests DEF PatchInv
  <2>12. DOMAIN Committed = DOMAIN given
    BY DEF Committed
  <2>13. \A p : Merging(p) => /\ p \in DOMAIN index \cap DOMAIN given \cap Delta
                              /\ At(target, p) # given[p]
    BY <2>4, <2>11, <2>12 DEF Deletions, Creations, Mergeable
  <2>14. Patch' = Delta
    <3>1. ASSUME NEW p \in Paths
          PROVE  At(Committed, p) # At(index', p) <=> p \in Delta
      <4>1. At(Committed, p) # At(index, p) <=> p \in Delta
        BY <2>11 DEF Patch
      <4>2. CASE ~Merging(p)
        <5>1. At(index', p) = At(index, p)
          BY <2>1, <4>2 DEF At
        <5> QED BY <4>1, <5>1
      <4>3. CASE Merging(p)
        <5>1. p \in Delta /\ p \in DOMAIN given /\ p \in DOMAIN index
          BY <2>13, <4>3
        <5>2. given[p].text \in Texts
          BY <5>1 DEF TreeInv, Plain
        <5>3. PICK f \in {"raw", "clean"} : Committed[p].blob = <<f, given[p].text>>
          BY <5>1 DEF Committed
        <5>4. Committed[p].blob # <<"raw", Merged>>
          BY <5>2, <5>3, EntriesAre
        <5>5. At(Committed, p) = Committed[p] /\ At(index', p) = index'[p]
          BY <2>1, <2>12, <5>1 DEF At
        <5> QED BY <2>3, <4>3, <5>1, <5>4, <5>5
      <4> QED BY <4>2, <4>3
    <3>2. Delta \subseteq Paths
      BY DEF Delta
    <3> QED BY <2>11, <3>1, <3>2 DEF PatchOf
  <2>15. PatchInv'
    BY <1>1, <1>3, <2>1, <2>11, <2>14 DEF PatchInv
  <2>16. CheckedInv'
    <3> SUFFICES ASSUME NEW p \in Delta
                 PROVE  Taken(p)' \/ Both(p)'
      BY <2>11 DEF CheckedInv
    <3>1. p \in Paths /\ (p \in DOMAIN index => p \in Creations) /\ (p \in DOMAIN given <=> p \in Deletions)
      BY <2>11, <2>12 DEF Delta, Creations, Deletions
    <3>2. CASE Merging(p)
      <4>1. At(was', p) # given'[p] /\ p \in DOMAIN index' \cap DOMAIN given'
            /\ index'[p].blob = <<"raw", Merged>>
        BY <1>1, <2>1, <2>3, <2>13, <3>2
      <4> QED BY <4>1 DEF Both, At
    <3>3. CASE ~Merging(p)
      <4>1. p \in DOMAIN index => index'[p] = Left(p)
        BY <1>1, <2>1, <3>1, <3>3 DEF PatchInv
      <4>2. At(was, p) = At(given, p)
        <5>1. CASE p \in Deletions
          <6>1. At(target, p) = given[p]
            BY <1>3, <2>5, <3>3, <5>1 DEF Applicable
          <6> QED BY <1>1, <3>1, <5>1, <6>1 DEF At
        <5>2. CASE p \notin Deletions
          <6>1. p \notin DOMAIN given
            BY <3>1, <5>2
          <6>2. p \in DOMAIN index
            <7>1. At(Committed, p) # At(index, p)
              BY <2>11 DEF Patch
            <7> QED BY <2>12, <6>1, <7>1 DEF At
          <6>3. p \notin DOMAIN target
            BY <1>3, <3>1, <5>2, <6>2 DEF Applicable
          <6> QED BY <1>1, <6>1, <6>3 DEF At
        <5> QED BY <5>1, <5>2
      <4> QED BY <1>1, <2>1, <2>11, <4>1, <4>2 DEF Taken, At
    <3> QED BY <3>2, <3>3
  <2>17. CreateInv' /\ WholeInv'
    BY <1>3 DEF CreateInv, WholeInv
  <2>18. OnlyTheDeltaIsTouched'
    BY <1>1 DEF OnlyTheDeltaIsTouched
  <2> QED BY <2>9, <2>10, <2>15, <2>16, <2>17, <2>18
<1> QED BY <1>1, <1>2, <1>3 DEF ApplyChecks, Go

(* What the deletions leave.                                               *)
LEMMA ApplyDeletesStep ==
  ASSUME PromotionInv, ApplyDeletes
  PROVE  PromotionInv'
<1> USE DEF PromotionInv, PromotionTypeOK
<1>1. /\ UNCHANGED <<captured, given, clone, rules, damage, index, was, late, edits>>
      /\ pc = "delete" /\ pc' = "create" /\ target = was
      /\ target' = Without(target, Deletions)
  BY DEF ApplyDeletes, Go, sandbox, coder, others, EditInv
<1>2. /\ Patch = Delta /\ Patch' = Patch /\ Delta' = Delta /\ Committed' = Committed
      /\ Deletions' = Deletions /\ \A p : Left(p)' = Left(p)
  BY <1>1, SandboxRests DEF PatchInv, Patch, PatchOf, Deletions
<1>3. /\ \A p : At(target', p) = IF p \in Deletions THEN Absent ELSE At(target, p)
      /\ target' \in [DOMAIN target' -> Files] /\ IsTree(target')
  <2>1. target \in [DOMAIN target -> Files] /\ IsTree(target)
    BY DEF TreeInv
  <2>2. Without(target, Deletions) \in [DOMAIN Without(target, Deletions) -> Files]
    BY <2>1, WithoutIs
  <2>3. \A p : At(Without(target, Deletions), p) = IF p \in Deletions THEN Absent ELSE At(target, p)
    BY WithoutIs
  <2>4. IsTree(Without(target, Deletions))
    BY <2>1, WithoutIs
  <2> QED BY <1>1, <2>2, <2>3, <2>4
<1>4. TreeInv'
  BY <1>1, <1>3 DEF TreeInv, Points, Files
<1>5. EditInv'
  BY <1>1 DEF EditInv, Visible
<1>6. PatchInv' /\ WholeInv'
  BY <1>1, <1>2 DEF PatchInv, WholeInv
<1>7. CheckedInv'
  BY <1>1, <1>2 DEF CheckedInv, Taken, Both, At
<1>8. CreateInv'
  BY <1>1, <1>2, <1>3 DEF CreateInv, At
<1>9. OnlyTheDeltaIsTouched'
  <2>1. Deletions \subseteq Delta
    BY <1>2 DEF Deletions
  <2> QED BY <1>1, <1>2, <1>3, <2>1 DEF OnlyTheDeltaIsTouched, At
<1> QED BY <1>4, <1>5, <1>6, <1>7, <1>8, <1>9

(* Files are written where nothing is in the way: a tree stays one, and    *)
(* nothing but those files changes.                                        *)
LEMMA WriteIs ==
  ASSUME PromotionInv, NEW D \in SUBSET Creations, \A p \in D : ~InTheWay(p), Write(D)
  PROVE  /\ DOMAIN target' = DOMAIN target \cup D
         /\ target' \in [DOMAIN target' -> Files] /\ IsTree(target')
         /\ \A p \in D : target'[p] = [mode |-> index[p].mode, text |-> index[p].blob[2]]
         /\ \A p : p \notin D => At(target', p) = At(target, p)
<1>1. target' = [p \in DOMAIN target \cup D |->
               IF p \in D THEN [mode |-> index[p].mode, text |-> index[p].blob[2]]
               ELSE target[p]]
  BY DEF Write
<1>2. /\ DOMAIN target' = DOMAIN target \cup D
      /\ \A p \in D : target'[p] = [mode |-> index[p].mode, text |-> index[p].blob[2]]
      /\ \A p \in DOMAIN target : p \notin D => target'[p] = target[p]
  BY <1>1
<1>3. D \subseteq DOMAIN index /\ D \subseteq Paths
  BY DEF Creations, Patch
<1>4. \A p \in D : [mode |-> index[p].mode, text |-> index[p].blob[2]] \in Files
  <2> SUFFICES ASSUME NEW p \in D
               PROVE  [mode |-> index[p].mode, text |-> index[p].blob[2]] \in Files
    OBVIOUS
  <2>1. index[p] \in Blobs
    BY <1>3 DEF PromotionInv, TreeInv
  <2>2. index[p].mode \in Modes /\ index[p].blob[2] \in Texts \cup {Merged}
    BY <2>1 DEF Blobs
  <2> QED BY <2>2 DEF Files
<1>5. target' \in [DOMAIN target' -> Files]
  <2>1. \A p \in DOMAIN target' : target'[p] \in Files
    BY <1>2, <1>4 DEF PromotionInv, TreeInv
  <2> QED BY <1>1, <1>2, <2>1
<1>6. IsTree(target')
  <2>1. /\ DOMAIN target \subseteq Paths /\ PrefixFree(DOMAIN target)
        /\ PrefixFree(DOMAIN index)
    BY DEF PromotionInv, TreeInv, PromotionTypeOK, IsTree
  <2>2. ASSUME NEW p \in DOMAIN target \cup D, NEW q \in DOMAIN target \cup D
        PROVE  ~Under(p, q)
    <3>1. CASE p \in DOMAIN target /\ q \in DOMAIN target
      BY <2>1, <3>1 DEF PrefixFree
    <3>2. CASE p \in D /\ q \in D
      BY <1>3, <2>1, <3>2 DEF PrefixFree
    <3>3. CASE p \in D /\ q \in DOMAIN target
      BY <3>3 DEF InTheWay
    <3>4. CASE q \in D /\ p \in DOMAIN target
      BY <3>4 DEF InTheWay
    <3> QED BY <3>1, <3>2, <3>3, <3>4
  <2> QED BY <1>2, <1>3, <2>1, <2>2 DEF IsTree, PrefixFree
<1>7. \A p : p \notin D => At(target', p) = At(target, p)
  BY <1>2 DEF At
<1> QED BY <1>2, <1>5, <1>6, <1>7

(* Every file was written: the promotion is whole.                         *)
LEMMA ApplyCreatesStep ==
  ASSUME PromotionInv, ApplyCreates
  PROVE  PromotionInv'
<1> USE DEF PromotionInv, PromotionTypeOK
<1>1. /\ UNCHANGED <<captured, given, clone, rules, damage, index, was, late, edits>>
      /\ pc = "create" /\ pc' = "promoted"
      /\ Write(Creations) /\ \A p \in Creations : ~InTheWay(p)
  BY DEF ApplyCreates, Go, sandbox, coder, others
<1>2. /\ DOMAIN target' = DOMAIN target \cup Creations
      /\ target' \in [DOMAIN target' -> Files] /\ IsTree(target')
      /\ \A p \in Creations : target'[p] = [mode |-> index[p].mode, text |-> index[p].blob[2]]
      /\ \A p : p \notin Creations => At(target', p) = At(target, p)
  BY <1>1, WriteIs
<1>3. /\ Patch = Delta /\ Delta' = Delta /\ DOMAIN Committed = DOMAIN given /\ Delta \subseteq Paths
      /\ \A p \in Delta : p \in DOMAIN index <=> p \in DOMAIN clone
  BY <1>1, SandboxRests DEF PatchInv, Committed, Delta
<1>4. TreeInv'
  BY <1>1, <1>2 DEF TreeInv, Points, Files
<1>5. EditInv'
  BY <1>1 DEF EditInv, Visible
<1>6. PatchInv' /\ CheckedInv' /\ CreateInv'
  BY <1>1 DEF PatchInv, CheckedInv, CreateInv
<1>7. WholeInv'
  <2> SUFFICES ASSUME NEW p \in Delta
               PROVE  \/ At(target', p) = At(clone, p) /\ At(was, p) = At(given, p)
                      \/ /\ p \in DOMAIN target' \cap DOMAIN given
                         /\ target'[p].text = Merged /\ At(was, p) # given[p]
    BY <1>1, <1>3 DEF WholeInv, At
  <2>1. CASE p \notin DOMAIN index
    <3>1. p \notin DOMAIN clone /\ p \notin Creations
      BY <1>3, <2>1 DEF Creations
    <3>2. p \in Deletions
      <4>1. At(Committed, p) # At(index, p)
        BY <1>3 DEF Patch
      <4> QED BY <1>3, <2>1, <4>1 DEF Deletions, At
    <3>3. At(target', p) = Absent
      BY <1>1, <1>2, <1>3, <3>1, <3>2 DEF CreateInv
    <3>4. At(was, p) = At(given, p)
      BY <1>1, <2>1 DEF CheckedInv, Taken, Both
    <3> QED BY <3>1, <3>3, <3>4 DEF At
  <2>2. CASE p \in DOMAIN index
    <3>1. p \in Creations /\ p \in DOMAIN clone
      BY <1>3, <2>2 DEF Creations
    <3>2. target'[p] = [mode |-> index[p].mode, text |-> index[p].blob[2]] /\ p \in DOMAIN target'
      BY <1>2, <3>1
    <3>3. CASE Taken(p)
      <4>1. target'[p] = [mode |-> clone[p].mode, text |-> clone[p].text]
        BY <2>2, <3>2, <3>3 DEF Taken, Left
      <4>2. clone[p] \in Entries
        BY <3>1 DEF TreeInv
      <4>3. target'[p] = clone[p]
        BY <4>1, <4>2 DEF Entries
      <4> QED BY <3>1, <3>2, <3>3, <4>3 DEF Taken, At
    <3>4. CASE Both(p)
      BY <3>2, <3>4 DEF Both
    <3> QED BY <1>1, <3>3, <3>4 DEF CheckedInv
  <2> QED BY <2>1, <2>2
<1>8. OnlyTheDeltaIsTouched'
  <2>1. \A p \in Paths : p \notin Delta => p \notin Creations /\ p \notin Deletions
    BY <1>3 DEF Creations, Deletions
  <2>2. \A p \in Paths : p \notin Delta => At(target', p) = At(was, p)
    BY <1>1, <1>2, <2>1 DEF CreateInv
  <2> QED BY <1>1, <1>3, <2>2 DEF OnlyTheDeltaIsTouched, At
<1> QED BY <1>4, <1>5, <1>6, <1>7, <1>8

(* It was not: what is missing or there too much is of the delta.          *)
LEMMA ApplyFailsStep ==
  ASSUME PromotionInv, ApplyCollides \/ ApplyStops
  PROVE  PromotionInv'
<1> USE DEF PromotionInv, PromotionTypeOK
<1>1. /\ UNCHANGED <<captured, given, clone, rules, damage, index, was, late, edits>>
      /\ pc \in {"delete", "create"} /\ pc' = "blocked"
      /\ \/ pc = "delete" /\ \E D \in SUBSET Deletions : target' = Without(target, D)
         \/ pc = "create" /\ \E D \in SUBSET {p \in Creations : ~InTheWay(p)} : Write(D)
  BY DEF ApplyCollides, ApplyStops, Go, sandbox, coder, others
<1>2. /\ Patch = Delta /\ Delta' = Delta
      /\ Creations \subseteq Delta /\ Deletions \subseteq Delta
  BY <1>1, SandboxRests DEF PatchInv, Creations, Deletions
<1>3. /\ target' \in [DOMAIN target' -> Files] /\ IsTree(target')
      /\ \A p \in Paths : p \notin Delta => At(target', p) = At(was, p)
  <2>1. CASE pc = "delete"
    <3>1. PICK D \in SUBSET Deletions : target' = Without(target, D)
      BY <1>1, <2>1
    <3>2. target \in [DOMAIN target -> Files] /\ IsTree(target) /\ target = was
      BY <2>1 DEF TreeInv, EditInv
    <3>3. Without(target, D) \in [DOMAIN Without(target, D) -> Files] /\ IsTree(Without(target, D))
      BY <3>2, WithoutIs
    <3>4. \A p : At(Without(target, D), p) = IF p \in D THEN Absent ELSE At(target, p)
      BY WithoutIs
    <3> QED BY <1>2, <3>1, <3>2, <3>3, <3>4
  <2>2. CASE pc = "create"
    <3>1. PICK D \in SUBSET Creations : (\A p \in D : ~InTheWay(p)) /\ Write(D)
      BY <1>1, <2>2
    <3>2. /\ target' \in [DOMAIN target' -> Files] /\ IsTree(target')
          /\ \A p : p \notin D => At(target', p) = At(target, p)
      BY <3>1, WriteIs
    <3>3. \A p \in Paths : p \notin Delta => At(target, p) = At(was, p)
      BY <1>2, <2>2 DEF CreateInv
    <3> QED BY <1>2, <3>1, <3>2, <3>3
  <2> QED BY <1>1, <2>1, <2>2
<1>4. TreeInv'
  BY <1>1, <1>3 DEF TreeInv, Points, Files
<1>5. EditInv' /\ PatchInv' /\ CheckedInv' /\ CreateInv' /\ WholeInv'
  BY <1>1 DEF EditInv, PatchInv, CheckedInv, CreateInv, WholeInv
<1>6. OnlyTheDeltaIsTouched'
  BY <1>1, <1>2, <1>3 DEF OnlyTheDeltaIsTouched, At
<1> QED BY <1>4, <1>5, <1>6

(* The coder changed nothing: the target is as others left it.             *)
LEMMA NothingStep ==
  ASSUME PromotionInv, NothingToApply
  PROVE  PromotionInv'
<1> USE DEF PromotionInv, PromotionTypeOK
<1>1. /\ UNCHANGED <<target, captured, given, clone, rules, damage, index, was, late, edits>>
      /\ pc = "apply" /\ pc' = "promoted" /\ target = was /\ Patch = {}
  BY DEF NothingToApply, Go, sandbox, coder, others, EditInv
<1>2. Delta' = {}
  BY <1>1, SandboxRests DEF PatchInv
<1>3. TreeInv' /\ EditInv' /\ PatchInv' /\ CheckedInv' /\ CreateInv'
  BY <1>1 DEF TreeInv, EditInv, PatchInv, CheckedInv, CreateInv, Points, Visible, Plain, Files
<1>4. WholeInv' /\ OnlyTheDeltaIsTouched'
  BY <1>1, <1>2 DEF WholeInv, OnlyTheDeltaIsTouched
<1> QED BY <1>3, <1>4

(* Others edit the target: it stays a tree of files, and the check before  *)
(* the patch no longer stands.                                             *)
LEMMA EditStep ==
  ASSUME PromotionInv, EditTarget
  PROVE  PromotionInv'
<1> USE DEF PromotionInv, PromotionTypeOK
<1>1. /\ UNCHANGED <<pc, captured, given, clone, rules, damage, index>>
      /\ pc \notin {"delete", "create", "promoted", "blocked"}
      /\ was' = target' /\ late' = TRUE /\ edits < MaxEdits /\ edits' = edits + 1
  BY DEF EditTarget, sandbox, coder
<1>2. target \in [DOMAIN target -> Plain] /\ IsTree(target)
  BY <1>1 DEF TreeInv
<1>3. target' \in [DOMAIN target' -> Plain] /\ IsTree(target')
  <2>1. PICK p \in Paths :
       \/ target' = Without(target, {p})
       \/ \E e \in Foreign :
            /\ \A q \in DOMAIN target : ~Under(p, q) /\ ~Under(q, p)
            /\ target' = [q \in DOMAIN target \cup {p} |-> IF q = p THEN e ELSE target[q]]
    BY DEF EditTarget
  <2>2. CASE target' = Without(target, {p})
    <3>1. Without(target, {p}) \in [DOMAIN Without(target, {p}) -> Plain]
      BY <1>2, WithoutIs
    <3>2. IsTree(Without(target, {p}))
      BY <1>2, WithoutIs
    <3> QED BY <2>2, <3>1, <3>2
  <2>3. ASSUME NEW e \in Foreign, \A q \in DOMAIN target : ~Under(p, q) /\ ~Under(q, p),
               target' = [q \in DOMAIN target \cup {p} |-> IF q = p THEN e ELSE target[q]]
        PROVE  target' \in [DOMAIN target' -> Plain] /\ IsTree(target')
    <3>1. e \in Plain
      BY DEF Plain
    <3>2. DOMAIN target' = DOMAIN target \cup {p} /\ \A q \in DOMAIN target' : target'[q] \in Plain
      BY <1>2, <2>3, <3>1
    <3>3. IsTree(target')
      BY <1>2, <2>3, <3>2, NotUnderItself DEF IsTree, PrefixFree
    <3> QED BY <2>3, <3>2, <3>3
  <2> QED BY <2>1, <2>2, <2>3
<1>4. edits' \in 0..MaxEdits
  BY <1>1 DEF TreeInv
<1>5. TreeInv'
  BY <1>1, <1>3, <1>4 DEF TreeInv, Plain, Files
<1>6. EditInv'
  BY <1>1 DEF EditInv
<1>7. PatchInv'
  <2>1. Delta' = Delta /\ Patch' = Patch /\ Committed' = Committed /\ \A p : Left(p)' = Left(p)
    BY <1>1, SandboxRests DEF Patch, PatchOf
  <2> QED BY <1>1, <2>1 DEF PatchInv, Creations
<1>8. CheckedInv' /\ CreateInv' /\ WholeInv' /\ OnlyTheDeltaIsTouched'
  BY <1>1 DEF CheckedInv, CreateInv, WholeInv, OnlyTheDeltaIsTouched
<1> QED BY <1>5, <1>6, <1>7, <1>8

(* The invariant holds at the start and is inductive.                      *)
LEMMA PromotionInit == Init => PromotionInv
<1> SUFFICES ASSUME Init
             PROVE  PromotionInv
  OBVIOUS
<1> USE DEF Init
<1>1. PICK D \in SUBSET Paths : PrefixFree(D) /\ target \in [D -> Given]
  BY DEF TreesOf
<1>2. DOMAIN target = D /\ target \in [D -> Plain] /\ IsTree(target)
  BY <1>1 DEF IsTree, Plain
<1>3. DOMAIN <<>> = {} /\ IsTree(<<>>)
  BY DEF IsTree, PrefixFree
<1>4. PromotionTypeOK
  <2>1. \A tree \in {target, captured, given, clone, index, was} : IsTree(tree)
    BY <1>2, <1>3
  <2>2. /\ \A p \in DOMAIN target : target[p].mode \in Modes
        /\ \A p \in DOMAIN index : index[p].mode \in Modes
    BY <1>2, <1>3 DEF Plain
  <2>3. edits \in 0..MaxEdits
    BY DEF PromotionAssumption
  <2> QED BY <2>1, <2>2, <2>3 DEF PromotionTypeOK, Points
<1>5. <<>> \in [DOMAIN <<>> -> Plain] /\ <<>> \in [DOMAIN <<>> -> Entries] /\ <<>> \in [DOMAIN <<>> -> Blobs]
  BY <1>3
<1>6. TreeInv
  BY <1>2, <1>3, <1>4, <1>5 DEF TreeInv, Plain, Files
<1> QED BY <1>6 DEF PromotionInv, EditInv, PatchInv, CheckedInv, CreateInv, WholeInv, OnlyTheDeltaIsTouched

LEMMA PromotionStep == PromotionInv /\ [Next]_promotionVars => PromotionInv'
<1> SUFFICES ASSUME PromotionInv, [Next]_promotionVars
             PROVE  PromotionInv'
  OBVIOUS
<1>1. CASE UNCHANGED promotionVars
  <2>1. UNCHANGED <<pc, target, captured, given, clone, rules, damage, index, was, late, edits>>
    BY <1>1 DEF promotionVars
  <2>2. /\ Delta' = Delta /\ Committed' = Committed /\ Patch' = Patch
        /\ \A p : Left(p)' = Left(p)
    BY <2>1, SandboxRests DEF Patch, PatchOf
  <2>3. TreeInv' /\ EditInv'
    BY <2>1 DEF PromotionInv, TreeInv, PromotionTypeOK, EditInv, Visible
  <2>4. PatchInv' /\ CheckedInv' /\ CreateInv' /\ WholeInv' /\ OnlyTheDeltaIsTouched'
    BY <2>1, <2>2 DEF PromotionInv, PatchInv, CheckedInv, CreateInv, WholeInv, OnlyTheDeltaIsTouched,
                      Taken, Both, Creations, Deletions, At
  <2> QED BY <2>3, <2>4 DEF PromotionInv
<1>2. CASE Next
  BY <1>1, <1>2, EarlyStep, BuildStep, NothingStep, ApplyChecksStep, ApplyDeletesStep,
     ApplyCreatesStep, ApplyFailsStep, EditStep DEF Next, Done
<1> QED BY <1>1, <1>2

-----------------------------------------------------------------------------
(* The invariant holds of every promotion.                                 *)
THEOREM PromotionInvariant == Spec => []PromotionInv
BY PromotionInit, PromotionStep, PTL DEF Spec

(* What the program and git write is always a tree of files and links, and *)
(* no index holds what a Git tree cannot.                                  *)
THEOREM TreesStay == Spec => []PromotionTypeOK
<1>1. PromotionInv => PromotionTypeOK
  BY DEF PromotionInv, TreeInv
<1> QED BY <1>1, PromotionInvariant, PTL

(* The patch has the paths the coder changed, and no other.                *)
THEOREM PatchTellsTheDelta == Spec => []PatchIsTheDelta
<1>1. PromotionInv => PatchIsTheDelta
  BY DEF PromotionInv, PatchInv, PatchIsTheDelta
<1> QED BY <1>1, PromotionInvariant, PTL

(* Nothing else of the target is touched, whole promotion or not.          *)
THEOREM OthersAreLeftAlone == Spec => []OnlyTheDeltaIsTouched
<1>1. PromotionInv => OnlyTheDeltaIsTouched
  BY DEF PromotionInv
<1> QED BY <1>1, PromotionInvariant, PTL

(* A promotion that reports success is whole.                              *)
THEOREM SuccessIsWhole == Spec => []PromotedIsWhole
<1>1. PromotionInv => PromotedIsWhole
  <2> SUFFICES ASSUME PromotionInv, pc = "promoted", NEW p \in Delta
               PROVE  \/ At(target, p) = At(clone, p) /\ At(was, p) = At(given, p)
                      \/ At(target, p).mode # "absent" /\ target[p].text = Merged
    BY DEF PromotedIsWhole
  <2>1. p \in DOMAIN target => At(target, p).mode # "absent"
    BY DEF PromotionInv, TreeInv, PromotionTypeOK, At, Modes
  <2> QED BY <2>1 DEF PromotionInv, WholeInv
<1> QED BY <1>1, PromotionInvariant, PTL

(* Unless the target was edited after the last look at it, it is then the  *)
(* tree the coder left, outside what is ignored.                           *)
THEOREM ReviewerSeesTheClone == Spec => []PromotedTreeIsTheClone
<1>1. PromotionInv => PromotedTreeIsTheClone
  <2> SUFFICES ASSUME PromotionInv, pc = "promoted", ~late, given = captured,
                      NEW p \in Paths \ Ignored
               PROVE  At(target, p) = (IF p \in Delta THEN At(clone, p) ELSE At(given, p))
    BY DEF PromotedTreeIsTheClone
  <2>1. Visible(was) = given
    BY DEF PromotionInv, EditInv
  <2>2. At(Visible(was), p) = IF p \in Ignored THEN Absent ELSE At(was, p)
    BY WithoutIs DEF Visible
  <2>3. At(was, p) = At(given, p)
    BY <2>1, <2>2
  <2>4. p \in DOMAIN given => At(was, p) = given[p]
    BY <2>3 DEF At
  <2> QED BY <2>3, <2>4 DEF PromotionInv, WholeInv, OnlyTheDeltaIsTouched
<1> QED BY <1>1, PromotionInvariant, PTL
=============================================================================
