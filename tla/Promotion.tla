------------------------------ MODULE Promotion ------------------------------
(***************************************************************************)
(* One coder attempt seen from the file system (coder_sandbox.py): the     *)
(* target is captured and cloned, the coder does what it likes in the      *)
(* clone, and what it changed is promoted to the target as a patch.        *)
(*                                                                         *)
(* A tree maps paths to entries; a directory is there when something is    *)
(* under it.  Others may edit the target between any two steps of the      *)
(* program, but not inside `git apply`.  The clone is the coder's alone    *)
(* and at rest once the coder is done.                                     *)
(***************************************************************************)
EXTENDS Sequences, SequencesExt, Functions

CONSTANTS
  Paths,       \* sequences of names
  Given,       \* entries of the target before the run
  Foreign,     \* entries others may write to it
  Written,     \* entries the coder may leave
  Ignored,     \* paths .gitignore matches
  Normalized,  \* paths whose checkout differs from their blob (eol=crlf)
  Outside,     \* the entry a link out of the clone leads to
  MayStop,     \* BOOLEAN: git apply can be ended by its timeout or a signal
  MaxEdits     \* bound: edits of the target by others

Modes == {"100644", "100755", "120000"}
Texts == {"a", "b", "long"}
Merged == "merged"   \* what git makes of two edits of one file
Entries == [mode : Modes \cup {"special"}, text : Texts]

ASSUME PromotionAssumption ==
  /\ Given \cup Foreign \subseteq [mode : Modes, text : Texts]
  /\ Written \subseteq Entries /\ Outside \in Entries
  /\ Ignored \subseteq Paths /\ Normalized \subseteq Paths
  /\ MayStop \in BOOLEAN /\ MaxEdits \in Nat

VARIABLES
  pc,
  target,      \* the target's working tree, ignored files included
  captured,    \* target_state of the CoderSandbox
  given,       \* pristine_raw_snapshot: the clone as the coder got it
  clone,       \* the clone's working tree
  rules,       \* paths .gitignore matches in the clone
  damage,      \* what the coder did to the clone's metadata
  index,       \* promote.index
  was,         \* history: the target as others left it
  late,        \* history: edited since the check before the patch
  edits        \* bound

promotionVars == <<pc, target, captured, given, clone, rules, damage, index,
                   was, late, edits>>
sandbox == <<captured, given>>
coder == <<clone, rules, damage>>
others == <<was, late, edits>>

-----------------------------------------------------------------------------
(* Trees.                                                                  *)

Under(p, q) == IsStrictPrefix(q, p)

PrefixFree(D) == \A p, q \in D : ~Under(p, q)

TreesOf(E) == UNION {[D -> E] : D \in {D \in SUBSET Paths : PrefixFree(D)}}

Absent == [mode |-> "absent"]
At(tree, p) == IF p \in DOMAIN tree THEN tree[p] ELSE Absent

Without(tree, D) == Restrict(tree, DOMAIN tree \ D)

(* What Git sees of the target: everything that is not ignored.            *)
Visible(tree) == Without(tree, Ignored)

(* Its Git directory, HEAD, config or attributes; a submodule reference.   *)
Damages == {"metadata", "gitlink"}

Init ==
  /\ pc = "capture"
  /\ target \in TreesOf(Given) /\ was = target
  /\ captured = <<>> /\ given = <<>> /\ clone = <<>> /\ rules = Ignored
  /\ damage = {} /\ index = <<>>
  /\ late = FALSE /\ edits = 0

Go(to) == pc' = to

-----------------------------------------------------------------------------
(* prepare_coder_sandbox.                                                  *)

Capture ==
  /\ pc = "capture"
  /\ \/ Go("seed") /\ captured' = Visible(target)
     \/ Go("blocked") /\ UNCHANGED captured
  /\ UNCHANGED <<target, given, coder, index, others>>

(* Clone, read-tree, add, diff, apply, commit, and the raw snapshot.       *)
Seed ==
  /\ pc = "seed"
  /\ \/ Go("coder") /\ given' = Visible(target) /\ clone' = Visible(target)
     \/ Go("blocked") /\ UNCHANGED <<given, clone>>
  /\ UNCHANGED <<target, captured, rules, damage, index, others>>

(* The coder's run; only a successful one gets this far.                   *)
Coder ==
  /\ pc = "coder"
  /\ clone' \in TreesOf(Written)
  /\ rules' \in {Ignored, {}}
  /\ damage' \in {{}} \cup {{d} : d \in Damages}
  /\ Go("verify")
  /\ UNCHANGED <<target, sandbox, index, others>>

-----------------------------------------------------------------------------
(* promote_coder_changes.                                                  *)

VerifyCloneOnly ==  \* mutation
  /\ pc = "verify" /\ damage = {}
  /\ Go("build") /\ late' = FALSE
  /\ UNCHANGED <<target, sandbox, coder, index, was, edits>>

(* The clone's Git directory, HEAD and integrity files are as they were,   *)
(* and the target is what was captured before.                             *)
Verify ==
  /\ pc = "verify" /\ damage \subseteq {"gitlink"} /\ Visible(target) = captured
  /\ Go("build") /\ late' = FALSE
  /\ UNCHANGED <<target, sandbox, coder, index, was, edits>>

(* The baseline commit, through the clean filter.                          *)
Committed ==
  [p \in DOMAIN given |->
     [mode |-> given[p].mode,
      blob |-> <<IF p \in Normalized THEN "clean" ELSE "raw", given[p].text>>]]

Listed ==  \* mutation
  DOMAIN given \cup {p \in DOMAIN clone : clone[p].mode # "special"}

(* ls-files --cached --others --exclude-standard.                          *)
Candidates ==
  DOMAIN given \cup {p \in DOMAIN clone \ rules : clone[p].mode # "special"}

Link(p) == p \in DOMAIN clone /\ clone[p].mode = "120000"

NoAncestorCheck(p) == FALSE  \* mutation

HasSymlinkedAncestor(p) == \E q \in Paths : Under(p, q) /\ Link(q)

(* lstat, which follows a link in the middle of a path.                    *)
ClassifyEntry(p) ==
  IF \E q \in Paths : Under(p, q) /\ Link(q) THEN Outside ELSE At(clone, p)

Size(text) == IF text = "long" THEN 2 ELSE 1

UnchangedMetadata(p) ==  \* mutation
  /\ p \in DOMAIN given
  /\ given[p].mode = clone[p].mode
  /\ Size(given[p].text) = Size(clone[p].text)

(* Mode and size first; the fingerprint only when they agree.              *)
Unchanged(p) ==
  /\ p \in DOMAIN given
  /\ given[p].mode = ClassifyEntry(p).mode
  /\ Size(given[p].text) = Size(ClassifyEntry(p).text)
  /\ given[p].text = ClassifyEntry(p).text

AnyType(p) == TRUE  \* mutation

Supported(p) == ClassifyEntry(p).mode \in Modes \cup {"absent"}

Removed ==
  {p \in Candidates : HasSymlinkedAncestor(p) \/ ClassifyEntry(p) = Absent}

Changed == {p \in Candidates \ Removed : ~Unchanged(p)}

(* --force-remove, then --add --index-info, which replaces what a new      *)
(* entry collides with; blobs are hashed without filters.                  *)
PromotedIndex ==
  LET kept == Without(Committed, Removed)
      left == {p \in DOMAIN kept : \A q \in Changed : ~Under(p, q) /\ ~Under(q, p)}
  IN [p \in left \cup Changed |->
        IF p \in Changed
        THEN [mode |-> ClassifyEntry(p).mode, blob |-> <<"raw", ClassifyEntry(p).text>>]
        ELSE kept[p]]

(* git diff --cached of the baseline and promote.index.                    *)
Patch == {p \in Paths : At(Committed, p) # At(index, p)}

BuildPatch ==
  /\ pc = "build" /\ damage = {}
  /\ \A p \in Candidates : HasSymlinkedAncestor(p) \/ Supported(p)
  /\ index' = PromotedIndex
  /\ Go("apply")
  /\ UNCHANGED <<target, sandbox, coder, others>>

(* A check that fails, a git child that fails, a deadline.                 *)
Refuse ==
  /\ pc \in {"verify", "build"}
  /\ Go("blocked")
  /\ UNCHANGED <<target, sandbox, coder, index, others>>

NothingToApply ==
  /\ pc = "apply" /\ Patch = {}
  /\ Go("promoted")
  /\ UNCHANGED <<target, sandbox, coder, index, others>>

-----------------------------------------------------------------------------
(* git apply: first every path is checked, then files are unlinked, then   *)
(* files are written.                                                      *)

Deletions == Patch \cap DOMAIN Committed
Creations == Patch \cap DOMAIN index

(* A file that was edited elsewhere takes the hunks all the same, if it is *)
(* lucky.                                                                  *)
Mergeable(p) ==
  /\ p \in Creations \cap DOMAIN target /\ At(target, p) # given[p]
  /\ "120000" \notin {given[p].mode, target[p].mode, index[p].mode}

(* A directory in the place of a new file passes; so does a file that is   *)
(* in the place of one of its directories, unless it is a link.            *)
Applicable ==
  /\ \A p \in Deletions : At(target, p) = given[p] \/ Mergeable(p)
  /\ \A p \in Creations \ Deletions :
       /\ p \notin DOMAIN target
       /\ \A q \in DOMAIN target \ Deletions :
            Under(p, q) => target[q].mode # "120000"

ApplyChecks ==
  /\ pc = "apply" /\ Patch # {}
  /\ \/ /\ Applicable /\ Go("delete")
        /\ index' = [p \in DOMAIN index |->
                       IF p \in Deletions /\ Mergeable(p)
                       THEN [index[p] EXCEPT !.blob = <<"raw", Merged>>] ELSE index[p]]
     \/ Go("blocked") /\ UNCHANGED index
  /\ UNCHANGED <<target, sandbox, coder, others>>

ApplyDeletes ==
  /\ pc = "delete"
  /\ target' = Without(target, Deletions)
  /\ Go("create")
  /\ UNCHANGED <<sandbox, coder, index, others>>

InTheWay(p) == \E q \in DOMAIN target : Under(p, q) \/ Under(q, p)

Write(D) ==
  target' = [p \in DOMAIN target \cup D |->
               IF p \in D THEN [mode |-> index[p].mode, text |-> index[p].blob[2]]
               ELSE target[p]]

ApplyCreates ==
  /\ pc = "create" /\ \A p \in Creations : ~InTheWay(p)
  /\ Write(Creations)
  /\ Go("promoted")
  /\ UNCHANGED <<sandbox, coder, index, others>>

(* Something is in the way of a new file: git gives up, after writing      *)
(* those before it.  The names are arbitrary, and so is their order.       *)
ApplyCollides ==
  /\ pc = "create" /\ \E p \in Creations : InTheWay(p)
  /\ \E D \in SUBSET {p \in Creations : ~InTheWay(p)} : Write(D)
  /\ Go("blocked")
  /\ UNCHANGED <<sandbox, coder, index, others>>

(* A timeout or a signal ends git when a part has been done.               *)
ApplyStops ==
  /\ MayStop
  /\ \/ /\ pc = "delete"
        /\ \E D \in SUBSET Deletions : target' = Without(target, D)
     \/ /\ pc = "create"
        /\ \E D \in SUBSET {p \in Creations : ~InTheWay(p)} : Write(D)
  /\ Go("blocked")
  /\ UNCHANGED <<sandbox, coder, index, others>>

-----------------------------------------------------------------------------
(* Somebody else writes or removes a file of the target.                   *)
EditTarget ==
  /\ edits < MaxEdits /\ pc \notin {"delete", "create", "promoted", "blocked"}
  /\ \E p \in Paths :
       \/ /\ p \in DOMAIN target
          /\ target' = Without(target, {p})
       \/ \E e \in Foreign :
            /\ \A q \in DOMAIN target : ~Under(p, q) /\ ~Under(q, p)
            /\ target' = [q \in DOMAIN target \cup {p} |-> IF q = p THEN e ELSE target[q]]
  /\ was' = target' /\ late' = TRUE /\ edits' = edits + 1
  /\ UNCHANGED <<pc, sandbox, coder, index>>

Done == pc \in {"promoted", "blocked"} /\ UNCHANGED promotionVars

Next ==
  \/ Capture \/ Seed \/ Coder \/ Verify \/ BuildPatch \/ Refuse \/ NothingToApply
  \/ ApplyChecks \/ ApplyDeletes \/ ApplyCreates \/ ApplyCollides \/ ApplyStops
  \/ EditTarget \/ Done

Spec == Init /\ [][Next]_promotionVars

-----------------------------------------------------------------------------
Points == {"capture", "seed", "coder", "verify", "build", "apply", "delete", "create",
           "promoted", "blocked"}

IsTree(tree) == PrefixFree(DOMAIN tree) /\ DOMAIN tree \subseteq Paths

(* Every tree is one, and the index has nothing a Git tree cannot hold.    *)
PromotionTypeOK ==
  /\ pc \in Points
  /\ \A tree \in {target, captured, given, clone, index, was} : IsTree(tree)
  /\ \A p \in DOMAIN target : target[p].mode \in Modes
  /\ \A p \in DOMAIN index : index[p].mode \in Modes
  /\ rules \in {Ignored, {}} /\ damage \subseteq Damages
  /\ late \in BOOLEAN /\ edits \in 0..MaxEdits

(* What the coder did to the paths Git would see in the clone.             *)
Delta ==
  {p \in Paths : /\ At(given, p) # At(clone, p)
                 /\ (p \in DOMAIN given \/ (p \notin rules /\ clone[p].mode \in Modes))}

(* The patch has the paths the coder changed and no other: not one it left *)
(* alone, whatever the checkout made of it, and not one read through a link*)
(* the coder planted.                                                      *)
PatchIsTheDelta == pc = "apply" => Patch = Delta

(* Every path the coder did not change stays as the others left it, ignored*)
(* files and later edits included, also when the promotion fails half way. *)
OnlyTheDeltaIsTouched ==
  \A p \in Paths : At(target, p) # At(was, p) => p \in Delta

(* A promotion is whole: every path of the delta is as the coder left it,  *)
(* or, where somebody edited the same file, has both changes.              *)
PromotedIsWhole ==
  pc = "promoted" => \A p \in Delta :
    \/ At(target, p) = At(clone, p) /\ At(was, p) = At(given, p)
    \/ At(target, p).mode # "absent" /\ target[p].text = Merged

(* Unless somebody edits the target after the check, what the reviewer will*)
(* see is the tree the coder worked on and left, if the clone was made of  *)
(* the captured tree.                                                      *)
PromotedTreeIsTheClone ==
  pc = "promoted" /\ ~late /\ given = captured =>
    \A p \in Paths \ Ignored :
      At(target, p) = (IF p \in Delta THEN At(clone, p) ELSE At(given, p))

-----------------------------------------------------------------------------
(* A statement of the documents the code does not keep.                    *)

(* README, exit codes: partial changes of a failed attempt remain confined *)
(* to the clone.                                                           *)
BlockedLeavesTheTarget == pc = "blocked" => target = was
=============================================================================
