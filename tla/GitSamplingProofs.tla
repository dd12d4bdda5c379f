-------------------------- MODULE GitSamplingProofs --------------------------
(***************************************************************************)
(* What two checks of a moving target say about it, for any set of paths   *)
(* and any number of edits and failures: that agreement frames the time    *)
(* between them, that UNSAFE and INDETERMINATE have a cause, and that one  *)
(* edit leaves no mixture to be accepted.                                  *)
(*                                                                         *)
(* Nothing is put back, so every part of the target has a rank that only   *)
(* grows.  What a check recorded of a part is still so, or is gone for good*)
(* and can never be recorded again.                                        *)
(***************************************************************************)
EXTENDS GitSampling, FiniteSetTheorems, TLAPS

-----------------------------------------------------------------------------
(* The target.                                                             *)

Fields == {"branch", "head", "status", "index", "tracked", "untracked"}
Contents == [kind : {"missing", "regular", "other"}, content : Nat]
Worlds ==
  [branch : Nat \ {0}, detached : BOOLEAN, head : Nat \ {0}, tree : [Paths -> Nat],
   index : [Paths -> Nat], file : [Paths -> Contents]]

(* The order in which the contents of a path can follow each other: as it  *)
(* was found, missing, written by the second edit or a later one.          *)
Rank(n) == IF n = 0 THEN 1 ELSE IF n = 1 THEN 0 ELSE n

(* An index entry is a content the file has or had.                        *)
WorldInv ==
  /\ edits \in Nat /\ world \in Worlds
  /\ world.branch <= edits + 1 /\ world.head <= edits + 1
  /\ \A p \in Paths : /\ world.file[p].content <= edits + 1
                      /\ world.file[p].kind = "missing" <=> world.file[p].content = 0
                      /\ Rank(world.index[p]) <= Rank(world.file[p].content)

(* A file is still what it was, or has become something later.             *)
Since(file, was) == file = was \/ Rank(file.content) > Rank(was.content)

(* Edits make the target later, in some part.                              *)
Later(v, w) ==
  /\ v.head >= w.head
  /\ v.branch > w.branch \/ (v.branch = w.branch /\ v.detached = w.detached)
  /\ \A p \in Paths : /\ Rank(w.index[p]) <= Rank(v.index[p])
                      /\ Since(v.file[p], w.file[p])

Moved(v, w) ==
  \/ v.head > w.head \/ v.branch > w.branch
  \/ \E p \in Paths : \/ Rank(v.index[p]) > Rank(w.index[p])
                      \/ Rank(v.file[p].content) > Rank(w.file[p].content)

-----------------------------------------------------------------------------
(* The sample.                                                             *)

Reading == at \in {"type", "content", "lstat"}
Seen(k) == at # "between" /\ (at = "first" => probe > k)
SeenAgain(k) == at = "judge" \/ (at = "again" /\ probe > k)
EntryRecords == [path : Paths, entry : Contents]
ReadPaths == {x.path : x \in ToSet(entries)}

SampleType ==
  /\ at \in {"between", "first", "again", "judge", "read"} \/ Reading
  /\ check \in 0..2 /\ pass \in 1..2 /\ probe \in 1..6
  /\ at \notin {"first", "again", "between"} => probe = 1
  /\ first = [k \in Fields |-> first[k]] /\ again = [k \in Fields |-> again[k]]
  /\ pending \subseteq Paths /\ stable \in BOOLEAN
  /\ entries \in Seq(EntryRecords)
  /\ Reading => reading \in [path : Paths, before : Contents, entry : Contents]
  /\ at = "first" => entries = <<>> /\ stable /\ pending = {}
  /\ at = "read" => pending # {}
  /\ at \in {"again", "judge"} => pending = {}

(* What the first round of probes saw is not later than the target.        *)
ProbedInv ==
  /\ Seen(1) => /\ first.branch \in Nat
                /\ \/ first.branch = 0 \/ world.branch > first.branch
                   \/ world.branch = first.branch /\ ~world.detached
  /\ Seen(2) => first.head \in Nat \ {0} /\ first.head <= world.head
  /\ Seen(4) => /\ first.index \in [Paths -> Nat]
                /\ \A p \in Paths : Rank(first.index[p]) <= Rank(world.index[p])
  /\ Seen(5) => /\ first.tracked \subseteq Paths
                /\ \A p \in Paths : \/ p \in first.tracked <=> first.index[p] # 0
                                    \/ Rank(first.index[p]) < Rank(world.index[p])
  /\ Seen(6) => /\ first.untracked \subseteq Paths
                /\ \A p \in first.untracked : \/ first.index[p] = 0
                                              \/ Rank(first.index[p]) < Rank(world.index[p])

(* Nor is what was read, while the sample is stable.                       *)
ReadInv ==
  /\ at \notin {"between", "first"} =>
       ReadPaths \cup pending \cup (IF Reading THEN {reading.path} ELSE {})
         = first.tracked \cup first.untracked
  /\ stable => \A x \in ToSet(entries) :
       x.entry.kind # "missing" /\ Since(world.file[x.path], x.entry)
  /\ Reading => Since(world.file[reading.path], reading.before)
  /\ at \in {"content", "lstat"} =>
       \/ reading.entry = reading.before
       \/ Rank(world.file[reading.path].content) > Rank(reading.before.content)

Sample == GitState(first, Digest(entries))

-----------------------------------------------------------------------------
(* A recorded state and the target.                                        *)

(* The parts that have a rank are what probes and reads can give.          *)
Recordable(s) ==
  /\ s = [branch |-> s.branch, head |-> s.head, fingerprint |-> s.fingerprint]
  /\ s.branch \in Nat /\ s.head \in Nat /\ s.fingerprint.index \in [Paths -> Nat]
  /\ s.fingerprint.paths \subseteq EntryRecords

HeadGone(s, w) == w.head > s.head
BranchGone(s, w) == s.branch # 0 /\ w.branch > s.branch
IndexGone(s, w, p) == Rank(w.index[p]) > Rank(s.fingerprint.index[p])
FileGone(x, w) == Rank(w.file[x.path].content) > Rank(x.entry.content)
NewGone(s, w, p) ==
  /\ s.fingerprint.index[p] = 0 /\ p \notin s.fingerprint.tracked \cup s.fingerprint.untracked
  /\ Rank(w.file[p].content) > 1

RefGone(s, w) == HeadGone(s, w) \/ BranchGone(s, w)
Gone(s, w) ==
  \/ RefGone(s, w)
  \/ \E p \in Paths : IndexGone(s, w, p) \/ NewGone(s, w, p)
  \/ \E x \in s.fingerprint.paths : FileGone(x, w)

(* All but the status, which compares with the tree of HEAD as well.       *)
Matched(s, w) ==
  LET now == StateOf(w)
  IN /\ s.branch = now.branch /\ s.head = now.head
     /\ s.fingerprint = [now.fingerprint EXCEPT !.status = s.fingerprint.status]

(* The second status was taken after all the rest was seen first.          *)
StatusInv ==
  SeenAgain(3) /\ stable /\ first.branch # 0 =>
    again.status = Raw(world).status \/ Gone(Sample, world)

-----------------------------------------------------------------------------
(* Two checks.                                                             *)

(* What is gone shows in the second sample wherever it was looked at.      *)
HeadShown(s) == HeadGone(s, world) /\ (Seen(2) => first.head > s.head)
BranchShown(s) ==
  BranchGone(s, world) /\ (Seen(1) => first.branch = 0 \/ first.branch > s.branch)
IndexShown(s, p) ==
  IndexGone(s, world, p) /\ (Seen(4) => Rank(first.index[p]) > Rank(s.fingerprint.index[p]))
NewShown(s, p) ==
  /\ NewGone(s, world, p)
  /\ Seen(6) => \/ p \in first.untracked \/ first.index[p] # 0
                \/ Rank(world.index[p]) > 1 /\ (SeenAgain(4) => again.index[p] # 0)
FileShown(x) ==
  /\ FileGone(x, world)
  /\ Reading /\ reading.path = x.path => Rank(reading.before.content) > Rank(x.entry.content)
  /\ stable => \A y \in ToSet(entries) :
       y.path = x.path => Rank(y.entry.content) > Rank(x.entry.content)

Shown(s) ==
  \/ HeadShown(s) \/ BranchShown(s)
  \/ \E p \in Paths : IndexShown(s, p) \/ NewShown(s, p)
  \/ \E x \in s.fingerprint.paths : FileShown(x)

Made == IF at = "between" THEN check ELSE check - 1

RecordType ==
  /\ check = 0 => at = "between"
  /\ Made = 0 => taken = <<>>
  /\ Made = 1 => taken = <<taken[1]>>
  /\ Made = 2 => taken = <<taken[1], taken[2]>>
  /\ check = 2 => taken[1].status = "SAFE"
  /\ taken # <<>> /\ taken[1].status = "SAFE" =>
       Recordable(taken[1].state) /\ taken[1].state.branch # 0 /\ taken[1].state.head # 0

Still(s) == \A g \in gap : g = s
RefStill(s) == \A g \in gap : ~Drifted(g, s)

GapInv ==
  /\ taken # <<>> /\ taken[1].status = "SAFE" =>
       LET s == taken[1].state
       IN /\ at = "between" /\ check = 1 =>
               /\ RefGone(s, world) \/ ~Drifted(StateOf(world), s)
               /\ Gone(s, world) \/ StateOf(world) = s
               /\ RefStill(s) \/ RefGone(s, world)
               /\ Still(s) \/ Gone(s, world)
          /\ at # "between" =>
               /\ RefStill(s) \/ HeadShown(s) \/ BranchShown(s)
               /\ Still(s) \/ Shown(s)
  /\ AgreementFramesTheGap

-----------------------------------------------------------------------------
(* Passes without an edit, a failure or a missing file.                    *)

Clean == <<check, pass>> \notin spoiled

ReadNow ==
  /\ Reading => reading.before = world.file[reading.path]
  /\ at \in {"content", "lstat"} => reading.entry = world.file[reading.path]
  /\ \A x \in ToSet(entries) : x.entry = world.file[x.path]

CleanInv ==
  at # "between" /\ Clean =>
    /\ stable
    /\ \A k \in 1..6 : Seen(k) => first[Probes[k]] = Raw(world)[Probes[k]]
    /\ \A k \in 1..6 : SeenAgain(k) => again[Probes[k]] = Raw(world)[Probes[k]]
    /\ ReadNow

BlameInv ==
  /\ IsFiniteSet(gap)
  /\ at # "between" /\ pass = 2 => <<check, 1>> \in spoiled
  /\ spoiled = {} /\ taken # <<>> /\ (check = 1 \/ at # "between") =>
       taken[1].state \in gap /\ StateOf(world) \in gap
  /\ UnsafeMeansEdited

-----------------------------------------------------------------------------
(* Passes with one edit.                                                   *)

(* Every path is read once.                                                *)
OnceInv ==
  /\ pending \cap ReadPaths = {}
  /\ Reading => reading.path \notin pending \cup ReadPaths

Tidy(w) == \A p \in Paths : w.file[p].kind = "missing" <=> w.file[p].content = 0

(* Somebody switched the branch, and nothing else.                         *)
ButBranch(s, t) == s = [t EXCEPT !.branch = s.branch]

Ahead(v, w) ==
  \/ v.head > w.head
  \/ \E p \in Paths : \/ Rank(v.index[p]) > Rank(w.index[p])
                      \/ Rank(v.file[p].content) > Rank(w.file[p].content)

AgainNow == \A k \in 1..6 : SeenAgain(k) => again[Probes[k]] = Raw(world)[Probes[k]]

Undisturbed ==
  /\ \A g \in seen : ButBranch(g, StateOf(world))
  /\ Seen(1) => \E g \in seen : g.branch = first.branch
  /\ \A k \in 2..6 : Seen(k) => first[Probes[k]] = Raw(world)[Probes[k]]
  /\ ReadNow

(* The target was w until it was edited: in the first round, between the   *)
(* rounds or in the second one.                                            *)
Early == AgainNow /\ ReadNow
Midway(w) ==
  /\ at # "first" /\ first = Raw(w) /\ AgainNow
  /\ \E p : \A q \in Paths \ {p} : world.file[q] = w.file[q]
  /\ stable => \E file \in {w.file, world.file} :
                 \A x \in ToSet(entries) : x.entry = file[x.path]
LateEdit(w) == at \in {"again", "judge"} /\ Sample = StateOf(w)

Disturbed(w) ==
  /\ seen = {StateOf(w), StateOf(world)} /\ Tidy(w)
  /\ Later(world, w) /\ Ahead(world, w)
  /\ Early \/ Midway(w) \/ LateEdit(w)

Many == \E a, b, c \in seen : a # b /\ b # c /\ a # c

RealInv ==
  at # "between" => /\ StateOf(world) \in seen /\ IsFiniteSet(seen)
                    /\ Undisturbed \/ Many \/ \E w \in Worlds : Disturbed(w)
-----------------------------------------------------------------------------
(* Data.                                                                   *)

(* The six probes.                                                         *)
LEMMA ProbesAre ==
  /\ Len(Probes) = 6 /\ ToSet(Probes) = Fields
  /\ Probes[1] = "branch" /\ Probes[2] = "head" /\ Probes[3] = "status"
  /\ Probes[4] = "index" /\ Probes[5] = "tracked" /\ Probes[6] = "untracked"
<1>1. /\ Len(Probes) = 6 /\ DOMAIN Probes = 1..6
      /\ Probes[1] = "branch" /\ Probes[2] = "head" /\ Probes[3] = "status"
      /\ Probes[4] = "index" /\ Probes[5] = "tracked" /\ Probes[6] = "untracked"
  BY DEF Probes
<1>2. ToSet(Probes) = {Probes[i] : i \in {1, 2, 3, 4, 5, 6}}
  BY <1>1 DEF ToSet
<1> QED BY <1>1, <1>2 DEF Fields

(* One more entry read.                                                    *)
LEMMA ToSetAppend ==
  ASSUME NEW S, NEW s \in Seq(S), NEW x \in S
  PROVE  Append(s, x) \in Seq(S) /\ ToSet(Append(s, x)) = ToSet(s) \cup {x}
<1>1. /\ Append(s, x) \in Seq(S) /\ Len(s) \in Nat
      /\ DOMAIN s = 1..Len(s) /\ DOMAIN Append(s, x) = 1..Len(s) + 1
      /\ \A i \in 1..Len(s) : Append(s, x)[i] = s[i]
      /\ Append(s, x)[Len(s) + 1] = x
  OBVIOUS
<1>2. \A e : e \in ToSet(Append(s, x)) <=> \E i \in 1..Len(s) + 1 : Append(s, x)[i] = e
  BY <1>1 DEF ToSet
<1>3. \A e : e \in ToSet(s) <=> \E i \in 1..Len(s) : s[i] = e
  BY <1>1 DEF ToSet
<1>4. \A i \in 1..Len(s) + 1 : i \in 1..Len(s) \/ i = Len(s) + 1
  BY <1>1
<1>5. \A i \in 1..Len(s) : i \in 1..Len(s) + 1
  BY <1>1
<1>6. Len(s) + 1 \in 1..Len(s) + 1
  BY <1>1
<1>7. ASSUME NEW e PROVE e \in ToSet(Append(s, x)) <=> e \in ToSet(s) \/ e = x
  BY <1>1, <1>2, <1>3, <1>4, <1>5, <1>6
<1> QED BY <1>1, <1>7

(* Entries are entry records.                                              *)
LEMMA EntriesAre ==
  ASSUME NEW S, NEW s \in Seq(S) PROVE \A x \in ToSet(s) : x \in S
BY DEF ToSet

(* Ranks tell contents apart.                                              *)
LEMMA RankIs ==
  ASSUME NEW a \in Nat, NEW b \in Nat
  PROVE  /\ Rank(a) \in Nat /\ (Rank(a) = Rank(b) => a = b)
         /\ Rank(0) = 1 /\ (Rank(a) > 1 => a # 0)
         /\ \A n \in Nat : a <= n + 1 => Rank(n + 2) > Rank(a)
BY DEF Rank

(* Later than later is later.                                              *)
LEMMA SinceSince ==
  ASSUME NEW f \in Contents, NEW g \in Contents, NEW h \in Contents,
         Since(h, g), Since(g, f)
  PROVE  Since(h, f)
<1>1. Rank(f.content) \in Nat /\ Rank(g.content) \in Nat /\ Rank(h.content) \in Nat
  BY RankIs DEF Contents
<1> QED BY <1>1 DEF Since

(* The later file, and what is later than that.                            *)
LEMMA LaterSince ==
  ASSUME NEW f \in Contents, NEW g \in Contents, NEW h \in Contents,
         Since(h, g), Rank(g.content) > Rank(f.content)
  PROVE  Rank(h.content) > Rank(f.content)
<1>1. Rank(f.content) \in Nat /\ Rank(g.content) \in Nat /\ Rank(h.content) \in Nat
  BY RankIs DEF Contents
<1> QED BY <1>1 DEF Since

-----------------------------------------------------------------------------
(* Edits.                                                                  *)

Edits == Write \/ Stage \/ Commit \/ Switch

(* What an edit writes is later than all there was.                        *)
LEMMA EditStep ==
  ASSUME WorldInv, Edits
  PROVE  /\ WorldInv'
         /\ Later(world', world) /\ Moved(world', world)
         /\ UNCHANGED <<failures, at, check, pass, sample, taken>>
<1>1. UNCHANGED <<failures, at, check, pass, sample, taken>> /\ edits' = edits + 1
  BY DEF Edits, Write, Stage, Commit, Switch, Edit
<1> USE DEF WorldInv, Worlds, Edit, Fresh
<1>0. /\ \A p \in Paths : /\ world.file[p] \in Contents /\ world.file[p].content \in Nat
                          /\ world.index[p] \in Nat
      /\ \A p \in Paths : /\ Rank(world.file[p].content) \in Nat
                          /\ Rank(world.index[p]) \in Nat
  BY RankIs DEF Contents
<1>6. edits' \in Nat
  BY <1>1
<1>2. CASE Write
  <2>1. PICK p \in Paths, f \in {Regular(Fresh), Special(Fresh), Missing} :
          /\ f = Missing => world.file[p] = Regular(1)
          /\ world' = [world EXCEPT !.file[p] = f]
    BY <1>2 DEF Write
  <2>2. /\ f \in Contents /\ f.content <= edits + 2
        /\ f.kind = "missing" <=> f.content = 0
    BY DEF Contents, Regular, Special, Missing
  <2>3. Rank(f.content) > Rank(world.file[p].content)
    <3>1. CASE f = Missing
      BY <2>1, <3>1 DEF Missing, Regular, Rank
    <3>2. CASE f # Missing
      <4>1. f.content = edits + 2
        BY <3>2 DEF Regular, Special
      <4> QED BY <1>0, <4>1, RankIs
    <3> QED BY <3>1, <3>2
  <2>4. /\ world' \in Worlds
        /\ world'.file = [world.file EXCEPT ![p] = f]
        /\ world'.index = world.index /\ world'.head = world.head
        /\ world'.branch = world.branch /\ world'.detached = world.detached
    BY <2>1, <2>2
  <2>5. \A q \in Paths : world'.file[q] = IF q = p THEN f ELSE world.file[q]
    BY <2>4
  <2>6. Rank(f.content) \in Nat
    BY <2>2, RankIs DEF Contents
  <2>7. WorldInv'
    BY <1>0, <1>1, <1>6, <2>2, <2>3, <2>4, <2>5, <2>6
  <2>8. Later(world', world) /\ Moved(world', world)
    BY <1>0, <2>3, <2>4, <2>5, <2>6 DEF Later, Moved, Since
  <2> QED BY <1>1, <2>7, <2>8
<1>3. CASE Stage
  <2>1. PICK p \in Paths :
          /\ world.index[p] # world.file[p].content
          /\ world' = [world EXCEPT !.index[p] = world.file[p].content]
    BY <1>3 DEF Stage
  <2>2. Rank(world.file[p].content) > Rank(world.index[p])
    BY <1>0, <2>1, RankIs
  <2>3. /\ world' \in Worlds
        /\ world'.index = [world.index EXCEPT ![p] = world.file[p].content]
        /\ world'.file = world.file /\ world'.head = world.head
        /\ world'.branch = world.branch /\ world'.detached = world.detached
    BY <1>0, <2>1
  <2>4. \A q \in Paths :
          world'.index[q] = IF q = p THEN world.file[p].content ELSE world.index[q]
    BY <2>3
  <2>5. WorldInv'
    BY <1>0, <1>1, <1>6, <2>3, <2>4
  <2>6. Later(world', world) /\ Moved(world', world)
    BY <1>0, <2>2, <2>3, <2>4 DEF Later, Moved, Since
  <2> QED BY <1>1, <2>5, <2>6
<1>4. CASE Commit
  <2>1. world' = [world EXCEPT !.head = edits + 2, !.tree = world.index]
    BY <1>4 DEF Commit
  <2>2. /\ edits + 2 \in Nat \ {0} /\ edits + 2 > edits + 1
        /\ world.head \in Nat /\ world.branch \in Nat
    OBVIOUS
  <2>3. world' \in Worlds
    BY <2>1, <2>2
  <2>4. /\ world'.head = edits + 2
        /\ world'.file = world.file /\ world'.index = world.index
        /\ world'.branch = world.branch /\ world'.detached = world.detached
    BY <2>1
  <2>5. WorldInv'
    BY <1>0, <1>1, <1>6, <2>2, <2>3, <2>4
  <2> QED BY <1>0, <1>1, <2>2, <2>4, <2>5 DEF Later, Moved, Since
<1>5. CASE Switch
  <2>1. PICK d \in BOOLEAN, h \in {world.head, edits + 2} :
          world' = [world EXCEPT !.branch = edits + 2, !.detached = d, !.head = h]
    BY <1>5 DEF Switch
  <2>2. /\ edits + 2 \in Nat \ {0} /\ edits + 2 > edits + 1
        /\ world.head \in Nat \ {0} /\ world.branch \in Nat
    OBVIOUS
  <2>3. world' \in Worlds
    BY <2>1, <2>2
  <2>4. /\ world'.head \in {world.head, edits + 2}
        /\ world'.file = world.file /\ world'.index = world.index
        /\ world'.branch = edits + 2
    BY <2>1
  <2>5. WorldInv'
    BY <1>0, <1>1, <1>6, <2>2, <2>3, <2>4
  <2> QED BY <1>0, <1>1, <2>2, <2>4, <2>5 DEF Later, Moved, Since
<1> QED BY <1>2, <1>3, <1>4, <1>5 DEF Edits

(* The program changes nothing of the target; what others do leaves the    *)
(* program where it is.                                                    *)
LEMMA ProgramStays == ASSUME Program \/ Over PROVE UNCHANGED target
BY DEF Program, Over, StartCheck, FirstProbe, ProbeFails, Fails, GiveUp, Lstat, LookAtType,
   ReadContent, ReadFails, LstatAgain, ProbeAgain, Accept, Retry, Unstable, vars

(* So the target keeps its invariant.                                      *)
LEMMA WorldStep == ASSUME WorldInv, [Next]_vars PROVE WorldInv'
<1>1. CASE Edits
  BY <1>1, EditStep
<1>2. CASE Program \/ Over
  BY <1>2, ProgramStays DEF WorldInv, target
<1>3. CASE UNCHANGED vars
  BY <1>3 DEF WorldInv, vars, target
<1> QED BY <1>1, <1>2, <1>3 DEF Next, Edits

-----------------------------------------------------------------------------
(* The steps of a check.                                                   *)

(* A pass begins, a check ends.                                            *)
Begins == StartCheck \/ Retry
Ends ==
  /\ at # "between" /\ at' = "between" /\ UNCHANGED <<target, check, pass, sample, seen>>
  /\ \E status, state, role : Finish(status, state, role)

GivesUp == GiveUp /\ at # "between"

Looks ==
  /\ at = "type" /\ world.file[reading.path].kind # "other"
  /\ reading' = [reading EXCEPT !.entry = world.file[reading.path]]
  /\ at' = IF world.file[reading.path] = Missing THEN "lstat" ELSE "content"
  /\ UNCHANGED <<target, check, pass, probe, first, again, pending, entries, stable, taken,
                 seen, gap, spoiled>>

Reads ==
  /\ at = "content" /\ at' = "lstat"
  /\ \E f \in Contents :
       /\ reading' = [reading EXCEPT !.entry = f]
       /\ world.file[reading.path] = reading.entry => f = reading.entry
  /\ UNCHANGED <<target, check, pass, probe, first, again, pending, entries, stable, taken,
                 seen, gap, spoiled>>

(* These are all the steps there are.                                      *)
LEMMA StepsAre ==
  ASSUME WorldInv, SampleType, [Next]_vars
  PROVE  \/ Begins \/ FirstProbe \/ Lstat \/ Looks \/ Reads \/ LstatAgain \/ ProbeAgain
         \/ Accept \/ Unstable \/ GivesUp \/ Edits \/ UNCHANGED vars
<1>1. CASE ProbeFails \/ ReadFails
  BY <1>1 DEF ProbeFails, ReadFails, Fails, GivesUp
<1>2. CASE LookAtType
  BY <1>2 DEF LookAtType, GivesUp, Looks
<1>3. CASE ReadContent
  <2>1. CASE GiveUp
    BY <1>3, <2>1 DEF ReadContent, GivesUp
  <2>2. CASE ~GiveUp
    <3>1. /\ world.file[reading.path] \in Contents /\ reading.entry \in Contents
          /\ Torn \in Contents
      BY <1>3 DEF ReadContent, SampleType, Reading, WorldInv, Worlds, Torn, Regular, Contents
    <3>2. PICK f \in IF world.file[reading.path] = reading.entry THEN {world.file[reading.path]}
                     ELSE {reading.entry, Torn} \cup ({world.file[reading.path]} \ {Missing}) :
            reading' = [reading EXCEPT !.entry = f]
      BY <1>3, <2>2 DEF ReadContent
    <3>3. f \in Contents /\ (world.file[reading.path] = reading.entry => f = reading.entry)
      BY <3>1, <3>2
    <3>4. /\ at = "content" /\ at' = "lstat"
          /\ UNCHANGED <<target, check, pass, probe, first, again, pending, entries, stable,
                         taken, seen, gap, spoiled>>
      BY <1>3, <2>2 DEF ReadContent
    <3> QED BY <3>2, <3>3, <3>4 DEF Reads
  <2> QED BY <2>1, <2>2
<1>4. CASE Over
  BY <1>4 DEF Over
<1> QED BY <1>1, <1>2, <1>3, <1>4 DEF Next, Program, Begins, Edits

(* Three ways to end a check.                                              *)
LEMMA EndsAre ==
  ASSUME Accept \/ Unstable \/ GivesUp
  PROVE  Ends
BY DEF Accept, Unstable, GivesUp, GiveUp, Ends, Finish

(* A pass begins with nothing.                                             *)
LEMMA BeginsAre ==
  ASSUME Begins
  PROVE  /\ at' = "first" /\ probe' = 1 /\ entries' = <<>> /\ stable' = TRUE /\ pending' = {}
         /\ first' = Unprobed /\ again' = Unprobed /\ pass' \in 1..2
         /\ UNCHANGED <<target, taken, gap, spoiled>>
         /\ \/ at = "between" /\ check < 2 /\ check' = check + 1
            \/ at = "judge" /\ check' = check
BY DEF Begins, StartCheck, Retry, StartPass

(* One probe of the first round.                                           *)
LEMMA FirstProbeIs ==
  ASSUME SampleType, FirstProbe
  PROVE  /\ at = "first" /\ UNCHANGED <<target, check, pass, again, reading, entries, stable,
                                        taken, gap, spoiled>>
         /\ first' = [k \in Fields |-> first'[k]]
         /\ \A k \in Fields : first'[k] = IF k = Probes[probe] THEN Raw(world)[k] ELSE first[k]
         /\ probe < 6 => at' = "first" /\ probe' = probe + 1 /\ pending' = pending
         /\ probe = 6 => /\ probe' = 1 /\ pending' = first'.tracked \cup first'.untracked
                         /\ at' = IF pending' = {} THEN "again" ELSE "read"
<1>1. probe \in 1..6 /\ first = [k \in Fields |-> first[k]] /\ Len(Probes) = 6
  BY ProbesAre DEF SampleType
<1>2. first' = [first EXCEPT ![Probes[probe]] = Raw(world)[Probes[probe]]]
  BY DEF FirstProbe, Probing
<1>3. DOMAIN first' = Fields
  BY <1>1, <1>2
<1>4. first' = [k \in Fields |-> first'[k]]
  BY <1>1, <1>2
<1>5. \A k \in Fields : first'[k] = IF k = Probes[probe] THEN Raw(world)[k] ELSE first[k]
  BY <1>1, <1>2
<1>6. /\ at = "first" /\ UNCHANGED <<target, check, pass, again, reading, entries, stable,
                                     taken, gap, spoiled>>
      /\ probe < 6 => at' = "first" /\ probe' = probe + 1 /\ pending' = pending
      /\ probe = 6 => /\ probe' = 1 /\ pending' = first'.tracked \cup first'.untracked
                      /\ at' = IF pending' = {} THEN "again" ELSE "read"
  BY <1>1 DEF FirstProbe, Probing
<1> QED BY <1>4, <1>5, <1>6

(* How far the first round is, before and after.                           *)
LEMMA SeenIs ==
  ASSUME SampleType, FirstProbe
  PROVE  \A k \in 1..6 : /\ Seen(k) <=> k < probe
                         /\ Seen(k)' <=> k <= probe
                         /\ ~SeenAgain(k)'
<1>1. probe \in 1..6 /\ at = "first"
  BY FirstProbeIs DEF SampleType
<1>2. CASE probe < 6
  BY <1>1, <1>2, FirstProbeIs DEF Seen, SeenAgain
<1>3. CASE probe = 6
  BY <1>1, <1>3, FirstProbeIs DEF Seen, SeenAgain
<1> QED BY <1>1, <1>2, <1>3

(* What the first round has seen of the target as it is.                   *)
LEMMA FirstIs ==
  ASSUME SampleType, FirstProbe
  PROVE  \A k \in 1..6 : first'[Probes[k]] =
           IF k = probe THEN Raw(world)[Probes[k]] ELSE first[Probes[k]]
<1>1. probe \in 1..6 /\ \A k \in 1..6 : k \in {1, 2, 3, 4, 5, 6}
  BY DEF SampleType
<1>2. \A k \in 1..6 : Probes[k] \in Fields /\ (Probes[k] = Probes[probe] => k = probe)
  BY <1>1, ProbesAre DEF Fields
<1> QED BY <1>1, <1>2, FirstProbeIs

(* One probe of the second round.                                          *)
LEMMA ProbeAgainIs ==
  ASSUME SampleType, ProbeAgain
  PROVE  /\ at = "again" /\ UNCHANGED <<target, check, pass, first, pending, reading, entries,
                                        stable, taken, gap, spoiled>>
         /\ again' = [k \in Fields |-> again'[k]]
         /\ \A k \in Fields : again'[k] = IF k = Probes[probe] THEN Raw(world)[k] ELSE again[k]
         /\ probe < 6 => at' = "again" /\ probe' = probe + 1
         /\ probe = 6 => at' = "judge" /\ probe' = 1
<1>1. probe \in 1..6 /\ again = [k \in Fields |-> again[k]] /\ Len(Probes) = 6
  BY ProbesAre DEF SampleType
<1>2. again' = [again EXCEPT ![Probes[probe]] = Raw(world)[Probes[probe]]]
  BY DEF ProbeAgain, Probing
<1>4. again' = [k \in Fields |-> again'[k]]
  BY <1>1, <1>2
<1>5. \A k \in Fields : again'[k] = IF k = Probes[probe] THEN Raw(world)[k] ELSE again[k]
  BY <1>1, <1>2
<1>6. /\ at = "again" /\ UNCHANGED <<target, check, pass, first, pending, reading, entries,
                                     stable, taken, gap, spoiled>>
      /\ probe < 6 => at' = "again" /\ probe' = probe + 1
      /\ probe = 6 => at' = "judge" /\ probe' = 1
  BY <1>1 DEF ProbeAgain, Probing
<1> QED BY <1>4, <1>5, <1>6

(* How far the second round is, and what it has seen.                      *)
LEMMA AgainIs ==
  ASSUME SampleType, ProbeAgain
  PROVE  \A k \in 1..6 : /\ SeenAgain(k) <=> k < probe
                         /\ SeenAgain(k)' <=> k <= probe
                         /\ again'[Probes[k]] = IF k = probe THEN Raw(world)[Probes[k]]
                                                ELSE again[Probes[k]]
<1>1. probe \in 1..6 /\ at = "again" /\ \A k \in 1..6 : k \in {1, 2, 3, 4, 5, 6}
  BY ProbeAgainIs DEF SampleType
<1>2. \A k \in 1..6 : SeenAgain(k) <=> k < probe
  BY <1>1 DEF SeenAgain
<1>3. \A k \in 1..6 : SeenAgain(k)' <=> k <= probe
  <2>1. CASE probe < 6
    BY <1>1, <2>1, ProbeAgainIs DEF SeenAgain
  <2>2. CASE probe = 6
    BY <1>1, <2>2, ProbeAgainIs DEF SeenAgain
  <2> QED BY <1>1, <2>1, <2>2
<1>4. \A k \in 1..6 : Probes[k] \in Fields /\ (Probes[k] = Probes[probe] => k = probe)
  BY <1>1, ProbesAre DEF Fields
<1> QED BY <1>1, <1>2, <1>3, <1>4, ProbeAgainIs

(* What the probes print.                                                  *)
LEMMA RawIs ==
  /\ Raw(world)["branch"] = IF world.detached THEN 0 ELSE world.branch
  /\ Raw(world)["head"] = world.head /\ Raw(world)["index"] = world.index
  /\ Raw(world)["tracked"] = Tracked(world) /\ Raw(world)["untracked"] = Untracked(world)
  /\ Raw(world) = [k \in Fields |-> Raw(world)[k]]
BY DEF Raw, Fields

(* The types of a sample.                                                  *)
LEMMA TypeStep ==
  ASSUME WorldInv, SampleType, ProbedInv, [Next]_vars
  PROVE  SampleType'
<1>1. CASE Begins
  <2>1. first' = [k \in Fields |-> first'[k]] /\ again' = [k \in Fields |-> again'[k]]
    BY <1>1, BeginsAre, ProbesAre DEF Unprobed
  <2> QED BY <1>1, <2>1, BeginsAre DEF SampleType, Reading
<1>2. CASE FirstProbe
  <2>1. probe = 6 => pending' \subseteq Paths
    <3>1. SUFFICES ASSUME probe = 6 PROVE pending' \subseteq Paths
      OBVIOUS
    <3>2. first'["tracked"] = first["tracked"] /\ first'["untracked"] = Untracked(world)
      BY <1>2, <3>1, FirstProbeIs, ProbesAre, RawIs DEF Fields
    <3>3. first.tracked \subseteq Paths
      BY <1>2, <3>1, FirstProbeIs DEF ProbedInv, Seen
    <3> QED BY <1>2, <3>1, <3>2, <3>3, FirstProbeIs DEF Untracked
  <2>2. CASE probe < 6
    BY <1>2, <2>2, FirstProbeIs DEF SampleType, Reading
  <2>3. CASE probe = 6
    BY <1>2, <2>1, <2>3, FirstProbeIs DEF SampleType, Reading
  <2> QED BY <2>2, <2>3 DEF SampleType
<1>3. CASE Lstat
  <2>1. PICK p \in pending :
          /\ reading' = [path |-> p, before |-> LstatSignature(world, p), entry |-> Missing]
          /\ pending' = pending \ {p}
    BY <1>3 DEF Lstat
  <2>2. reading' \in [path : Paths, before : Contents, entry : Contents]
    BY <2>1 DEF SampleType, WorldInv, Worlds, LstatSignature, Missing, Contents
  <2> QED BY <1>3, <2>1, <2>2 DEF Lstat, SampleType, Reading
<1>4. CASE Looks
  <2>1. reading' \in [path : Paths, before : Contents, entry : Contents]
    BY <1>4 DEF Looks, SampleType, Reading, WorldInv, Worlds
  <2> QED BY <1>4, <2>1 DEF Looks, SampleType, Reading
<1>5. CASE Reads
  <2>1. reading' \in [path : Paths, before : Contents, entry : Contents]
    BY <1>5 DEF Reads, SampleType, Reading
  <2> QED BY <1>5, <2>1 DEF Reads, SampleType, Reading
<1>6. CASE LstatAgain
  <2>1. [path |-> reading.path, entry |-> reading.entry] \in EntryRecords
    BY <1>6 DEF LstatAgain, SampleType, Reading, EntryRecords
  <2>2. entries' \in Seq(EntryRecords)
    BY <1>6, <2>1, ToSetAppend DEF LstatAgain, SampleType
  <2>3. stable' \in BOOLEAN
    BY <1>6 DEF LstatAgain
  <2> QED BY <1>6, <2>2, <2>3 DEF LstatAgain, SampleType, Reading
<1>7. CASE ProbeAgain
  <2>1. CASE probe < 6
    BY <1>7, <2>1, ProbeAgainIs DEF SampleType, Reading
  <2>2. CASE probe = 6
    BY <1>7, <2>2, ProbeAgainIs DEF SampleType, Reading
  <2> QED BY <2>1, <2>2 DEF SampleType
<1>8. CASE Ends
  BY <1>8 DEF Ends, SampleType, Reading, sample
<1>9. CASE Edits \/ UNCHANGED vars
  BY <1>9, EditStep DEF SampleType, Reading, sample, vars
<1> QED BY <1>1, <1>2, <1>3, <1>4, <1>5, <1>6, <1>7, <1>8, <1>9, StepsAre, EndsAre

(* Steps between the two rounds look at paths and change no probe.         *)
LEMMA PathSteps ==
  ASSUME SampleType, Lstat \/ Looks \/ Reads \/ LstatAgain \/ ProbeAgain
  PROVE  /\ at \notin {"between", "first"} /\ at' \notin {"between", "first"}
         /\ UNCHANGED <<target, first, check, pass, taken, gap>>
<1>1. CASE Lstat \/ Looks \/ Reads \/ LstatAgain
  BY <1>1 DEF Lstat, Looks, Reads, LstatAgain
<1>2. CASE ProbeAgain
  BY <1>2, ProbeAgainIs DEF SampleType
<1> QED BY <1>1, <1>2

(* What was seen first is not later than the target.                       *)
LEMMA ProbedStep ==
  ASSUME WorldInv, SampleType, ProbedInv, [Next]_vars
  PROVE  ProbedInv'
<1>1. CASE Begins
  BY <1>1, BeginsAre DEF ProbedInv, Seen
<1>2. CASE FirstProbe
  <2>0. /\ world \in Worlds /\ world' = world /\ probe \in 1..6 /\ at = "first" /\ probe' # 0
        /\ \A p \in Paths : Rank(world.index[p]) \in Nat
    BY <1>2, FirstProbeIs, RankIs DEF WorldInv, Worlds, target, SampleType
  <2>1. \A k \in 1..6 : Seen(k)' <=> k <= probe
    BY <1>2, SeenIs
  <2>2. \A k \in 1..6 : Seen(k) <=> k < probe
    BY <1>2, SeenIs
  <2>3. /\ first'["branch"] = IF probe = 1 THEN Raw(world)["branch"] ELSE first["branch"]
        /\ first'["head"] = IF probe = 2 THEN Raw(world)["head"] ELSE first["head"]
        /\ first'["index"] = IF probe = 4 THEN Raw(world)["index"] ELSE first["index"]
        /\ first'["tracked"] = IF probe = 5 THEN Raw(world)["tracked"] ELSE first["tracked"]
        /\ first'["untracked"] = IF probe = 6 THEN Raw(world)["untracked"] ELSE first["untracked"]
    BY <1>2, <2>0, FirstProbeIs, ProbesAre DEF Fields
  <2>4. Seen(1)' => /\ first'.branch \in Nat
                    /\ \/ first'.branch = 0 \/ world.branch > first'.branch
                       \/ world.branch = first'.branch /\ ~world.detached
    BY <2>0, <2>1, <2>2, <2>3, RawIs DEF ProbedInv, Worlds
  <2>5. Seen(2)' => first'.head \in Nat \ {0} /\ first'.head <= world.head
    BY <2>0, <2>1, <2>2, <2>3, RawIs DEF ProbedInv, Worlds
  <2>6. Seen(4)' => /\ first'.index \in [Paths -> Nat]
                    /\ \A p \in Paths : Rank(first'.index[p]) <= Rank(world.index[p])
    BY <2>0, <2>1, <2>2, <2>3, RawIs DEF ProbedInv, Worlds
  <2>7. Seen(5)' => /\ first'.tracked \subseteq Paths
                    /\ \A p \in Paths : \/ p \in first'.tracked <=> first'.index[p] # 0
                                        \/ Rank(first'.index[p]) < Rank(world.index[p])
    <3>1. CASE probe = 5
      <4>1. first'.tracked = Tracked(world) /\ first'.index = first.index /\ Seen(4)
        BY <2>2, <2>3, <3>1, RawIs
      <4>2. \A p \in Paths :
              /\ first.index[p] \in Nat /\ world.index[p] \in Nat
              /\ Rank(first.index[p]) <= Rank(world.index[p])
        BY <2>0, <4>1 DEF ProbedInv, Worlds
      <4>3. \A p \in Paths : \/ first.index[p] = world.index[p]
                             \/ Rank(first.index[p]) < Rank(world.index[p])
        BY <4>2, RankIs
      <4> QED BY <4>1, <4>3 DEF Tracked
    <3>2. CASE probe # 5
      BY <2>0, <2>1, <2>2, <2>3, <3>2 DEF ProbedInv
    <3> QED BY <3>1, <3>2
  <2>8. Seen(6)' => /\ first'.untracked \subseteq Paths
                    /\ \A p \in first'.untracked :
                         \/ first'.index[p] = 0
                         \/ Rank(first'.index[p]) < Rank(world.index[p])
    <3>1. SUFFICES ASSUME probe = 6
                   PROVE  /\ first'.untracked \subseteq Paths
                          /\ \A p \in first'.untracked :
                               \/ first'.index[p] = 0
                               \/ Rank(first'.index[p]) < Rank(world.index[p])
      BY <2>0, <2>1
    <3>2. first'.untracked = Untracked(world) /\ first'.index = first.index /\ Seen(4)
      BY <2>2, <2>3, <3>1, RawIs
    <3>3. \A p \in Paths :
            /\ first.index[p] \in Nat /\ world.index[p] \in Nat
            /\ Rank(first.index[p]) <= Rank(world.index[p])
      BY <2>0, <3>2 DEF ProbedInv, Worlds
    <3>4. \A p \in Paths : \/ first.index[p] = world.index[p]
                           \/ Rank(first.index[p]) < Rank(world.index[p])
      BY <3>3, RankIs
    <3> QED BY <3>2, <3>4 DEF Untracked
  <2> QED BY <2>0, <2>4, <2>5, <2>6, <2>7, <2>8 DEF ProbedInv
<1>3. CASE Lstat \/ Looks \/ Reads \/ LstatAgain \/ ProbeAgain
  BY <1>3, PathSteps DEF ProbedInv, Seen, target
<1>4. CASE Ends
  BY <1>4 DEF Ends, ProbedInv, Seen
<1>5. CASE Edits
  <2>1. /\ Later(world', world) /\ UNCHANGED <<at, probe, first>>
        /\ world \in Worlds /\ world' \in Worlds
    BY <1>5, EditStep DEF sample, WorldInv
  <2>2. \A k \in 1..6 : Seen(k)' <=> Seen(k)
    BY <2>1 DEF Seen
  <2>3. \A p \in Paths : /\ Rank(world.index[p]) \in Nat /\ Rank(world'.index[p]) \in Nat
                         /\ Rank(world.index[p]) <= Rank(world'.index[p])
    BY <2>1, RankIs DEF Worlds, Later
  <2>4. Seen(1)' => /\ first'.branch \in Nat
                    /\ \/ first'.branch = 0 \/ world'.branch > first'.branch
                       \/ world'.branch = first'.branch /\ ~world'.detached
    BY <2>1, <2>2 DEF ProbedInv, Worlds, Later
  <2>5. Seen(2)' => first'.head \in Nat \ {0} /\ first'.head <= world'.head
    BY <2>1, <2>2 DEF ProbedInv, Worlds, Later
  <2>6. Seen(4) => \A p \in Paths : Rank(first.index[p]) \in Nat
    BY RankIs DEF ProbedInv
  <2>7. /\ Seen(6) => Seen(4) /\ Seen(5)
        /\ Seen(5) => Seen(4)
    BY DEF Seen, SampleType
  <2>8. Seen(4)' => /\ first'.index \in [Paths -> Nat]
                    /\ \A p \in Paths : Rank(first'.index[p]) <= Rank(world'.index[p])
    BY <2>1, <2>2, <2>3, <2>6 DEF ProbedInv
  <2>9. Seen(5)' => /\ first'.tracked \subseteq Paths
                    /\ \A p \in Paths : \/ p \in first'.tracked <=> first'.index[p] # 0
                                        \/ Rank(first'.index[p]) < Rank(world'.index[p])
    BY <2>1, <2>2, <2>3, <2>6, <2>7 DEF ProbedInv
  <2>10. Seen(6)' => /\ first'.untracked \subseteq Paths
                     /\ \A p \in first'.untracked :
                          \/ first'.index[p] = 0
                          \/ Rank(first'.index[p]) < Rank(world'.index[p])
    BY <2>1, <2>2, <2>3, <2>6, <2>7 DEF ProbedInv
  <2> QED BY <2>4, <2>5, <2>8, <2>9, <2>10 DEF ProbedInv
<1>6. CASE UNCHANGED vars
  BY <1>6 DEF ProbedInv, Seen, vars, target, sample
<1> QED BY <1>1, <1>2, <1>3, <1>4, <1>5, <1>6, StepsAre, EndsAre

(* What was read inside an unbroken lstat bracket is what the file is.     *)
LEMMA ReadIsBracketed ==
  ASSUME WorldInv, SampleType, ReadInv, LstatAgain, stable'
  PROVE  reading.entry = world.file[reading.path] /\ reading.entry.kind # "missing"
<1>1. /\ reading \in [path : Paths, before : Contents, entry : Contents]
      /\ world.file[reading.path] = reading.before /\ reading.entry # Missing
      /\ at = "lstat"
  BY DEF LstatAgain, LstatSignature, SampleType, Reading
<1>2. Rank(reading.before.content) \in Nat
  BY <1>1, RankIs DEF Contents
<1>3. reading.entry = reading.before
  BY <1>1, <1>2 DEF ReadInv
<1>4. world.file[reading.path].kind = "missing" <=> world.file[reading.path].content = 0
  BY <1>1 DEF WorldInv
<1>5. reading.entry.kind = "missing" => reading.entry = Missing
  BY <1>1, <1>3, <1>4 DEF Missing, Contents
<1> QED BY <1>1, <1>3, <1>5

(* What was read is not later than the target.                             *)
LEMMA ReadStep ==
  ASSUME WorldInv, SampleType, ReadInv, [Next]_vars
  PROVE  ReadInv'
<1>0. /\ \A p \in Paths : world.file[p] \in Contents
      /\ \A p \in Paths : world.file[p].kind = "missing" <=> world.file[p].content = 0
      /\ \A x \in ToSet(entries) : x.path \in Paths /\ x.entry \in Contents
      /\ \A c \in Contents : Rank(c.content) \in Nat
  <2>1. \A x \in ToSet(entries) : x \in EntryRecords
    BY EntriesAre DEF SampleType
  <2>2. \A x \in ToSet(entries) : x.path \in Paths /\ x.entry \in Contents
    BY <2>1 DEF EntryRecords
  <2>3. \A c \in Contents : Rank(c.content) \in Nat
    BY RankIs DEF Contents
  <2> QED BY <2>2, <2>3 DEF WorldInv, Worlds
<1>1. CASE Begins
  <2>1. ToSet(entries') = {}
    BY <1>1, BeginsAre DEF ToSet
  <2> QED BY <1>1, <2>1, BeginsAre DEF ReadInv, Reading
<1>2. CASE FirstProbe
  <2>1. /\ world' = world /\ entries' = entries /\ at = "first" /\ stable' = stable
        /\ entries = <<>> /\ probe \in 1..6
    BY <1>2, FirstProbeIs DEF target, SampleType
  <2>2. ToSet(entries) = {} /\ ToSet(entries') = {}
    BY <2>1 DEF ToSet
  <2>3. CASE probe < 6
    BY <1>2, <2>2, <2>3, FirstProbeIs DEF ReadInv, Reading
  <2>4. CASE probe = 6
    BY <1>2, <2>2, <2>4, FirstProbeIs DEF ReadInv, Reading, ReadPaths
  <2> QED BY <2>1, <2>3, <2>4
<1>3. CASE Lstat
  <2>1. PICK p \in pending :
          /\ reading' = [path |-> p, before |-> world.file[p], entry |-> Missing]
          /\ pending' = pending \ {p}
    BY <1>3 DEF Lstat, LstatSignature
  <2>2. /\ at = "read" /\ at' = "type"
        /\ UNCHANGED <<world, first, entries, stable>>
    BY <1>3 DEF Lstat, target
  <2>3. ReadPaths' = ReadPaths
    BY <2>2 DEF ReadPaths
  <2>4. (ReadPaths \cup pending \cup (IF Reading THEN {reading.path} ELSE {}))'
          = (first.tracked \cup first.untracked)'
    BY <2>1, <2>2, <2>3 DEF ReadInv, Reading
  <2>5. Since(world'.file[reading'.path], reading'.before)
    BY <2>1, <2>2 DEF Since
  <2> QED BY <2>2, <2>4, <2>5 DEF ReadInv, Reading
<1>4. CASE Looks
  <2>1. /\ at = "type" /\ at' \in {"content", "lstat"} /\ reading.path \in Paths
        /\ reading' = [reading EXCEPT !.entry = world.file[reading.path]]
        /\ reading \in [path : Paths, before : Contents, entry : Contents]
        /\ UNCHANGED <<world, first, entries, stable, pending>>
    BY <1>4 DEF Looks, target, SampleType, Reading
  <2>2. /\ reading'.path = reading.path /\ reading'.before = reading.before
        /\ reading'.entry = world.file[reading.path]
    BY <2>1
  <2>3. ReadPaths' = ReadPaths
    BY <2>1 DEF ReadPaths
  <2>4. Since(world.file[reading.path], reading.before)
    BY <2>1 DEF ReadInv, Reading
  <2>5. \/ reading'.entry = reading'.before
        \/ Rank(world'.file[reading'.path].content) > Rank(reading'.before.content)
    BY <2>1, <2>2, <2>4 DEF Since
  <2> QED BY <2>1, <2>2, <2>3, <2>4, <2>5 DEF ReadInv, Reading
<1>5. CASE Reads
  <2>1. PICK f \in Contents :
          /\ reading' = [reading EXCEPT !.entry = f]
          /\ world.file[reading.path] = reading.entry => f = reading.entry
    BY <1>5 DEF Reads
  <2>2. /\ at = "content" /\ at' = "lstat" /\ reading.path \in Paths
        /\ reading \in [path : Paths, before : Contents, entry : Contents]
        /\ UNCHANGED <<world, first, entries, stable, pending>>
    BY <1>5 DEF Reads, target, SampleType, Reading
  <2>3. /\ reading'.path = reading.path /\ reading'.before = reading.before
        /\ reading'.entry = f
    BY <2>1, <2>2
  <2>4. ReadPaths' = ReadPaths
    BY <2>2 DEF ReadPaths
  <2>5. /\ Since(world.file[reading.path], reading.before)
        /\ \/ reading.entry = reading.before
           \/ Rank(world.file[reading.path].content) > Rank(reading.before.content)
    BY <2>2 DEF ReadInv, Reading
  <2>6. \/ reading'.entry = reading'.before
        \/ Rank(world'.file[reading'.path].content) > Rank(reading'.before.content)
    BY <2>1, <2>2, <2>3, <2>5 DEF Since
  <2> QED BY <2>2, <2>3, <2>4, <2>5, <2>6 DEF ReadInv, Reading
<1>6. CASE LstatAgain
  <2>1. /\ at = "lstat" /\ at' \in {"again", "read"} /\ reading.path \in Paths
        /\ reading \in [path : Paths, before : Contents, entry : Contents]
        /\ entries' = Append(entries, [path |-> reading.path, entry |-> reading.entry])
        /\ stable' => /\ stable /\ reading.entry # Missing
                      /\ world.file[reading.path] = reading.before
        /\ UNCHANGED <<world, first, pending>>
    BY <1>6 DEF LstatAgain, target, SampleType, Reading, LstatSignature
  <2>2. /\ [path |-> reading.path, entry |-> reading.entry] \in EntryRecords
        /\ entries \in Seq(EntryRecords)
    BY <2>1 DEF EntryRecords, SampleType
  <2>3. ToSet(entries') = ToSet(entries) \cup {[path |-> reading.path, entry |-> reading.entry]}
    BY <2>1, <2>2, ToSetAppend
  <2>4. ReadPaths' = ReadPaths \cup {reading.path}
    <3>1. [path |-> reading.path, entry |-> reading.entry].path = reading.path
      OBVIOUS
    <3> QED BY <2>3, <3>1, Zenon DEF ReadPaths
  <2>5. (ReadPaths \cup pending \cup (IF Reading THEN {reading.path} ELSE {}))'
          = (first.tracked \cup first.untracked)'
    BY <2>1, <2>4 DEF ReadInv, Reading
  <2>6. stable' => reading.entry = world.file[reading.path] /\ reading.entry.kind # "missing"
    BY <1>6, ReadIsBracketed
  <2>7. stable' => \A x \in ToSet(entries') :
          x.entry.kind # "missing" /\ Since(world'.file[x.path], x.entry)
    BY <2>1, <2>3, <2>6 DEF ReadInv, Since
  <2> QED BY <2>1, <2>5, <2>7 DEF ReadInv, Reading
<1>7. CASE ProbeAgain
  <2>1. /\ at = "again" /\ at' \in {"again", "judge"}
        /\ UNCHANGED <<world, first, entries, stable, pending>>
    BY <1>7, ProbeAgainIs DEF target, SampleType
  <2>2. ReadPaths' = ReadPaths
    BY <2>1 DEF ReadPaths
  <2> QED BY <2>1, <2>2 DEF ReadInv, Reading
<1>8. CASE Ends
  BY <1>8 DEF Ends, ReadInv, Reading, sample, target
<1>9. CASE Edits
  <2>1. /\ Later(world', world) /\ UNCHANGED <<at, first, pending, reading, entries, stable>>
        /\ world' \in Worlds
    BY <1>9, EditStep DEF sample, WorldInv
  <2>2. ReadPaths' = ReadPaths
    BY <2>1 DEF ReadPaths
  <2>3. \A p \in Paths : /\ Since(world'.file[p], world.file[p])
                         /\ world'.file[p] \in Contents
    BY <2>1 DEF Later, Worlds
  <2>4. stable => \A x \in ToSet(entries) : Since(world'.file[x.path], x.entry)
    BY <1>0, <2>3, SinceSince DEF ReadInv
  <2>5. Reading => /\ reading.path \in Paths /\ reading.before \in Contents
                   /\ Since(world'.file[reading.path], reading.before)
    BY <1>0, <2>3, SinceSince DEF ReadInv, SampleType
  <2>6. at \in {"content", "lstat"} =>
          \/ reading.entry = reading.before
          \/ Rank(world'.file[reading.path].content) > Rank(reading.before.content)
    BY <1>0, <2>3, <2>5, LaterSince DEF ReadInv, Reading
  <2> QED BY <2>1, <2>2, <2>4, <2>5, <2>6 DEF ReadInv, Reading
<1>10. CASE UNCHANGED vars
  BY <1>10 DEF ReadInv, Reading, ReadPaths, vars, target, sample
<1> QED BY <1>1, <1>2, <1>3, <1>4, <1>5, <1>6, <1>7, <1>8, <1>9, <1>10, StepsAre, EndsAre

-----------------------------------------------------------------------------
(* What is gone.                                                           *)

(* The parts of a recorded state have ranks.                               *)
LEMMA RecordedRanks ==
  ASSUME NEW s, Recordable(s)
  PROVE  /\ \A p \in Paths : /\ s.fingerprint.index[p] \in Nat
                             /\ Rank(s.fingerprint.index[p]) \in Nat
         /\ \A x \in s.fingerprint.paths :
              /\ x.path \in Paths /\ x.entry \in Contents
              /\ Rank(x.entry.content) \in Nat
<1>1. \A x \in s.fingerprint.paths : x \in EntryRecords
  BY DEF Recordable
<1>2. \A x \in s.fingerprint.paths : x.path \in Paths /\ x.entry \in Contents
  BY <1>1 DEF EntryRecords
<1> QED BY <1>2, RankIs DEF Recordable, Contents

(* So have those of the target.                                            *)
LEMMA WorldRanks ==
  ASSUME NEW w \in Worlds
  PROVE  \A p \in Paths : /\ w.index[p] \in Nat /\ Rank(w.index[p]) \in Nat
                          /\ w.file[p] \in Contents /\ w.file[p].content \in Nat
                          /\ Rank(w.file[p].content) \in Nat
<1>1. \A p \in Paths : w.index[p] \in Nat /\ w.file[p] \in Contents
  BY DEF Worlds
<1>2. \A p \in Paths : w.file[p].content \in Nat
  BY <1>1 DEF Contents
<1> QED BY <1>1, <1>2, RankIs

(* What is gone stays gone.                                                *)
LEMMA GoneStays ==
  ASSUME NEW s, Recordable(s), NEW w \in Worlds, NEW v \in Worlds, Later(v, w)
  PROVE  /\ HeadGone(s, w) => HeadGone(s, v)
         /\ BranchGone(s, w) => BranchGone(s, v)
         /\ \A p \in Paths : /\ IndexGone(s, w, p) => IndexGone(s, v, p)
                             /\ NewGone(s, w, p) => NewGone(s, v, p)
         /\ \A x \in s.fingerprint.paths : FileGone(x, w) => FileGone(x, v)
         /\ RefGone(s, w) => RefGone(s, v)
         /\ Gone(s, w) => Gone(s, v)
<1>1. HeadGone(s, w) => HeadGone(s, v)
  BY DEF HeadGone, Later, Worlds, Recordable
<1>2. BranchGone(s, w) => BranchGone(s, v)
  BY DEF BranchGone, Later, Worlds, Recordable
<1>3. \A p \in Paths : IndexGone(s, w, p) => IndexGone(s, v, p)
  BY WorldRanks, RecordedRanks DEF IndexGone, Later
<1>4. \A p \in Paths : Rank(w.file[p].content) <= Rank(v.file[p].content)
  BY WorldRanks DEF Later, Since
<1>5. \A p \in Paths : NewGone(s, w, p) => NewGone(s, v, p)
  BY <1>4, WorldRanks DEF NewGone
<1>6. \A x \in s.fingerprint.paths : FileGone(x, w) => FileGone(x, v)
  BY <1>4, WorldRanks, RecordedRanks DEF FileGone
<1>7. RefGone(s, w) => RefGone(s, v)
  BY <1>1, <1>2 DEF RefGone
<1>8. Gone(s, w) => Gone(s, v)
  BY <1>3, <1>5, <1>6, <1>7 DEF Gone
<1> QED BY <1>1, <1>2, <1>3, <1>5, <1>6, <1>7, <1>8

(* The state of a target, part by part.                                    *)
LEMMA StateIs ==
  ASSUME NEW w
  PROVE  /\ StateOf(w).branch = IF w.detached THEN 0 ELSE w.branch
         /\ StateOf(w).head = w.head /\ StateOf(w).fingerprint.index = w.index
         /\ StateOf(w).fingerprint.status = Raw(w).status
         /\ StateOf(w).fingerprint.tracked = Tracked(w)
         /\ StateOf(w).fingerprint.untracked = Untracked(w)
         /\ StateOf(w).fingerprint.paths =
              {[path |-> p, entry |-> w.file[p]] : p \in Tracked(w) \cup Untracked(w)}
BY DEF StateOf, GitState, Raw

(* Any edit of a target that is as it was recorded makes a part go.        *)
LEMMA EditGone ==
  ASSUME NEW s, Recordable(s), s.branch # 0, NEW w \in Worlds, NEW v \in Worlds,
         \A p \in Paths : w.file[p].kind = "missing" <=> w.file[p].content = 0,
         Matched(s, w), Moved(v, w)
  PROVE  Gone(s, v)
<1>1. /\ s.branch = (IF w.detached THEN 0 ELSE w.branch) /\ s.head = w.head
      /\ s.fingerprint.index = w.index
      /\ s.fingerprint.tracked = Tracked(w) /\ s.fingerprint.untracked = Untracked(w)
      /\ s.fingerprint.paths =
           {[path |-> p, entry |-> w.file[p]] : p \in Tracked(w) \cup Untracked(w)}
  BY StateIs DEF Matched, StateOf, GitState, Raw
<1>2. CASE v.head > w.head \/ v.branch > w.branch
  BY <1>1, <1>2 DEF Gone, RefGone, HeadGone, BranchGone, Worlds
<1>3. CASE \E p \in Paths : Rank(v.index[p]) > Rank(w.index[p])
  BY <1>1, <1>3 DEF Gone, IndexGone
<1>4. ASSUME NEW p \in Paths, Rank(v.file[p].content) > Rank(w.file[p].content)
      PROVE  Gone(s, v)
  <2>1. CASE p \in Tracked(w) \cup Untracked(w)
    <3>1. [path |-> p, entry |-> w.file[p]] \in s.fingerprint.paths
      BY <1>1, <2>1
    <3>2. FileGone([path |-> p, entry |-> w.file[p]], v)
      BY <1>4 DEF FileGone
    <3> QED BY <3>1, <3>2 DEF Gone
  <2>2. CASE p \notin Tracked(w) \cup Untracked(w)
    <3>1. w.index[p] = 0 /\ w.file[p].content = 0
      BY <2>2 DEF Tracked, Untracked, Exists
    <3>2. NewGone(s, v, p)
      BY <1>1, <1>4, <2>2, <3>1, RankIs DEF NewGone
    <3> QED BY <3>2 DEF Gone
  <2> QED BY <2>1, <2>2
<1> QED BY <1>2, <1>3, <1>4 DEF Moved

(* The parts of a sample.                                                  *)
LEMMA SampleIs ==
  /\ Sample.branch = first.branch /\ Sample.head = first.head
  /\ Sample.fingerprint = [status |-> first.status, index |-> first.index,
                           tracked |-> first.tracked, untracked |-> first.untracked,
                           paths |-> ToSet(entries)]
  /\ Sample.fingerprint.index = first.index /\ Sample.fingerprint.status = first.status
  /\ Sample.fingerprint.tracked = first.tracked
  /\ Sample.fingerprint.untracked = first.untracked
  /\ Sample.fingerprint.paths = ToSet(entries)
BY DEF Sample, GitState, Digest

(* A whole sample can be recorded.                                         *)
LEMMA SampleRecordable ==
  ASSUME SampleType, ProbedInv, at \in {"again", "judge"}
  PROVE  Recordable(Sample)
<1>1. /\ first.branch \in Nat /\ first.head \in Nat /\ first.index \in [Paths -> Nat]
  BY DEF ProbedInv, Seen
<1>2. ToSet(entries) \subseteq EntryRecords
  BY EntriesAre DEF SampleType
<1>3. Sample = [branch |-> Sample.branch, head |-> Sample.head,
                fingerprint |-> Sample.fingerprint]
  BY DEF Sample, GitState
<1> QED BY <1>1, <1>2, <1>3, SampleIs DEF Recordable

(* After the reads, whatever was seen is still so, or some of it is gone.  *)
LEMMA MatchedNow ==
  ASSUME WorldInv, SampleType, ProbedInv, ReadInv, at \in {"again", "judge"},
         stable, first.branch # 0
  PROVE  Gone(Sample, world) \/ Matched(Sample, world)
<1> SUFFICES ASSUME ~Gone(Sample, world) PROVE Matched(Sample, world)
  OBVIOUS
<1>0. /\ world \in Worlds /\ Recordable(Sample)
      /\ \A p \in Paths : /\ world.index[p] \in Nat /\ Rank(world.index[p]) \in Nat
                          /\ world.file[p] \in Contents /\ world.file[p].content \in Nat
                          /\ Rank(world.file[p].content) \in Nat
      /\ \A p \in Paths : world.file[p].kind = "missing" <=> world.file[p].content = 0
      /\ \A p \in Paths : Rank(world.index[p]) <= Rank(world.file[p].content)
      /\ world.head \in Nat /\ world.branch \in Nat
  BY WorldRanks, SampleRecordable DEF WorldInv, Worlds
<1>1. /\ first.branch = (IF world.detached THEN 0 ELSE world.branch)
      /\ first.head = world.head
  BY <1>0, SampleIs DEF Gone, RefGone, HeadGone, BranchGone, ProbedInv, Seen
<1>2. /\ first.index \in [Paths -> Nat]
      /\ \A p \in Paths : first.index[p] \in Nat /\ Rank(first.index[p]) \in Nat
  BY <1>0, SampleIs, RecordedRanks DEF Recordable
<1>3. \A p \in Paths : ~(Rank(world.index[p]) > Rank(first.index[p]))
  BY SampleIs DEF Gone, IndexGone
<1>4. \A p \in Paths : Rank(world.index[p]) = Rank(first.index[p])
  BY <1>0, <1>2, <1>3 DEF ProbedInv, Seen
<1>5. first.index = world.index
  <2>1. \A p \in Paths : first.index[p] = world.index[p]
    BY <1>0, <1>2, <1>4, RankIs
  <2> QED BY <1>0, <1>2, <2>1 DEF Worlds
<1>6. first.tracked = Tracked(world)
  BY <1>3, <1>5 DEF ProbedInv, Seen, Tracked
<1>7. \A x \in ToSet(entries) : /\ x \in EntryRecords /\ x.path \in Paths
                                /\ x.entry = world.file[x.path] /\ x.entry.kind # "missing"
  BY <1>0, SampleIs, RecordedRanks DEF Recordable, Gone, FileGone, ReadInv, Since
<1>8. ReadPaths = first.tracked \cup first.untracked
  BY DEF ReadInv, SampleType, Reading
<1>9. first.untracked = Untracked(world)
  <2>1. ASSUME NEW p \in first.untracked PROVE p \in Untracked(world)
    <3>1. p \in Paths /\ world.index[p] = 0
      BY <1>3, <1>5 DEF ProbedInv, Seen
    <3>2. PICK x \in ToSet(entries) : x.path = p
      BY <1>8 DEF ReadPaths
    <3> QED BY <1>7, <3>1, <3>2 DEF Untracked, Exists
  <2>2. ASSUME NEW p \in Untracked(world) PROVE p \in first.untracked
    <3>1. p \in Paths /\ world.index[p] = 0 /\ world.file[p].content # 0
      BY <1>0 DEF Untracked, Exists
    <3>2. Rank(world.file[p].content) > 1
      BY <1>0, <3>1, RankIs
    <3>3. p \notin first.tracked
      BY <1>6, <3>1 DEF Tracked
    <3> QED BY <1>5, <3>1, <3>2, <3>3, SampleIs DEF Gone, NewGone
  <2> QED BY <2>1, <2>2
<1>10. ToSet(entries) =
         {[path |-> p, entry |-> world.file[p]] : p \in Tracked(world) \cup Untracked(world)}
  <2>1. \A x \in ToSet(entries) : /\ x = [path |-> x.path, entry |-> world.file[x.path]]
                                  /\ x.path \in Tracked(world) \cup Untracked(world)
    BY <1>6, <1>7, <1>8, <1>9 DEF EntryRecords, ReadPaths
  <2>2. ASSUME NEW p \in Tracked(world) \cup Untracked(world)
        PROVE  [path |-> p, entry |-> world.file[p]] \in ToSet(entries)
    <3>1. PICK x \in ToSet(entries) : x.path = p
      BY <1>6, <1>8, <1>9 DEF ReadPaths
    <3> QED BY <2>1, <3>1
  <2> QED BY <2>1, <2>2
<1>11. StateOf(world).fingerprint =
         [status |-> Raw(world).status, index |-> world.index, tracked |-> Tracked(world),
          untracked |-> Untracked(world), paths |-> ToSet(entries)]
  BY <1>10 DEF StateOf, GitState, Raw
<1>12. Sample.fingerprint = [StateOf(world).fingerprint EXCEPT !.status = first.status]
  BY <1>5, <1>6, <1>9, <1>11, SampleIs
<1> QED BY <1>1, <1>12, SampleIs, StateIs DEF Matched

(* After the second round: the status, too.                                *)
LEMMA StatusStep ==
  ASSUME WorldInv, SampleType, ProbedInv, ReadInv, StatusInv, [Next]_vars
  PROVE  StatusInv'
<1>1. CASE Begins \/ Ends
  BY <1>1, BeginsAre DEF Ends, StatusInv, SeenAgain
<1>2. CASE FirstProbe
  <2>1. probe \in 1..6
    BY DEF SampleType
  <2> QED BY <1>2, <2>1, FirstProbeIs DEF StatusInv, SeenAgain
<1>3. CASE Lstat \/ Looks \/ Reads \/ LstatAgain
  <2>1. ~SeenAgain(3)'
    <3>1. CASE Lstat \/ Looks \/ Reads
      BY <3>1 DEF Lstat, Looks, Reads, SeenAgain
    <3>2. CASE LstatAgain
      BY <3>2 DEF LstatAgain, SampleType, SeenAgain
    <3> QED BY <1>3, <3>1, <3>2
  <2> QED BY <2>1 DEF StatusInv
<1>4. CASE ProbeAgain
  <2>1. /\ at = "again" /\ at' \in {"again", "judge"} /\ probe \in 1..6
        /\ UNCHANGED <<world, first, entries, stable>>
    BY <1>4, ProbeAgainIs DEF SampleType, target
  <2>2. Sample' = Sample
    BY <2>1 DEF Sample, Digest, GitState
  <2>3. again'.status = IF 3 = probe THEN Raw(world).status ELSE again.status
    BY <1>4, AgainIs, ProbesAre
  <2>4. SeenAgain(3)' => SeenAgain(3) \/ probe = 3
    BY <1>4, <2>1, AgainIs
  <2> QED BY <2>1, <2>2, <2>3, <2>4 DEF StatusInv
<1>5. CASE Edits
  <2>1. /\ Later(world', world) /\ Moved(world', world)
        /\ UNCHANGED <<at, probe, first, again, entries, stable>>
        /\ world \in Worlds /\ world' \in Worlds
        /\ \A p \in Paths : world.file[p].kind = "missing" <=> world.file[p].content = 0
    BY <1>5, EditStep DEF sample, WorldInv
  <2>2. Sample' = Sample
    BY <2>1 DEF Sample, Digest, GitState
  <2>3. ASSUME at \in {"again", "judge"}, stable, first.branch # 0
        PROVE  Gone(Sample, world')
    <3>1. Recordable(Sample) /\ Sample.branch # 0
      BY <2>3, SampleRecordable, SampleIs
    <3>2. Gone(Sample, world) \/ Matched(Sample, world)
      BY <2>3, MatchedNow
    <3> QED BY <2>1, <3>1, <3>2, GoneStays, EditGone
  <2> QED BY <2>1, <2>2, <2>3 DEF StatusInv, SeenAgain
<1>6. CASE UNCHANGED vars
  BY <1>6 DEF StatusInv, SeenAgain, Sample, Digest, GitState, vars, target, sample
<1> QED BY <1>1, <1>2, <1>3, <1>4, <1>5, <1>6, StepsAre, EndsAre

(* A state that is accepted is the target's, or some of it is gone.        *)
LEMMA JudgedNow ==
  ASSUME WorldInv, SampleType, ProbedInv, ReadInv, StatusInv, at = "judge", Agreed,
         first.branch # 0
  PROVE  Gone(Sample, world) \/ StateOf(world) = Sample
<1>1. stable /\ first.status = again.status
  BY DEF Agreed
<1>2. Gone(Sample, world) \/ Matched(Sample, world)
  BY <1>1, MatchedNow
<1>3. Gone(Sample, world) \/ first.status = StateOf(world).fingerprint.status
  BY <1>1, StateIs DEF StatusInv, SeenAgain
<1>4. ASSUME Matched(Sample, world), first.status = StateOf(world).fingerprint.status
      PROVE  StateOf(world) = Sample
  <2>1. Sample.fingerprint = [StateOf(world).fingerprint EXCEPT !.status = first.status]
    BY <1>4, SampleIs DEF Matched
  <2>2. Sample.fingerprint = StateOf(world).fingerprint
    BY <1>4, <2>1 DEF StateOf, GitState
  <2>3. Sample.branch = StateOf(world).branch /\ Sample.head = StateOf(world).head
    BY <1>4 DEF Matched
  <2>4. /\ Sample = [branch |-> Sample.branch, head |-> Sample.head,
                     fingerprint |-> Sample.fingerprint]
        /\ StateOf(world) = [branch |-> StateOf(world).branch, head |-> StateOf(world).head,
                             fingerprint |-> StateOf(world).fingerprint]
    BY DEF Sample, StateOf, GitState
  <2> QED BY <2>2, <2>3, <2>4
<1> QED BY <1>2, <1>3, <1>4

-----------------------------------------------------------------------------
(* The records.                                                            *)

(* The records are one or two.                                             *)
LEMMA Tuples ==
  ASSUME NEW a, NEW b
  PROVE  /\ Append(<<>>, a) = <<a>> /\ Append(<<a>>, b) = <<a, b>>
         /\ Len(<<>>) = 0 /\ Len(<<a>>) = 1 /\ Len(<<a, b>>) = 2
         /\ <<a>>[1] = a /\ <<a, b>>[1] = a /\ <<a, b>>[2] = b
         /\ <<a>> # <<>> /\ <<a, b>> # <<>>
         /\ Last(<<a>>) = a /\ Last(<<a, b>>) = b
<1>1. Len(<<>>) = 0 /\ Len(<<a>>) = 1 /\ Len(<<a, b>>) = 2
  OBVIOUS
<1>2. <<a>>[1] = a /\ <<a, b>>[1] = a /\ <<a, b>>[2] = b
  OBVIOUS
<1>3. <<a>> # <<>> /\ <<a, b>> # <<>>
  BY <1>1
<1>4. Append(<<>>, a) = <<a>>
  OBVIOUS
<1>5. Append(<<a>>, b) = <<a, b>>
  <2>1. <<a>> \in Seq({a, b}) /\ <<a, b>> \in Seq({a, b}) /\ Append(<<a>>, b) \in Seq({a, b})
    OBVIOUS
  <2>2. Len(Append(<<a>>, b)) = 2 /\ Append(<<a>>, b)[1] = a /\ Append(<<a>>, b)[2] = b
    BY <2>1
  <2>3. \A s \in Seq({a, b}) : s = [i \in 1..Len(s) |-> s[i]]
    OBVIOUS
  <2>4. Append(<<a>>, b) = [i \in 1..2 |-> Append(<<a>>, b)[i]]
    BY <2>1, <2>2, <2>3
  <2>5. <<a, b>> = [i \in 1..2 |-> <<a, b>>[i]]
    BY <2>1, <2>3
  <2>6. \A i \in 1..2 : i = 1 \/ i = 2
    OBVIOUS
  <2>7. \A i \in 1..2 : Append(<<a>>, b)[i] = <<a, b>>[i]
    BY <2>2, <2>6
  <2> QED BY <2>4, <2>5, <2>7
<1> QED BY <1>1, <1>2, <1>3, <1>4, <1>5 DEF Last

(* What there is to compare with.                                          *)
LEMMA BaselineIs ==
  ASSUME SampleType, RecordType, at # "between"
  PROVE  /\ check \in {1, 2}
         /\ check = 1 => taken = <<>> /\ Baseline = NoState
         /\ check = 2 => /\ taken = <<taken[1]>> /\ Baseline = taken[1].state
                         /\ Baseline # NoState
<1>1. check \in {1, 2}
  BY DEF SampleType, RecordType
<1>2. check = 1 => taken = <<>> /\ Baseline = NoState
  BY DEF RecordType, Made, Baseline
<1>3. check = 2 => taken = <<taken[1]>> /\ taken[1].status = "SAFE"
  BY DEF RecordType, Made
<1>4. check = 2 => taken # <<>> /\ Last(taken) = taken[1]
  BY <1>3, Tuples
<1>5. check = 2 => taken[1].state.head # 0
  BY <1>3, <1>4 DEF RecordType
<1> QED BY <1>1, <1>2, <1>3, <1>4, <1>5 DEF Baseline, NoState

(* The record a check ends with.                                           *)
LEMMA FinishIs ==
  ASSUME SampleType, RecordType, at # "between",
         NEW status, NEW state, NEW agent, Finish(status, state, agent)
  PROVE  LET record == GitCheckRecord(status, state, agent)
         IN /\ at' = "between"
            /\ record.status = status /\ record.state = state /\ record.role = agent
            /\ check = 1 => /\ taken' = <<record>> /\ taken'[1] = record /\ Len(taken') = 1
                            /\ gap' = {StateOf(world)}
            /\ check = 2 => /\ taken' = <<taken[1], record>> /\ Len(taken') = 2
                            /\ taken'[1] = taken[1] /\ taken'[2] = record
                            /\ gap' = gap
<1> DEFINE record == GitCheckRecord(status, state, agent)
<1>1. /\ taken' = Append(taken, record) /\ at' = "between"
      /\ gap' = IF check = 1 THEN {StateOf(world)} ELSE gap
  BY DEF Finish
<1>2. record.status = status /\ record.state = state /\ record.role = agent
  BY DEF GitCheckRecord
<1> HIDE DEF record
<1>3. CASE check = 1
  <2>1. taken' = <<record>>
    BY <1>1, <1>3, BaselineIs, Tuples
  <2> QED BY <1>1, <1>2, <1>3, <2>1, Tuples DEF record
<1>4. CASE check = 2
  <2>0. PICK a : a = taken[1]
    OBVIOUS
  <2>2. taken = <<a>>
    BY <1>4, <2>0, BaselineIs
  <2>3. Append(<<a>>, record) = <<a, record>>
    BY Tuples
  <2>1. taken' = <<taken[1], record>>
    BY <1>1, <2>0, <2>2, <2>3
  <2> QED BY <1>1, <1>2, <1>4, <2>1, Tuples DEF record
<1> QED BY <1>3, <1>4, BaselineIs

(* A verdict on an accepted state.                                         *)
LEMMA AcceptIs ==
  ASSUME Accept
  PROVE  \E agent \in Roles :
           /\ Finish(Verdict(Sample, Baseline, agent), Sample, agent)
           /\ at = "judge" /\ Agreed /\ UNCHANGED <<target, check, pass, sample, seen, spoiled>>
BY DEF Accept, Sample

(* The records keep their types.                                           *)
LEMMA RecordStep ==
  ASSUME WorldInv, SampleType, ProbedInv, RecordType, [Next]_vars
  PROVE  RecordType'
<1>0. check \in 0..2
  BY DEF SampleType
<1>1. CASE Begins
  <2>1. Made' = Made
    BY <1>0, <1>1, BeginsAre DEF Made
  <2>2. /\ check' # 0 /\ taken' = taken
        /\ check' = 2 => check = 2 \/ (check = 1 /\ taken[1].status = "SAFE")
    BY <1>0, <1>1 DEF Begins, StartCheck, Retry, RecordType
  <2> QED BY <2>1, <2>2 DEF RecordType
<1>2. CASE FirstProbe \/ Lstat \/ Looks \/ Reads \/ LstatAgain \/ ProbeAgain
  <2>1. at # "between" /\ at' # "between" /\ UNCHANGED <<check, taken>>
    <3>1. CASE FirstProbe
      <4>1. probe \in 1..6
        BY DEF SampleType
      <4> QED BY <3>1, <4>1, FirstProbeIs
    <3> QED BY <1>2, <3>1, PathSteps
  <2> QED BY <2>1 DEF RecordType, Made
<1>3. CASE Accept
  <2>1. PICK agent \in Roles :
          /\ Finish(Verdict(Sample, Baseline, agent), Sample, agent)
          /\ at = "judge" /\ UNCHANGED check
    BY <1>3, AcceptIs
  <2>2. Recordable(Sample) /\ Sample.head # 0
    BY <2>1, SampleRecordable, SampleIs DEF ProbedInv, Seen
  <2>3. CASE check = 1
    <3>1. Verdict(Sample, Baseline, agent) = "SAFE" => Sample.branch # 0
      BY <2>1, <2>3, BaselineIs DEF Verdict
    <3> QED BY <2>1, <2>2, <2>3, <3>1, FinishIs DEF RecordType, Made
  <2>4. CASE check = 2
    <3>1. taken # <<>> /\ taken' # <<>>
      BY <2>1, <2>4, BaselineIs, FinishIs, Tuples
    <3> QED BY <2>1, <2>4, <3>1, FinishIs DEF RecordType, Made
  <2> QED BY <2>1, <2>3, <2>4, BaselineIs
<1>4. CASE Unstable \/ GivesUp
  <2>1. /\ Finish("INDETERMINATE", NoState, "NONE") /\ at # "between" /\ UNCHANGED check
    BY <1>4 DEF Unstable, GivesUp, GiveUp
  <2>2. CASE check = 1
    BY <2>1, <2>2, FinishIs DEF RecordType, Made
  <2>3. CASE check = 2
    <3>1. taken # <<>> /\ taken' # <<>>
      BY <2>1, <2>3, BaselineIs, FinishIs, Tuples
    <3> QED BY <2>1, <2>3, <3>1, FinishIs DEF RecordType, Made
  <2> QED BY <2>1, <2>2, <2>3, BaselineIs
<1>5. CASE Edits \/ UNCHANGED vars
  BY <1>5, EditStep DEF RecordType, Made, vars
<1> QED BY <1>1, <1>2, <1>3, <1>4, <1>5, StepsAre

-----------------------------------------------------------------------------
(* What shows.                                                             *)

(* The step keeps showing what shows.                                      *)
KeepsShowing(s) ==
  /\ HeadShown(s) \/ BranchShown(s) => (HeadShown(s) \/ BranchShown(s))'
  /\ Shown(s) => Shown(s)'

(* A pass begins with nothing that could hide what is gone.                *)
LEMMA BeginsShowing ==
  ASSUME NEW s, Begins
  PROVE  /\ RefGone(s, world) => (HeadShown(s) \/ BranchShown(s))'
         /\ Gone(s, world) => Shown(s)'
         /\ KeepsShowing(s)
<1>1. /\ world' = world /\ at' = "first" /\ probe' = 1 /\ ToSet(entries') = {}
  BY BeginsAre DEF target, ToSet
<1>2. /\ HeadGone(s, world) => HeadShown(s)'
      /\ BranchGone(s, world) => BranchShown(s)'
  BY <1>1 DEF HeadShown, BranchShown, Seen, HeadGone, BranchGone
<1>3. \A p \in Paths : /\ IndexGone(s, world, p) => IndexShown(s, p)'
                       /\ NewGone(s, world, p) => NewShown(s, p)'
  BY <1>1 DEF IndexShown, NewShown, Seen, IndexGone, NewGone
<1>4. \A x \in s.fingerprint.paths : FileGone(x, world) => FileShown(x)'
  BY <1>1 DEF FileShown, Reading, FileGone
<1>5. RefGone(s, world) => (HeadShown(s) \/ BranchShown(s))'
  BY <1>2 DEF RefGone
<1>6. Gone(s, world) => Shown(s)'
  BY <1>3, <1>4, <1>5 DEF Gone, Shown
<1>7. /\ HeadShown(s) \/ BranchShown(s) => RefGone(s, world)
      /\ Shown(s) => Gone(s, world)
  BY DEF Shown, Gone, RefGone, HeadShown, BranchShown, IndexShown, NewShown, FileShown
<1> QED BY <1>5, <1>6, <1>7 DEF KeepsShowing

(* The parts of what shows, one by one.                                    *)
LEMMA ShowingParts ==
  ASSUME NEW s,
         HeadShown(s) => HeadShown(s)', BranchShown(s) => BranchShown(s)',
         \A p \in Paths : IndexShown(s, p) => IndexShown(s, p)',
         \A p \in Paths : NewShown(s, p) => NewShown(s, p)',
         \A x \in s.fingerprint.paths : FileShown(x) => FileShown(x)'
  PROVE  KeepsShowing(s)
BY DEF KeepsShowing, Shown

(* The first round sees what is gone before it is looked at.               *)
LEMMA ProbeShowing ==
  ASSUME NEW s, Recordable(s), WorldInv, SampleType, ProbedInv, FirstProbe
  PROVE  KeepsShowing(s)
<1>0. /\ world' = world /\ world \in Worlds /\ probe \in 1..6 /\ at = "first"
      /\ at' \in {"first", "again", "read"} /\ (at' # "first" => probe = 6 /\ probe' = 1)
      /\ ToSet(entries') = {}
  BY FirstProbeIs DEF target, SampleType, WorldInv, ToSet
<1>1. \A k \in 1..6 : Seen(k)' <=> k <= probe
  BY SeenIs
<1>2. \A k \in 1..6 : Seen(k) <=> k < probe
  BY SeenIs
<1>3. /\ first'["branch"] = IF probe = 1 THEN Raw(world)["branch"] ELSE first["branch"]
      /\ first'["head"] = IF probe = 2 THEN Raw(world)["head"] ELSE first["head"]
      /\ first'["index"] = IF probe = 4 THEN Raw(world)["index"] ELSE first["index"]
      /\ first'["untracked"] = IF probe = 6 THEN Raw(world)["untracked"] ELSE first["untracked"]
  BY <1>0, FirstProbeIs, ProbesAre DEF Fields
<1>4. HeadShown(s) => HeadShown(s)'
  BY <1>0, <1>1, <1>2, <1>3, RawIs DEF HeadShown, HeadGone
<1>5. BranchShown(s) => BranchShown(s)'
  BY <1>0, <1>1, <1>2, <1>3, RawIs DEF BranchShown, BranchGone
<1>6. \A p \in Paths : IndexShown(s, p) => IndexShown(s, p)'
  BY <1>0, <1>1, <1>2, <1>3, RawIs DEF IndexShown, IndexGone
<1>7. ASSUME NEW p \in Paths, NewShown(s, p) PROVE NewShown(s, p)'
  <2>1. NewGone(s, world, p) /\ NewGone(s, world', p)
    BY <1>0, <1>7 DEF NewShown
  <2>2. ~SeenAgain(4)'
    BY <1>0 DEF SeenAgain
  <2>3. CASE probe # 6
    BY <1>0, <1>1, <2>1, <2>3 DEF NewShown
  <2>4. CASE probe = 6
    <3>1. first'.untracked = Untracked(world) /\ first'.index = first.index /\ Seen(4)
      BY <1>2, <1>3, <2>4, RawIs
    <3>2. /\ first.index[p] \in Nat /\ world.index[p] \in Nat /\ world.file[p].content \in Nat
          /\ Rank(world.index[p]) \in Nat
          /\ Rank(first.index[p]) <= Rank(world.index[p])
      BY <1>0, <1>7, <3>1, WorldRanks DEF ProbedInv
    <3>3. Exists(world, p)
      <4>1. Rank(world.file[p].content) > 1
        BY <2>1 DEF NewGone
      <4>2. world.file[p].content # 0
        BY <3>2, <4>1, RankIs
      <4> QED BY <4>2 DEF Exists, WorldInv
    <3>4. CASE world.index[p] = 0
      <4>1. p \in first'.untracked
        BY <3>1, <3>3, <3>4 DEF Untracked
      <4> QED BY <2>1, <4>1 DEF NewShown
    <3>5. CASE world.index[p] # 0 /\ first.index[p] = 0
      <4>1. Rank(first.index[p]) = 1 /\ Rank(world.index[p]) # Rank(0)
        BY <3>2, <3>5, RankIs
      <4>2. Rank(world.index[p]) > 1
        BY <3>2, <4>1, RankIs
      <4> QED BY <1>0, <2>1, <2>2, <4>2 DEF NewShown
    <3>6. CASE first.index[p] # 0
      BY <2>1, <3>1, <3>6 DEF NewShown
    <3> QED BY <3>4, <3>5, <3>6
  <2> QED BY <2>3, <2>4
<1>8. \A x \in s.fingerprint.paths : FileShown(x) => FileShown(x)'
  BY <1>0 DEF FileShown, Reading, FileGone
<1> QED BY <1>4, <1>5, <1>6, <1>7, <1>8, ShowingParts

(* So do the reads, as long as the sample is stable.                       *)
LEMMA PathShowing ==
  ASSUME NEW s, Recordable(s), WorldInv, SampleType, ProbedInv, ReadInv,
         Lstat \/ Looks \/ Reads \/ LstatAgain \/ ProbeAgain
  PROVE  KeepsShowing(s)
<1>0. /\ at \notin {"between", "first"} /\ at' \notin {"between", "first"}
      /\ first' = first /\ world' = world /\ world \in Worlds
  BY PathSteps DEF target, WorldInv
<1>1. \A k \in 1..6 : Seen(k) /\ Seen(k)'
  BY <1>0 DEF Seen
<1>2. HeadShown(s) => HeadShown(s)'
  BY <1>0, <1>1 DEF HeadShown
<1>3. BranchShown(s) => BranchShown(s)'
  BY <1>0, <1>1 DEF BranchShown
<1>4. \A p \in Paths : IndexShown(s, p) => IndexShown(s, p)'
  BY <1>0, <1>1 DEF IndexShown
<1>5. ASSUME NEW p \in Paths, NewShown(s, p) PROVE NewShown(s, p)'
  <2>1. SeenAgain(4)' /\ ~SeenAgain(4) => again'.index = world.index
    <3>1. CASE Lstat \/ Looks \/ Reads
      BY <3>1 DEF Lstat, Looks, Reads, SeenAgain
    <3>2. CASE LstatAgain
      BY <3>2 DEF LstatAgain, SampleType, SeenAgain
    <3>3. CASE ProbeAgain
      <4>1. /\ SeenAgain(4) <=> 4 < probe
            /\ SeenAgain(4)' <=> 4 <= probe
            /\ again'.index = IF 4 = probe THEN Raw(world).index ELSE again.index
        BY <3>3, AgainIs, ProbesAre
      <4> QED BY <4>1, RawIs DEF SampleType
    <3> QED BY <3>1, <3>2, <3>3
  <2>2. SeenAgain(4) => SeenAgain(4)' /\ again'.index = again.index
    <3>1. CASE Lstat \/ Looks \/ Reads \/ LstatAgain
      BY <3>1 DEF Lstat, Looks, Reads, LstatAgain, SeenAgain
    <3>2. CASE ProbeAgain
      <4>1. /\ SeenAgain(4) <=> 4 < probe
            /\ SeenAgain(4)' <=> 4 <= probe
            /\ again'.index = IF 4 = probe THEN Raw(world).index ELSE again.index
        BY <3>2, AgainIs, ProbesAre
      <4> QED BY <4>1 DEF SampleType
    <3> QED BY <3>1, <3>2
  <2>3. Rank(world.index[p]) > 1 => world.index[p] # 0
    BY <1>0, WorldRanks, RankIs
  <2>4. /\ NewGone(s, world, p)
        /\ \/ p \in first.untracked \/ first.index[p] # 0
           \/ Rank(world.index[p]) > 1 /\ (SeenAgain(4) => again.index[p] # 0)
    BY <1>1, <1>5 DEF NewShown
  <2> QED BY <1>0, <2>1, <2>2, <2>3, <2>4 DEF NewShown
<1>6. ASSUME NEW x \in s.fingerprint.paths, FileShown(x) PROVE FileShown(x)'
  <2>0. FileGone(x, world) /\ FileGone(x, world')
    BY <1>0, <1>6 DEF FileShown
  <2>1. CASE Lstat
    <3>1. PICK p \in pending :
            reading' = [path |-> p, before |-> world.file[p], entry |-> Missing]
      BY <2>1 DEF Lstat, LstatSignature
    <3>2. reading'.before = world.file[p] /\ reading'.path = p
      BY <3>1
    <3>3. entries' = entries /\ stable' = stable
      BY <2>1 DEF Lstat
    <3> QED BY <1>6, <2>0, <3>2, <3>3 DEF FileShown, FileGone
  <2>2. CASE Looks \/ Reads
    <3>1. /\ at \in {"type", "content"} /\ entries' = entries /\ stable' = stable
      BY <2>2 DEF Looks, Reads
    <3>2. reading \in [path : Paths, before : Contents, entry : Contents]
      BY <3>1 DEF SampleType, Reading
    <3>3. reading'.before = reading.before /\ reading'.path = reading.path
      BY <2>2, <3>2 DEF Looks, Reads
    <3> QED BY <1>6, <2>0, <3>1, <3>3 DEF FileShown, Reading
  <2>3. CASE LstatAgain
    <3>1. /\ at = "lstat" /\ at' \in {"again", "read"} /\ reading.path \in Paths
          /\ entries' = Append(entries, [path |-> reading.path, entry |-> reading.entry])
          /\ reading \in [path : Paths, before : Contents, entry : Contents]
          /\ stable' => /\ stable /\ world.file[reading.path] = reading.before
      BY <2>3 DEF LstatAgain, LstatSignature, SampleType, Reading
    <3>2. /\ [path |-> reading.path, entry |-> reading.entry] \in EntryRecords
          /\ entries \in Seq(EntryRecords)
      BY <3>1 DEF EntryRecords, SampleType
    <3>3. ToSet(entries') = ToSet(entries) \cup {[path |-> reading.path, entry |-> reading.entry]}
      BY <3>1, <3>2, ToSetAppend
    <3>4. stable' => reading.entry = reading.before
      BY <2>3, <3>1, ReadIsBracketed
    <3>5. reading.path = x.path => Rank(reading.before.content) > Rank(x.entry.content)
      BY <1>6, <3>1 DEF FileShown, Reading
    <3> QED BY <1>6, <2>0, <3>1, <3>3, <3>4, <3>5 DEF FileShown, Reading
  <2>4. CASE ProbeAgain
    <3>1. at' \in {"again", "judge"} /\ entries' = entries /\ stable' = stable
      BY <2>4, ProbeAgainIs DEF SampleType
    <3> QED BY <1>6, <2>0, <3>1 DEF FileShown, Reading
  <2> QED BY <2>1, <2>2, <2>3, <2>4
<1> QED BY <1>2, <1>3, <1>4, <1>5, <1>6, ShowingParts

(* Edits put nothing back.                                                 *)
LEMMA EditShowing ==
  ASSUME NEW s, Recordable(s), WorldInv, Edits
  PROVE  KeepsShowing(s)
<1>0. /\ Later(world', world) /\ UNCHANGED <<at, probe, first, again, reading, entries, stable>>
      /\ world \in Worlds /\ world' \in Worlds
  BY EditStep DEF sample, WorldInv
<1>1. \A k \in 1..6 : (Seen(k)' <=> Seen(k)) /\ (SeenAgain(k)' <=> SeenAgain(k))
  BY <1>0 DEF Seen, SeenAgain
<1>2. HeadShown(s) => HeadShown(s)'
  BY <1>0, <1>1, GoneStays DEF HeadShown
<1>3. BranchShown(s) => BranchShown(s)'
  BY <1>0, <1>1, GoneStays DEF BranchShown
<1>4. \A p \in Paths : IndexShown(s, p) => IndexShown(s, p)'
  BY <1>0, <1>1, GoneStays DEF IndexShown
<1>5. \A p \in Paths : Rank(world.index[p]) > 1 => Rank(world'.index[p]) > 1
  BY <1>0, WorldRanks DEF Later
<1>6. \A p \in Paths : NewShown(s, p) => NewShown(s, p)'
  BY <1>0, <1>1, <1>5, GoneStays DEF NewShown
<1>7. \A x \in s.fingerprint.paths : FileShown(x) => FileShown(x)'
  BY <1>0, GoneStays DEF FileShown, Reading
<1> QED BY <1>2, <1>3, <1>4, <1>6, <1>7, ShowingParts

(* A sample that is what was recorded leaves nothing to show.              *)
LEMMA NothingShows ==
  ASSUME NEW s, Recordable(s), s.branch # 0, SampleType, ProbedInv, at = "judge", Agreed
  PROVE  /\ ~Drifted(Sample, s) => ~HeadShown(s) /\ ~BranchShown(s)
         /\ Sample = s => ~Shown(s)
<1>1. ~Drifted(Sample, s) => ~HeadShown(s) /\ ~BranchShown(s)
  BY SampleIs DEF Drifted, HeadShown, BranchShown, Seen, Recordable
<1>2. ASSUME Sample = s PROVE ~Shown(s)
  <2>1. ~HeadShown(s) /\ ~BranchShown(s)
    BY <1>1, <1>2 DEF Drifted
  <2>2. /\ s.fingerprint.index = first.index /\ s.fingerprint.untracked = first.untracked
        /\ s.fingerprint.paths = ToSet(entries)
    BY <1>2, SampleIs
  <2>3. ASSUME NEW p \in Paths PROVE ~IndexShown(s, p)
    <3>1. Rank(first.index[p]) \in Nat
      BY <2>2, RecordedRanks
    <3> QED BY <2>2, <3>1 DEF IndexShown, Seen
  <2>4. ASSUME NEW p \in Paths PROVE ~NewShown(s, p)
    BY <2>2 DEF NewShown, NewGone, Seen, SeenAgain, Agreed
  <2>5. ASSUME NEW x \in s.fingerprint.paths PROVE ~FileShown(x)
    <3>1. Rank(x.entry.content) \in Nat
      BY RecordedRanks
    <3> QED BY <2>2, <3>1 DEF FileShown, Agreed
  <2> QED BY <2>1, <2>3, <2>4, <2>5 DEF Shown
<1> QED BY <1>1, <1>2

(* A verdict of SAFE against a baseline.                                   *)
LEMMA SafeIs ==
  ASSUME NEW state, NEW s, s # NoState, NEW agent, Verdict(state, s, agent) = "SAFE"
  PROVE  /\ ~Drifted(state, s)
         /\ agent # "CODER" => state.fingerprint = s.fingerprint
BY DEF Verdict

(* What was recorded frames the time between the checks.                   *)
LEMMA GapStep ==
  ASSUME WorldInv, SampleType, ProbedInv, ReadInv, StatusInv, RecordType, GapInv, [Next]_vars
  PROVE  GapInv'
<1>0. check \in 0..2 /\ (check = 0 => at = "between")
  BY DEF SampleType, RecordType
<1>1. CASE Begins
  <2>1. taken' = taken /\ gap' = gap /\ at' = "first"
    BY <1>1, BeginsAre
  <2>2. ASSUME taken # <<>>, taken[1].status = "SAFE"
        PROVE  LET s == taken[1].state
               IN /\ RefStill(s)' \/ (HeadShown(s) \/ BranchShown(s))'
                  /\ Still(s)' \/ Shown(s)'
    <3>1. PICK s : s = taken[1].state
      OBVIOUS
    <3>2. /\ RefStill(s)' <=> RefStill(s)
          /\ Still(s)' <=> Still(s)
      BY <2>1 DEF RefStill, Still
    <3>3. CASE at = "between"
      <4>1. check = 1
        BY <1>0, <1>1, <2>2, <3>3, BeginsAre DEF RecordType, Made
      <4>2. /\ RefStill(s) \/ RefGone(s, world)
            /\ Still(s) \/ Gone(s, world)
        BY <2>2, <3>1, <3>3, <4>1 DEF GapInv
      <4> QED BY <1>1, <2>1, <3>1, <3>2, <4>2, BeginsShowing DEF RefStill
    <3>4. CASE at # "between"
      <4>1. /\ RefStill(s) \/ HeadShown(s) \/ BranchShown(s)
            /\ Still(s) \/ Shown(s)
        BY <2>2, <3>1, <3>4 DEF GapInv
      <4> QED BY <1>1, <2>1, <3>1, <3>2, <4>1, BeginsShowing DEF KeepsShowing
    <3> QED BY <3>3, <3>4
  <2>3. AgreementFramesTheGap'
    BY <2>1 DEF GapInv, AgreementFramesTheGap
  <2> QED BY <2>1, <2>2, <2>3 DEF GapInv
<1>2. ASSUME at # "between", at' # "between", UNCHANGED <<taken, gap>>,
             \A s : Recordable(s) => KeepsShowing(s)
      PROVE  GapInv'
  <2>1. ASSUME taken # <<>>, taken[1].status = "SAFE"
        PROVE  LET s == taken[1].state
               IN /\ RefStill(s)' \/ (HeadShown(s) \/ BranchShown(s))'
                  /\ Still(s)' \/ Shown(s)'
    <3>1. PICK s : s = taken[1].state
      OBVIOUS
    <3>2. /\ RefStill(s)' <=> RefStill(s)
          /\ Still(s)' <=> Still(s)
      BY <1>2 DEF RefStill, Still
    <3>3. KeepsShowing(s)
      BY <1>2, <2>1, <3>1 DEF RecordType
    <3>4. /\ RefStill(s) \/ HeadShown(s) \/ BranchShown(s)
          /\ Still(s) \/ Shown(s)
      BY <1>2, <2>1, <3>1 DEF GapInv
    <3> QED BY <1>2, <3>1, <3>2, <3>3, <3>4 DEF KeepsShowing
  <2>2. AgreementFramesTheGap'
    BY <1>2 DEF GapInv, AgreementFramesTheGap
  <2> QED BY <1>2, <2>1, <2>2 DEF GapInv
<1>3. CASE FirstProbe
  <2>1. at # "between" /\ at' # "between" /\ UNCHANGED <<taken, gap>>
    <3>1. probe \in 1..6
      BY DEF SampleType
    <3> QED BY <1>3, <3>1, FirstProbeIs
  <2> QED BY <1>2, <1>3, <2>1, ProbeShowing
<1>4. CASE Lstat \/ Looks \/ Reads \/ LstatAgain \/ ProbeAgain
  BY <1>2, <1>4, PathSteps, PathShowing
<1>5. CASE Edits
  <2>0. /\ Later(world', world) /\ Moved(world', world) /\ UNCHANGED <<at, check, taken>>
        /\ world \in Worlds /\ world' \in Worlds
        /\ \A p \in Paths : world.file[p].kind = "missing" <=> world.file[p].content = 0
        /\ gap' = IF at = "between" /\ check = 1 THEN gap \cup {StateOf(world')} ELSE gap
    <3>1. gap' = IF at = "between" /\ check = 1 THEN gap \cup {StateOf(world')} ELSE gap
      BY <1>5 DEF Edits, Write, Stage, Commit, Switch, Edit
    <3> QED BY <1>5, <3>1, EditStep DEF WorldInv
  <2>1. CASE at # "between"
    BY <1>2, <1>5, <2>0, <2>1, EditShowing
  <2>2. CASE at = "between" /\ check # 1
    BY <2>0, <2>2 DEF GapInv, AgreementFramesTheGap
  <2>3. CASE at = "between" /\ check = 1
    <3>1. Len(taken) = 1
      <4>1. PICK a : a = taken[1]
        OBVIOUS
      <4> QED BY <2>3, <4>1, Tuples DEF RecordType, Made
    <3>2. ASSUME taken # <<>>, taken[1].status = "SAFE"
          PROVE  LET s == taken[1].state
                 IN /\ RefGone(s, world') \/ ~Drifted(StateOf(world'), s)
                    /\ Gone(s, world') \/ StateOf(world') = s
                    /\ RefStill(s)' \/ RefGone(s, world')
                    /\ Still(s)' \/ Gone(s, world')
      <4>1. PICK s : s = taken[1].state
        OBVIOUS
      <4>2. Recordable(s) /\ s.branch # 0
        BY <3>2, <4>1 DEF RecordType
      <4>3. /\ RefGone(s, world) \/ ~Drifted(StateOf(world), s)
            /\ Gone(s, world) \/ StateOf(world) = s
            /\ RefStill(s) \/ RefGone(s, world)
        BY <2>3, <3>2, <4>1 DEF GapInv
      <4>4. StateOf(world) = s => Matched(s, world)
        BY DEF Matched, StateOf, GitState
      <4>5. Gone(s, world')
        BY <2>0, <4>2, <4>3, <4>4, GoneStays, EditGone
      <4>6. RefGone(s, world') \/ ~Drifted(StateOf(world'), s)
        <5>1. CASE RefGone(s, world)
          BY <2>0, <4>2, <5>1, GoneStays
        <5>2. CASE ~RefGone(s, world)
          <6>1. s.branch = world.branch /\ ~world.detached /\ s.head = world.head
            BY <4>2, <4>3, <5>2, StateIs DEF Drifted
          <6>2. \/ world'.head > world.head \/ world'.branch > world.branch
                \/ /\ world'.head = world.head /\ world'.branch = world.branch
                   /\ ~world'.detached
            BY <2>0, <6>1 DEF Later, Worlds
          <6> QED BY <4>2, <6>1, <6>2, StateIs DEF Drifted, RefGone, HeadGone, BranchGone
        <5> QED BY <5>1, <5>2
      <4>7. RefStill(s)' \/ RefGone(s, world')
        <5>1. RefGone(s, world) => RefGone(s, world')
          BY <2>0, <4>2, GoneStays
        <5> QED BY <2>0, <2>3, <4>3, <4>6, <5>1 DEF RefStill
      <4> QED BY <2>0, <4>1, <4>5, <4>6, <4>7
    <3> QED BY <2>0, <2>3, <3>1, <3>2 DEF GapInv, AgreementFramesTheGap
  <2> QED BY <2>1, <2>2, <2>3
<1>6. CASE Accept
  <2>1. PICK agent \in Roles :
          /\ Finish(Verdict(Sample, Baseline, agent), Sample, agent)
          /\ at = "judge" /\ Agreed /\ UNCHANGED <<target, check>>
    BY <1>6, AcceptIs
  <2>2. world' = world /\ Recordable(Sample)
    BY <2>1, SampleRecordable DEF target
  <2>3. CASE check = 1
    <3>1. /\ taken'[1].state = Sample /\ Len(taken') = 1 /\ at' = "between" /\ check' = 1
          /\ taken'[1].status = Verdict(Sample, Baseline, agent) /\ gap' = {StateOf(world)}
      BY <2>1, <2>3, FinishIs
    <3>2. ASSUME taken'[1].status = "SAFE"
          PROVE  /\ RefGone(Sample, world) \/ ~Drifted(StateOf(world), Sample)
                 /\ Gone(Sample, world) \/ StateOf(world) = Sample
      <4>1. first.branch # 0
        BY <2>1, <2>3, <3>1, <3>2, BaselineIs, SampleIs DEF Verdict
      <4>2. Gone(Sample, world) \/ StateOf(world) = Sample
        BY <2>1, <4>1, JudgedNow
      <4>3. RefGone(Sample, world) \/ ~Drifted(StateOf(world), Sample)
        <5>1. /\ world.branch > first.branch \/ (world.branch = first.branch /\ ~world.detached)
              /\ first.head <= world.head /\ first.head \in Nat /\ world.head \in Nat
          BY <2>1, <4>1 DEF ProbedInv, Seen, WorldInv, Worlds
        <5>2. /\ Sample.branch = first.branch /\ Sample.head = first.head
              /\ StateOf(world).head = world.head
              /\ ~world.detached => StateOf(world).branch = world.branch
          BY SampleIs, StateIs
        <5>3. CASE RefGone(Sample, world)
          BY <5>3
        <5>4. CASE ~RefGone(Sample, world)
          <6>1. world.branch = first.branch /\ ~world.detached /\ first.head = world.head
            BY <4>1, <5>1, <5>2, <5>4 DEF RefGone, HeadGone, BranchGone
          <6> QED BY <5>2, <6>1 DEF Drifted
        <5> QED BY <5>3, <5>4
      <4> QED BY <4>2, <4>3
    <3>3. PICK s : s = Sample
      OBVIOUS
    <3>4. taken'[1].status = "SAFE" =>
            /\ RefGone(s, world') \/ ~Drifted(StateOf(world'), s)
            /\ Gone(s, world') \/ StateOf(world') = s
            /\ RefStill(s)' \/ RefGone(s, world')
            /\ Still(s)' \/ Gone(s, world')
      BY <2>2, <3>1, <3>2, <3>3 DEF RefStill, Still
    <3> QED BY <3>1, <3>3, <3>4 DEF GapInv, AgreementFramesTheGap
  <2>4. CASE check = 2
    <3>0. PICK s : s = taken[1].state
      OBVIOUS
    <3>1. /\ taken'[1] = taken[1] /\ taken'[2].state = Sample /\ taken'[2].role = agent
          /\ taken'[2].status = Verdict(Sample, s, agent)
          /\ at' = "between" /\ check' = 2 /\ gap' = gap /\ s # NoState
          /\ taken # <<>> /\ taken[1].status = "SAFE"
      <4>1. taken # <<>> /\ taken[1].status = "SAFE"
        <5>1. PICK a : a = taken[1]
          OBVIOUS
        <5> QED BY <2>1, <2>4, <5>1, BaselineIs, Tuples DEF RecordType
      <4> QED BY <2>1, <2>4, <3>0, <4>1, FinishIs, BaselineIs
    <3>2. Recordable(s) /\ s.branch # 0 /\ s.head # 0
      BY <3>0, <3>1 DEF RecordType
    <3>3. /\ RefStill(s) \/ HeadShown(s) \/ BranchShown(s)
          /\ Still(s) \/ Shown(s)
      BY <2>1, <3>0, <3>1 DEF GapInv
    <3>4. ASSUME Verdict(Sample, s, agent) = "SAFE"
          PROVE  IF agent = "CODER" THEN RefStill(s) ELSE Still(s)
      <4>1. ~Drifted(Sample, s) /\ (agent # "CODER" => Sample.fingerprint = s.fingerprint)
        <5>1. ASSUME NEW state, Verdict(state, s, agent) = "SAFE"
              PROVE  ~Drifted(state, s) /\ (agent # "CODER" => state.fingerprint = s.fingerprint)
          BY <3>1, <5>1, SafeIs
        <5> QED BY <3>4, <5>1
      <4>2. agent # "CODER" => Sample = s
        <5>1. Sample = [branch |-> Sample.branch, head |-> Sample.head,
                        fingerprint |-> Sample.fingerprint]
          BY DEF Sample, GitState
        <5> QED BY <3>2, <4>1, <5>1 DEF Drifted, Recordable
      <4> QED BY <2>1, <3>2, <3>3, <4>1, <4>2, NothingShows
    <3> QED BY <3>0, <3>1, <3>4 DEF GapInv, AgreementFramesTheGap, RefStill, Still
  <2> QED BY <2>1, <2>3, <2>4, BaselineIs
<1>7. CASE Unstable \/ GivesUp
  <2>1. /\ Finish("INDETERMINATE", NoState, "NONE") /\ at # "between" /\ UNCHANGED check
    BY <1>7 DEF Unstable, GivesUp, GiveUp
  <2>2. CASE check = 1
    BY <2>1, <2>2, FinishIs DEF GapInv, AgreementFramesTheGap
  <2>3. CASE check = 2
    BY <2>1, <2>3, FinishIs DEF GapInv, AgreementFramesTheGap
  <2> QED BY <2>1, <2>2, <2>3, BaselineIs
<1>8. CASE UNCHANGED vars
  BY <1>8 DEF vars, target, sample, GapInv, AgreementFramesTheGap, RefStill, Still, HeadShown,
     BranchShown, Shown, IndexShown, NewShown, FileShown, Seen, SeenAgain, Reading
<1> QED BY <1>1, <1>3, <1>4, <1>5, <1>6, <1>7, <1>8, StepsAre
-----------------------------------------------------------------------------
(* Clean passes.                                                           *)

(* A path read while nobody edits is read as it is.                        *)
LEMMA ReadNowStep ==
  ASSUME WorldInv, SampleType, ReadNow, Lstat \/ Looks \/ Reads \/ LstatAgain \/ ProbeAgain
  PROVE  ReadNow'
<1>1. world' = world
  BY PathSteps DEF target
<1>2. CASE Lstat
  <2>1. PICK p \in pending :
          reading' = [path |-> p, before |-> world.file[p], entry |-> Missing]
    BY <1>2 DEF Lstat, LstatSignature
  <2>2. at' = "type" /\ reading'.before = world.file[reading'.path] /\ entries' = entries
    BY <1>2, <2>1 DEF Lstat
  <2> QED BY <1>1, <2>2 DEF ReadNow
<1>3. CASE Looks
  <2>1. /\ reading'.before = reading.before /\ reading'.path = reading.path
        /\ reading'.entry = world.file[reading.path] /\ at = "type" /\ entries' = entries
    BY <1>3 DEF Looks, SampleType, Reading
  <2> QED BY <1>1, <2>1 DEF ReadNow, Reading
<1>4. CASE Reads
  <2>1. /\ reading'.before = reading.before /\ reading'.path = reading.path
        /\ world.file[reading.path] = reading.entry => reading'.entry = reading.entry
        /\ at = "content" /\ entries' = entries
    BY <1>4 DEF Reads, SampleType, Reading
  <2> QED BY <1>1, <2>1 DEF ReadNow, Reading
<1>5. CASE LstatAgain
  <2>1. /\ at = "lstat" /\ at' \in {"again", "read"}
        /\ entries' = Append(entries, [path |-> reading.path, entry |-> reading.entry])
    BY <1>5 DEF LstatAgain
  <2>2. /\ [path |-> reading.path, entry |-> reading.entry] \in EntryRecords
        /\ entries \in Seq(EntryRecords)
    BY <2>1 DEF EntryRecords, SampleType, Reading
  <2>3. ToSet(entries') = ToSet(entries) \cup {[path |-> reading.path, entry |-> reading.entry]}
    BY <2>1, <2>2, ToSetAppend
  <2> QED BY <1>1, <2>1, <2>3 DEF ReadNow, Reading
<1>6. CASE ProbeAgain
  <2>1. at' \in {"again", "judge"} /\ entries' = entries
    BY <1>6, ProbeAgainIs DEF SampleType
  <2> QED BY <1>1, <2>1 DEF ReadNow, Reading
<1> QED BY <1>2, <1>3, <1>4, <1>5, <1>6

(* A clean pass sees the target as it is.                                  *)
LEMMA CleanStep ==
  ASSUME WorldInv, SampleType, CleanInv, [Next]_vars
  PROVE  CleanInv'
<1>1. CASE Begins
  <2>1. ToSet(entries') = {}
    BY <1>1, BeginsAre DEF ToSet
  <2> QED BY <1>1, <2>1, BeginsAre DEF CleanInv, ReadNow, Seen, SeenAgain, Reading
<1>2. CASE FirstProbe
  <2>1. /\ at = "first" /\ at' \in {"first", "again", "read"}
        /\ UNCHANGED <<world, check, pass, spoiled, stable>> /\ ToSet(entries') = {}
    BY <1>2, FirstProbeIs DEF target, SampleType, ToSet
  <2>2. Clean' <=> Clean
    BY <2>1 DEF Clean
  <2>3. Clean => \A k \in 1..6 : Seen(k)' => first'[Probes[k]] = Raw(world)[Probes[k]]
    BY <1>2, <2>1, SeenIs, FirstIs DEF CleanInv, SampleType
  <2>4. \A k \in 1..6 : ~SeenAgain(k)'
    BY <1>2, SeenIs
  <2> QED BY <2>1, <2>2, <2>3, <2>4 DEF CleanInv, ReadNow, Reading
<1>3. CASE Lstat \/ Looks \/ Reads \/ LstatAgain
  <2>1. /\ at \notin {"between", "first", "judge"} /\ UNCHANGED <<world, check, pass, first>>
    BY <1>3, PathSteps DEF target, Lstat, Looks, Reads, LstatAgain
  <2>2. \A k \in 1..6 : Seen(k) /\ ~SeenAgain(k)'
    <3>1. CASE Lstat \/ Looks \/ Reads
      BY <2>1, <3>1 DEF Lstat, Looks, Reads, Seen, SeenAgain
    <3>2. CASE LstatAgain
      BY <2>1, <3>2 DEF LstatAgain, SampleType, Seen, SeenAgain
    <3> QED BY <1>3, <3>1, <3>2
  <2>3. Clean' /\ ReadNow => Clean /\ (stable => stable')
    <3>1. CASE Lstat \/ Looks \/ Reads
      BY <3>1 DEF Lstat, Looks, Reads, Clean
    <3>2. CASE LstatAgain
      BY <3>2 DEF LstatAgain, LstatSignature, Clean, ReadNow, Reading
    <3> QED BY <1>3, <3>1, <3>2
  <2>4. Clean' => Clean
    <3>1. spoiled \subseteq spoiled'
      BY <1>3 DEF Lstat, Looks, Reads, LstatAgain
    <3> QED BY <2>1, <3>1 DEF Clean
  <2> QED BY <1>3, <2>1, <2>2, <2>3, <2>4, ReadNowStep DEF CleanInv
<1>5. CASE ProbeAgain
  <2>1. /\ at = "again" /\ UNCHANGED <<world, check, pass, spoiled, stable, first>>
    BY <1>5, ProbeAgainIs DEF target, ProbeAgain
  <2>2. /\ Clean' <=> Clean
        /\ \A k \in 1..6 : Seen(k)
    BY <2>1 DEF Clean, Seen
  <2>3. Clean => \A k \in 1..6 : SeenAgain(k)' => again'[Probes[k]] = Raw(world)[Probes[k]]
    BY <1>5, <2>1, AgainIs DEF CleanInv, SampleType
  <2> QED BY <1>5, <2>1, <2>2, <2>3, ReadNowStep DEF CleanInv
<1>6. CASE Ends
  BY <1>6 DEF Ends, CleanInv
<1>7. CASE Edits
  <2>1. /\ UNCHANGED <<at, check, pass>>
        /\ at # "between" => <<check, pass>> \in spoiled'
    BY <1>7 DEF Edits, Write, Stage, Commit, Switch, Edit
  <2> QED BY <2>1 DEF CleanInv, Clean
<1>8. CASE UNCHANGED vars
  BY <1>8 DEF CleanInv, ReadNow, Clean, Seen, SeenAgain, Reading, vars, target, sample
<1> QED BY <1>1, <1>2, <1>3, <1>5, <1>6, <1>7, <1>8, StepsAre, EndsAre

(* A sample with the probes and the files of one target is its state, up to*)
(* the branch.                                                             *)
LEMMA WholeSample ==
  ASSUME SampleType, ReadInv, at \in {"again", "judge"}, NEW w,
         \A k \in 2..6 : first[Probes[k]] = Raw(w)[Probes[k]],
         \A x \in ToSet(entries) : x.entry = w.file[x.path]
  PROVE  /\ Sample = [StateOf(w) EXCEPT !.branch = first.branch]
         /\ first = Raw(w) => Sample = StateOf(w)
<1>1. /\ first.head = Raw(w).head /\ first.status = Raw(w).status
      /\ first.index = Raw(w).index
      /\ first.tracked = Tracked(w) /\ first.untracked = Untracked(w)
      /\ Raw(w).tracked = Tracked(w) /\ Raw(w).untracked = Untracked(w)
  <2>1. Raw(w).tracked = Tracked(w) /\ Raw(w).untracked = Untracked(w)
    BY DEF Raw
  <2> QED BY <2>1, ProbesAre
<1>2. ReadPaths = Tracked(w) \cup Untracked(w)
  BY <1>1 DEF ReadInv, SampleType, Reading
<1>3. ToSet(entries) = {[path |-> p, entry |-> w.file[p]] : p \in Tracked(w) \cup Untracked(w)}
  <2>1. \A x \in ToSet(entries) : x \in EntryRecords
    BY EntriesAre DEF SampleType
  <2>2. \A x \in ToSet(entries) : /\ x = [path |-> x.path, entry |-> w.file[x.path]]
                                  /\ x.path \in Tracked(w) \cup Untracked(w)
    BY <1>2, <2>1 DEF EntryRecords, ReadPaths
  <2>3. ASSUME NEW p \in Tracked(w) \cup Untracked(w)
        PROVE  [path |-> p, entry |-> w.file[p]] \in ToSet(entries)
    <3>1. PICK x \in ToSet(entries) : x.path = p
      BY <1>2 DEF ReadPaths
    <3> QED BY <2>2, <3>1
  <2> QED BY <2>2, <2>3
<1>4. Sample = [StateOf(w) EXCEPT !.branch = first.branch]
  <2>1. Sample.fingerprint = StateOf(w).fingerprint
    BY <1>1, <1>3, SampleIs DEF StateOf, GitState
  <2>2. Sample.branch = first.branch /\ Sample.head = StateOf(w).head
    BY <1>1, SampleIs DEF StateOf, GitState
  <2>3. /\ Sample = [branch |-> Sample.branch, head |-> Sample.head,
                     fingerprint |-> Sample.fingerprint]
        /\ StateOf(w) = [branch |-> StateOf(w).branch, head |-> StateOf(w).head,
                         fingerprint |-> StateOf(w).fingerprint]
    BY DEF Sample, StateOf, GitState
  <2> QED BY <2>1, <2>2, <2>3
<1>5. first = Raw(w) => Sample = StateOf(w)
  BY <1>4 DEF StateOf, GitState
<1> QED BY <1>4, <1>5

(* Probes that are those of one target, all six of them.                   *)
LEMMA AllProbes ==
  ASSUME NEW raw, raw = [k \in Fields |-> raw[k]],
         \A k \in 1..6 : raw[Probes[k]] = Raw(world)[Probes[k]]
  PROVE  raw = Raw(world)
<1>1. \A k \in Fields : raw[k] = Raw(world)[k]
  BY ProbesAre DEF Fields
<1> QED BY <1>1, RawIs

(* And agrees with itself.                                                 *)
LEMMA CleanJudged ==
  ASSUME SampleType, ReadInv, CleanInv, at = "judge", Clean
  PROVE  Agreed /\ Sample = StateOf(world)
<1>1. /\ stable /\ ReadNow
      /\ \A k \in 1..6 : first[Probes[k]] = Raw(world)[Probes[k]]
      /\ \A k \in 1..6 : again[Probes[k]] = Raw(world)[Probes[k]]
  BY DEF CleanInv, Seen, SeenAgain
<1>2. first = Raw(world) /\ again = Raw(world)
  BY <1>1, AllProbes DEF SampleType
<1>3. Sample = StateOf(world)
  BY <1>1, <1>2, WholeSample DEF ReadNow
<1> QED BY <1>1, <1>2, <1>3 DEF Agreed

(* Two members are more than one.                                          *)
LEMMA TwoMembers ==
  ASSUME NEW S, IsFiniteSet(S), NEW a \in S, NEW b \in S, a # b
  PROVE  Cardinality(S) > 1
<1>1. IsFiniteSet({a}) /\ Cardinality({a}) = 1
  BY FS_Singleton
<1>2. PICK one : one = {a}
  OBVIOUS
<1>3. IsFiniteSet(one \cup {b}) /\ Cardinality(one \cup {b}) = 2
  <2>1. /\ IsFiniteSet(one \cup {b})
        /\ Cardinality(one \cup {b}) =
             IF b \in one THEN Cardinality(one) ELSE Cardinality(one) + 1
    BY <1>1, <1>2, FS_AddElement, Zenon
  <2> QED BY <1>1, <1>2, <2>1
<1>4. one \cup {b} \subseteq S
  BY <1>2
<1>5. Cardinality(one \cup {b}) <= Cardinality(S) /\ Cardinality(S) \in Nat
  BY <1>4, FS_Subset, FS_CardinalityType, Zenon
<1> QED BY <1>3, <1>5

(* The states between the checks are finitely many.                        *)
LEMMA GapIsFinite ==
  ASSUME IsFiniteSet(gap), [Next]_vars, WorldInv, SampleType
  PROVE  IsFiniteSet(gap')
<1>1. \/ gap' = gap \/ gap' = {StateOf(world)} \/ gap' = gap \cup {StateOf(world')}
  <2>1. CASE Edits
    BY <2>1 DEF Edits, Write, Stage, Commit, Switch, Edit
  <2>2. CASE Ends
    BY <2>2 DEF Ends, Finish
  <2>3. CASE Begins \/ FirstProbe
    BY <2>3, BeginsAre, FirstProbeIs
  <2>4. CASE Lstat \/ Looks \/ Reads \/ LstatAgain \/ ProbeAgain
    BY <2>4, PathSteps
  <2>5. CASE UNCHANGED vars
    BY <2>5 DEF vars
  <2> QED BY <2>1, <2>2, <2>3, <2>4, <2>5, StepsAre, EndsAre
<1>2. IsFiniteSet({StateOf(world)})
  BY FS_Singleton, Zenon
<1>3. \A x : IsFiniteSet(gap \cup {x})
  BY FS_AddElement, Zenon
<1> QED BY <1>1, <1>2, <1>3

(* Blame and doubt have their edits.                                       *)
LEMMA BlameStep ==
  ASSUME WorldInv, SampleType, ReadInv, RecordType, CleanInv, BlameInv, [Next]_vars
  PROVE  BlameInv'
<1>0. /\ check \in 0..2 /\ pass \in 1..2 /\ (check = 0 => at = "between")
      /\ IsFiniteSet(gap)
      /\ at # "between" /\ pass = 2 => <<check, 1>> \in spoiled
      /\ spoiled = {} /\ taken # <<>> /\ (check = 1 \/ at # "between") =>
           taken[1].state \in gap /\ StateOf(world) \in gap
      /\ Len(taken) = 2 /\ taken[2].status = "UNSAFE" => spoiled # {} \/ Cardinality(gap) > 1
  BY DEF SampleType, RecordType, BlameInv, UnsafeMeansEdited
<1>1. IsFiniteSet(gap')
  BY <1>0, GapIsFinite
<1>2. CASE Begins
  <2>1. UNCHANGED <<world, taken, gap, spoiled>>
    BY <1>2, BeginsAre DEF target
  <2>2. at' # "between" /\ pass' = 2 => <<check', 1>> \in spoiled'
    <3>1. CASE StartCheck
      BY <3>1 DEF StartCheck, StartPass
    <3>2. CASE Retry
      <4>1. at = "judge" /\ pass = 1 /\ ~Agreed /\ UNCHANGED <<check, spoiled>>
        BY <3>2 DEF Retry
      <4>2. ~Clean
        BY <4>1, CleanJudged
      <4> QED BY <4>1, <4>2 DEF Clean
    <3> QED BY <1>2, <3>1, <3>2 DEF Begins
  <2>3. taken # <<>> => check = 1 \/ at # "between"
    BY <1>0, <1>2, BeginsAre DEF RecordType, Made
  <2>4. spoiled' = {} /\ taken' # <<>> => taken'[1].state \in gap' /\ StateOf(world') \in gap'
    BY <1>0, <2>1, <2>3
  <2>5. UnsafeMeansEdited'
    BY <1>0, <2>1 DEF UnsafeMeansEdited
  <2> QED BY <1>1, <2>2, <2>4, <2>5 DEF BlameInv
<1>3. CASE FirstProbe \/ Lstat \/ Looks \/ Reads \/ LstatAgain \/ ProbeAgain
  <2>1. /\ at # "between" /\ UNCHANGED <<world, check, pass, taken, gap>>
    BY <1>3, FirstProbeIs, PathSteps DEF target
  <2>2. spoiled \subseteq spoiled'
    <3>1. CASE FirstProbe
      BY <3>1, FirstProbeIs DEF FirstProbe
    <3>2. CASE Lstat \/ Looks \/ Reads \/ LstatAgain \/ ProbeAgain
      BY <3>2 DEF Lstat, Looks, Reads, LstatAgain, ProbeAgain
    <3> QED BY <1>3, <3>1, <3>2
  <2>3. spoiled' = {} => spoiled = {}
    BY <2>2
  <2> QED BY <1>0, <1>1, <2>1, <2>2, <2>3 DEF BlameInv, UnsafeMeansEdited
<1>4. CASE Accept
  <2>1. PICK agent \in Roles :
          /\ Finish(Verdict(Sample, Baseline, agent), Sample, agent)
          /\ at = "judge" /\ UNCHANGED <<target, check, spoiled>>
    BY <1>4, AcceptIs
  <2>2. spoiled = {} => Sample = StateOf(world)
    BY <2>1, CleanJudged DEF Clean
  <2>3. world' = world /\ at' = "between"
    BY <2>1 DEF target, Finish
  <2>4. CASE check = 1
    <3>1. /\ taken'[1].state = Sample /\ Len(taken') = 1 /\ gap' = {StateOf(world)}
      BY <2>1, <2>4, FinishIs
    <3> QED BY <1>1, <2>1, <2>2, <2>3, <3>1 DEF BlameInv, UnsafeMeansEdited
  <2>5. CASE check = 2
    <3>0. PICK s : s = taken[1].state
      OBVIOUS
    <3>1. /\ taken'[2].status = Verdict(Sample, s, agent) /\ gap' = gap /\ s # NoState
      BY <2>1, <2>5, <3>0, FinishIs, BaselineIs
    <3>2. taken # <<>>
      <4>1. PICK a : a = taken[1]
        OBVIOUS
      <4> QED BY <2>1, <2>5, <4>1, BaselineIs, Tuples
    <3>3. spoiled = {} => s \in gap /\ Sample \in gap
      BY <1>0, <2>1, <2>2, <3>0, <3>2
    <3>4. \A state : Verdict(state, s, agent) = "UNSAFE" => state # s
      BY <3>1 DEF Verdict, Drifted
    <3>5. spoiled = {} /\ Verdict(Sample, s, agent) = "UNSAFE" => Cardinality(gap) > 1
      BY <1>0, <3>3, <3>4, TwoMembers
    <3> QED BY <1>1, <2>1, <2>3, <2>5, <3>1, <3>5 DEF BlameInv, UnsafeMeansEdited
  <2> QED BY <2>1, <2>4, <2>5, BaselineIs
<1>5. CASE Unstable \/ GivesUp
  <2>1. /\ Finish("INDETERMINATE", NoState, "NONE") /\ at # "between" /\ UNCHANGED check
    BY <1>5 DEF Unstable, GivesUp, GiveUp
  <2>2. at' = "between" /\ spoiled' # {}
    <3>1. CASE Unstable
      <4>1. at = "judge" /\ ~Agreed /\ spoiled' = spoiled
        BY <3>1 DEF Unstable
      <4>2. ~Clean
        BY <4>1, CleanJudged
      <4> QED BY <2>1, <4>1, <4>2 DEF Clean, Finish
    <3>2. CASE GivesUp
      BY <3>2 DEF GivesUp, GiveUp, Finish
    <3> QED BY <1>5, <3>1, <3>2
  <2> QED BY <1>1, <2>2 DEF BlameInv, UnsafeMeansEdited
<1>6. CASE Edits
  <2>1. /\ UNCHANGED <<at, check, pass, taken>>
        /\ gap' = IF at = "between" /\ check = 1 THEN gap \cup {StateOf(world')} ELSE gap
        /\ spoiled' = IF at = "between" THEN spoiled ELSE spoiled \cup {<<check, pass>>}
    BY <1>6 DEF Edits, Write, Stage, Commit, Switch, Edit
  <2>2. CASE at # "between"
    <3>1. spoiled' # {} /\ spoiled \subseteq spoiled'
      BY <2>1, <2>2
    <3> QED BY <1>0, <1>1, <2>1, <3>1 DEF BlameInv, UnsafeMeansEdited
  <2>3. CASE at = "between" /\ check = 1
    <3>1. Len(taken) = 1
      <4>1. PICK a : a = taken[1]
        OBVIOUS
      <4> QED BY <2>3, <4>1, Tuples DEF RecordType, Made
    <3> QED BY <1>0, <1>1, <2>1, <2>3, <3>1 DEF BlameInv, UnsafeMeansEdited
  <2>4. CASE at = "between" /\ check # 1
    BY <1>0, <1>1, <2>1, <2>4 DEF BlameInv, UnsafeMeansEdited
  <2> QED BY <2>2, <2>3, <2>4
<1>7. CASE UNCHANGED vars
  BY <1>7 DEF vars, target, sample, BlameInv, UnsafeMeansEdited
<1> QED BY <1>2, <1>3, <1>4, <1>5, <1>6, <1>7, StepsAre

-----------------------------------------------------------------------------
(* Passes with one edit.                                                   *)

(* No path is read twice.                                                  *)
LEMMA OnceStep ==
  ASSUME WorldInv, SampleType, OnceInv, [Next]_vars
  PROVE  OnceInv'
<1>1. CASE Begins \/ FirstProbe
  <2>1. /\ at' \in {"first", "again", "read"}
        /\ entries' = <<>>
    <3>1. CASE Begins
      BY <3>1, BeginsAre
    <3>2. CASE FirstProbe
      BY <3>2, FirstProbeIs DEF SampleType
    <3> QED BY <1>1, <3>1, <3>2
  <2>2. ToSet(entries') = {}
    BY <2>1 DEF ToSet
  <2> QED BY <2>1, <2>2 DEF OnceInv, ReadPaths, Reading
<1>2. CASE Lstat
  <2>1. PICK p \in pending :
          /\ reading' = [path |-> p, before |-> LstatSignature(world, p), entry |-> Missing]
          /\ pending' = pending \ {p}
    BY <1>2 DEF Lstat
  <2>2. ReadPaths' = ReadPaths /\ reading'.path = p
    BY <1>2, <2>1 DEF Lstat, ReadPaths
  <2> QED BY <2>1, <2>2 DEF OnceInv
<1>3. CASE Looks \/ Reads
  <2>1. /\ reading'.path = reading.path /\ pending' = pending /\ entries' = entries /\ Reading
    BY <1>3 DEF Looks, Reads, SampleType, Reading
  <2> QED BY <2>1 DEF OnceInv, ReadPaths
<1>4. CASE LstatAgain
  <2>1. /\ at = "lstat" /\ at' \in {"again", "read"} /\ pending' = pending
        /\ entries' = Append(entries, [path |-> reading.path, entry |-> reading.entry])
    BY <1>4 DEF LstatAgain
  <2>2. /\ [path |-> reading.path, entry |-> reading.entry] \in EntryRecords
        /\ entries \in Seq(EntryRecords)
    BY <2>1 DEF EntryRecords, SampleType, Reading
  <2>3. ToSet(entries') = ToSet(entries) \cup {[path |-> reading.path, entry |-> reading.entry]}
    BY <2>1, <2>2, ToSetAppend
  <2>4. ReadPaths' = ReadPaths \cup {reading.path}
    <3>1. [path |-> reading.path, entry |-> reading.entry].path = reading.path
      OBVIOUS
    <3> QED BY <2>3, <3>1, Zenon DEF ReadPaths
  <2> QED BY <2>1, <2>4 DEF OnceInv, Reading
<1>5. CASE ProbeAgain
  <2>1. at' \in {"again", "judge"} /\ pending' = pending /\ entries' = entries
    BY <1>5, ProbeAgainIs DEF SampleType
  <2> QED BY <2>1 DEF OnceInv, ReadPaths, Reading
<1>6. CASE Ends
  BY <1>6 DEF Ends, OnceInv, ReadPaths, Reading, sample
<1>7. CASE Edits \/ UNCHANGED vars
  BY <1>7, EditStep DEF OnceInv, ReadPaths, Reading, sample, vars
<1> QED BY <1>1, <1>2, <1>3, <1>4, <1>5, <1>6, <1>7, StepsAre, EndsAre

(* What a state tells of its target.                                       *)
LEMMA StateTells ==
  ASSUME NEW v \in Worlds, NEW w \in Worlds, Tidy(v), Tidy(w),
         StateOf(v).head = StateOf(w).head,
         StateOf(v).fingerprint = StateOf(w).fingerprint
  PROVE  /\ v.head = w.head /\ v.index = w.index /\ v.file = w.file
         /\ Tracked(v) = Tracked(w) /\ Untracked(v) = Untracked(w)
         /\ Raw(v).status = Raw(w).status
<1>1. /\ v.head = w.head /\ v.index = w.index
      /\ Tracked(v) = Tracked(w) /\ Untracked(v) = Untracked(w)
      /\ Raw(v).status = Raw(w).status
      /\ StateOf(v).fingerprint.paths = StateOf(w).fingerprint.paths
  BY StateIs
<1>2. ASSUME NEW p \in Paths PROVE v.file[p] = w.file[p]
  <2>1. v.file[p] \in Contents /\ w.file[p] \in Contents
    BY WorldRanks
  <2>2. CASE p \in Tracked(v) \cup Untracked(v)
    <3>1. [path |-> p, entry |-> v.file[p]] \in StateOf(v).fingerprint.paths
      BY <2>2, StateIs
    <3>2. [path |-> p, entry |-> v.file[p]]
            \in {[path |-> q, entry |-> w.file[q]] : q \in Tracked(w) \cup Untracked(w)}
      BY <1>1, <3>1, StateIs
    <3>3. PICK q : [path |-> p, entry |-> v.file[p]] = [path |-> q, entry |-> w.file[q]]
      BY <3>2
    <3> QED BY <3>3
  <2>3. CASE p \notin Tracked(v) \cup Untracked(v)
    <3>1. /\ v.file[p].kind = "missing" /\ w.file[p].kind = "missing"
      BY <1>1, <2>3 DEF Tracked, Untracked, Exists
    <3>2. v.file[p].content = 0 /\ w.file[p].content = 0
      BY <3>1 DEF Tidy
    <3> QED BY <2>1, <3>1, <3>2 DEF Contents
  <2> QED BY <2>2, <2>3
<1>3. v.file = w.file
  BY <1>2 DEF Worlds
<1> QED BY <1>1, <1>3

(* Targets in the same state print the same, and so does one that is only  *)
(* on another branch, up to the branch.                                    *)
LEMMA SameState ==
  ASSUME NEW v \in Worlds, NEW w \in Worlds, Tidy(v), Tidy(w)
  PROVE  /\ ButBranch(StateOf(v), StateOf(w)) =>
              /\ v.file = w.file
              /\ \A k \in 2..6 : Raw(v)[Probes[k]] = Raw(w)[Probes[k]]
         /\ StateOf(v) = StateOf(w) => v.file = w.file /\ Raw(v) = Raw(w)
         /\ Ahead(v, w) => ~ButBranch(StateOf(v), StateOf(w))
<1>1. ASSUME ButBranch(StateOf(v), StateOf(w))
      PROVE  /\ v.head = w.head /\ v.index = w.index /\ v.file = w.file
             /\ Tracked(v) = Tracked(w) /\ Untracked(v) = Untracked(w)
             /\ Raw(v).status = Raw(w).status
  <2>1. /\ StateOf(v).head = StateOf(w).head
        /\ StateOf(v).fingerprint = StateOf(w).fingerprint
    BY <1>1 DEF ButBranch, StateOf, GitState
  <2> QED BY <2>1, StateTells
<1>2. ASSUME ButBranch(StateOf(v), StateOf(w))
      PROVE  \A k \in 2..6 : Raw(v)[Probes[k]] = Raw(w)[Probes[k]]
  <2>1. /\ Raw(v).head = Raw(w).head /\ Raw(v).status = Raw(w).status
        /\ Raw(v).index = Raw(w).index /\ Raw(v).tracked = Raw(w).tracked
        /\ Raw(v).untracked = Raw(w).untracked
    BY <1>1, <1>2 DEF Raw
  <2>2. \A k \in 2..6 : k \in {2, 3, 4, 5, 6}
    OBVIOUS
  <2> QED BY <2>1, <2>2, ProbesAre
<1>3. ASSUME StateOf(v) = StateOf(w) PROVE v.file = w.file /\ Raw(v) = Raw(w)
  <2>1. ButBranch(StateOf(v), StateOf(w))
    BY <1>3 DEF ButBranch, StateOf, GitState
  <2>2. (IF v.detached THEN 0 ELSE v.branch) = (IF w.detached THEN 0 ELSE w.branch)
    <3>1. StateOf(v).branch = StateOf(w).branch
      BY <1>3
    <3>2. /\ StateOf(v).branch = IF v.detached THEN 0 ELSE v.branch
          /\ StateOf(w).branch = IF w.detached THEN 0 ELSE w.branch
      BY StateIs
    <3> QED BY <3>1, <3>2
  <2> QED BY <1>1, <2>1, <2>2 DEF Raw
<1>4. Ahead(v, w) => ~ButBranch(StateOf(v), StateOf(w))
  <2>1. /\ v.head \in Nat
        /\ \A p \in Paths : Rank(v.index[p]) \in Nat /\ Rank(v.file[p].content) \in Nat
    BY WorldRanks DEF Worlds
  <2> QED BY <1>1, <2>1 DEF Ahead
<1> QED BY <1>1, <1>2, <1>3, <1>4

(* Later than later is later, for a whole target.                          *)
LEMMA LaterLater ==
  ASSUME NEW u \in Worlds, NEW v \in Worlds, NEW w \in Worlds, Later(u, v), Later(v, w)
  PROVE  Later(u, w) /\ (Ahead(v, w) => Ahead(u, w))
<1>1. /\ u.head \in Nat /\ v.head \in Nat /\ w.head \in Nat
      /\ u.branch \in Nat /\ v.branch \in Nat /\ w.branch \in Nat
  BY DEF Worlds
<1>2. \A p \in Paths : /\ Rank(u.index[p]) \in Nat /\ Rank(v.index[p]) \in Nat
                       /\ Rank(w.index[p]) \in Nat
                       /\ Rank(v.index[p]) <= Rank(u.index[p])
                       /\ Rank(w.index[p]) <= Rank(v.index[p])
  BY WorldRanks DEF Later
<1>3. \A p \in Paths : /\ u.file[p] \in Contents /\ v.file[p] \in Contents /\ w.file[p] \in Contents
                       /\ Since(u.file[p], v.file[p]) /\ Since(v.file[p], w.file[p])
  BY WorldRanks DEF Later
<1>4. \A p \in Paths :
        /\ Since(u.file[p], w.file[p])
        /\ Rank(v.file[p].content) > Rank(w.file[p].content) =>
             Rank(u.file[p].content) > Rank(w.file[p].content)
  BY <1>3, SinceSince, LaterSince
<1>5. Later(u, w)
  BY <1>1, <1>2, <1>4 DEF Later
<1>6. Ahead(v, w) => Ahead(u, w)
  BY <1>1, <1>2, <1>4, <1>5 DEF Ahead, Later
<1> QED BY <1>5, <1>6

(* What one edit does to the states seen.                                  *)
LEMMA EditKinds ==
  ASSUME WorldInv, Edits
  PROVE  /\ \E p : \A q \in Paths \ {p} : world'.file[q] = world.file[q]
         /\ Ahead(world', world) \/ ButBranch(StateOf(world'), StateOf(world))
         /\ at # "between" => seen' = seen \cup {StateOf(world')}
         /\ Tidy(world) /\ Tidy(world')
<1>1. Tidy(world) /\ Tidy(world')
  BY EditStep DEF WorldInv, Tidy
<1>2. at # "between" => seen' = seen \cup {StateOf(world')}
  BY DEF Edits, Write, Stage, Commit, Switch, Edit
<1>3. Moved(world', world) /\ world \in Worlds /\ world.branch \in Nat
  BY EditStep DEF WorldInv, Worlds
<1>4. CASE Write
  <2>1. PICK p \in Paths, f \in {Regular(Fresh), Special(Fresh), Missing} :
          world' = [world EXCEPT !.file[p] = f]
    BY <1>4 DEF Write, Edit
  <2>2. /\ world'.file = [world.file EXCEPT ![p] = f] /\ world'.branch = world.branch
        /\ world'.head = world.head /\ world'.index = world.index
    BY <1>3, <2>1 DEF Worlds
  <2>3. \A q \in Paths \ {p} : world'.file[q] = world.file[q]
    BY <1>3, <2>2 DEF Worlds
  <2>4. Ahead(world', world)
    BY <1>3, <2>2 DEF Moved, Ahead
  <2> QED BY <1>1, <1>2, <2>3, <2>4
<1>5. CASE Stage \/ Commit
  <2>1. world'.file = world.file /\ world'.branch = world.branch
    BY <1>3, <1>5 DEF Stage, Commit, Edit, Worlds
  <2>2. Ahead(world', world)
    BY <1>3, <2>1 DEF Moved, Ahead
  <2> QED BY <1>1, <1>2, <2>1, <2>2
<1>6. CASE Switch
  <2>1. PICK d \in BOOLEAN, h \in {world.head, Fresh} :
          world' = [world EXCEPT !.branch = Fresh, !.detached = d, !.head = h]
    BY <1>6 DEF Switch, Edit
  <2>2. /\ world'.file = world.file /\ world'.index = world.index /\ world'.tree = world.tree
        /\ world'.head = h
    BY <1>3, <2>1 DEF Worlds
  <2>3. CASE h = world.head
    <3>1. Tracked(world') = Tracked(world) /\ Untracked(world') = Untracked(world)
      BY <2>2 DEF Tracked, Untracked, Exists
    <3>2. Raw(world').status = Raw(world).status
      BY <2>2, <3>1 DEF Raw, StatusLine, Exists
    <3>3. /\ StateOf(world').head = StateOf(world).head
          /\ StateOf(world').fingerprint = StateOf(world).fingerprint
      <4>1. \A w : StateOf(w).fingerprint =
              [status |-> Raw(w).status, index |-> w.index, tracked |-> Tracked(w),
               untracked |-> Untracked(w),
               paths |-> {[path |-> p, entry |-> w.file[p]] : p \in Tracked(w) \cup Untracked(w)}]
        BY DEF StateOf, GitState, Raw
      <4>2. /\ world'.head = world.head /\ world'.index = world.index
            /\ world'.file = world.file
        BY <2>2, <2>3
      <4>3. {[path |-> p, entry |-> world'.file[p]] : p \in Tracked(world') \cup Untracked(world')}
              = {[path |-> p, entry |-> world.file[p]] : p \in Tracked(world) \cup Untracked(world)}
        BY <3>1, <4>2
      <4>4. StateOf(world').fingerprint = StateOf(world).fingerprint
        BY <3>1, <3>2, <4>1, <4>2, <4>3
      <4> QED BY <4>2, <4>4, StateIs
    <3>4. ButBranch(StateOf(world'), StateOf(world))
      <4>1. \A w : StateOf(w) = [branch |-> StateOf(w).branch, head |-> StateOf(w).head,
                                 fingerprint |-> StateOf(w).fingerprint]
        BY DEF StateOf, GitState
      <4> QED BY <3>3, <4>1 DEF ButBranch
    <3> QED BY <1>1, <1>2, <2>2, <3>4
  <2>4. CASE h # world.head
    <3>1. h = edits + 2
      BY <2>4 DEF Fresh
    <3>2. Ahead(world', world)
      BY <2>2, <3>1 DEF WorldInv, Worlds, Ahead
    <3> QED BY <1>1, <1>2, <2>2, <3>2
  <2> QED BY <2>3, <2>4
<1> QED BY <1>4, <1>5, <1>6 DEF Edits

(* A sample nothing disturbed.                                             *)
LEMMA UndisturbedSample ==
  ASSUME SampleType, ReadInv, at \in {"again", "judge"}, Undisturbed
  PROVE  Sample \in seen
<1>1. \A k \in 1..6 : Seen(k)
  BY DEF Seen
<1>2. PICK g \in seen : g.branch = first.branch
  BY <1>1 DEF Undisturbed
<1>3. g = [StateOf(world) EXCEPT !.branch = first.branch]
  BY <1>2 DEF Undisturbed, ButBranch
<1>4. Sample = [StateOf(world) EXCEPT !.branch = first.branch]
  BY <1>1, WholeSample DEF Undisturbed, ReadNow
<1> QED BY <1>3, <1>4

(* A sample of a target that was edited once.                              *)
LEMMA DisturbedSample ==
  ASSUME SampleType, ReadInv, at = "judge", Agreed, NEW w, Disturbed(w)
  PROVE  Sample \in seen
<1>1. /\ \A k \in 1..6 : SeenAgain(k)
      /\ stable /\ first = again /\ \A k \in 2..6 : k \in 1..6
  BY DEF SeenAgain, Agreed
<1>2. AgainNow => first = Raw(world)
  BY <1>1, AllProbes DEF AgainNow, SampleType
<1>3. CASE Early
  <2>1. Sample = StateOf(world)
    BY <1>2, <1>3, WholeSample DEF Early, ReadNow
  <2> QED BY <2>1 DEF Disturbed
<1>4. CASE Midway(w)
  <2>1. first = Raw(world) /\ first = Raw(w)
    BY <1>2, <1>4 DEF Midway
  <2>2. \/ \A x \in ToSet(entries) : x.entry = world.file[x.path]
        \/ \A x \in ToSet(entries) : x.entry = w.file[x.path]
    BY <1>1, <1>4 DEF Midway
  <2>3. Sample = StateOf(world) \/ Sample = StateOf(w)
    BY <2>1, <2>2, WholeSample
  <2> QED BY <2>3 DEF Disturbed
<1>5. CASE LateEdit(w)
  BY <1>5 DEF LateEdit, Disturbed
<1> QED BY <1>3, <1>4, <1>5 DEF Disturbed

(* Edits of what was seen.                                                 *)
LEMMA RealEdit ==
  ASSUME WorldInv, SampleType, ReadInv, RealInv, Edits, at # "between"
  PROVE  Undisturbed' \/ Many' \/ \E w \in Worlds : Disturbed(w)'
<1>0. /\ Later(world', world) /\ Tidy(world) /\ Tidy(world')
      /\ world \in Worlds /\ world' \in Worlds
      /\ UNCHANGED <<at, probe, first, again, pending, reading, entries, stable>>
      /\ seen' = seen \cup {StateOf(world')} /\ StateOf(world) \in seen
  BY EditStep, EditKinds DEF sample, WorldInv, RealInv
<1>1. \A k \in 1..6 : (Seen(k)' <=> Seen(k)) /\ (SeenAgain(k)' <=> SeenAgain(k))
  BY <1>0 DEF Seen, SeenAgain
<1>2. world'.file = world.file => (ReadNow' <=> ReadNow)
  BY <1>0 DEF ReadNow, Reading
<1>3. Raw(world') = Raw(world) => (AgainNow' <=> AgainNow)
  BY <1>0, <1>1 DEF AgainNow
<1>4. CASE Many
  BY <1>0, <1>4 DEF Many
<1>5. ASSUME NEW w \in Worlds, Disturbed(w) PROVE Many' \/ Disturbed(w)'
  <2>1. /\ Tidy(w) /\ Later(world, w) /\ Ahead(world, w)
        /\ seen = {StateOf(w), StateOf(world)}
    BY <1>5 DEF Disturbed
  <2>2. Later(world', w) /\ Ahead(world', w)
    BY <1>0, <2>1, LaterLater
  <2>3. StateOf(world) # StateOf(w) /\ StateOf(world') # StateOf(w)
    <3>1. \A v : ButBranch(StateOf(v), StateOf(v))
      BY DEF ButBranch, StateOf, GitState
    <3>2. ~ButBranch(StateOf(world), StateOf(w)) /\ ~ButBranch(StateOf(world'), StateOf(w))
      BY <1>0, <2>1, <2>2, SameState
    <3> QED BY <3>1, <3>2
  <2>4. CASE StateOf(world') # StateOf(world)
    BY <1>0, <2>1, <2>3, <2>4 DEF Many
  <2>5. CASE StateOf(world') = StateOf(world)
    <3>1. world'.file = world.file /\ Raw(world') = Raw(world)
      BY <1>0, <2>5, SameState
    <3>2. seen' = {StateOf(w), StateOf(world')}
      BY <1>0, <2>1, <2>5
    <3>3. Early => Early'
      BY <1>2, <1>3, <3>1 DEF Early
    <3>4. Midway(w) => Midway(w)'
      BY <1>0, <1>3, <3>1 DEF Midway
    <3>5. LateEdit(w) => LateEdit(w)'
      BY <1>0 DEF LateEdit, Sample, Digest, GitState
    <3> QED BY <1>5, <2>1, <2>2, <3>2, <3>3, <3>4, <3>5 DEF Disturbed
  <2> QED BY <2>4, <2>5
<1>6. CASE Undisturbed /\ ButBranch(StateOf(world'), StateOf(world))
  <2>1. /\ world'.file = world.file
        /\ \A k \in 2..6 : Raw(world')[Probes[k]] = Raw(world)[Probes[k]]
    BY <1>0, <1>6, SameState
  <2>2. \A g \in seen' : ButBranch(g, StateOf(world'))
    <3>1. ASSUME NEW g, ButBranch(g, StateOf(world)) PROVE ButBranch(g, StateOf(world'))
      <4>1. StateOf(world') = [StateOf(world) EXCEPT !.branch = StateOf(world').branch]
        BY <1>6 DEF ButBranch
      <4>2. g = [StateOf(world) EXCEPT !.branch = g.branch]
        BY <3>1 DEF ButBranch
      <4> QED BY <4>1, <4>2 DEF ButBranch, StateOf, GitState
    <3>2. ButBranch(StateOf(world'), StateOf(world'))
      BY DEF ButBranch, StateOf, GitState
    <3> QED BY <1>0, <1>6, <3>1, <3>2 DEF Undisturbed
  <2>3. \A k \in 2..6 : k \in 1..6
    OBVIOUS
  <2> QED BY <1>0, <1>1, <1>2, <1>6, <2>1, <2>2, <2>3 DEF Undisturbed
<1>7. CASE Undisturbed /\ ~ButBranch(StateOf(world'), StateOf(world))
  <2>1. Ahead(world', world)
    BY <1>7, EditKinds
  <2>2. StateOf(world') \notin seen
    <3>1. \A g \in seen : ButBranch(g, StateOf(world))
      BY <1>7 DEF Undisturbed
    <3> QED BY <1>7, <3>1
  <2>3. CASE \E g \in seen : g # StateOf(world)
    BY <1>0, <2>2, <2>3 DEF Many
  <2>4. CASE seen = {StateOf(world)}
    <3>0. PICK w : w = world
      OBVIOUS
    <3>1. /\ seen' = {StateOf(w), StateOf(world')} /\ Tidy(w) /\ w \in Worlds
          /\ Later(world', w) /\ Ahead(world', w)
      BY <1>0, <2>1, <2>4, <3>0
    <3>2. Early' \/ Midway(w)' \/ LateEdit(w)'
      <4>1. CASE at = "first"
        <5>1. ToSet(entries) = {} /\ \A k \in 1..6 : ~SeenAgain(k)
          BY <4>1 DEF SampleType, ToSet, SeenAgain
        <5> QED BY <1>0, <1>1, <4>1, <5>1 DEF Early, AgainNow, ReadNow, Reading
      <4>2. CASE at # "first"
        <5>1. \A k \in 1..6 : Seen(k)
          BY <1>0, <4>2 DEF Seen, RealInv
        <5>2. first = Raw(w)
          <6>1. first[Probes[1]] = Raw(world)[Probes[1]]
            BY <1>7, <2>4, <5>1, ProbesAre, RawIs, StateIs DEF Undisturbed
          <6>2. \A k \in 1..6 : k = 1 \/ k \in 2..6
            OBVIOUS
          <6>3. \A k \in 1..6 : first[Probes[k]] = Raw(world)[Probes[k]]
            BY <1>7, <5>1, <6>1, <6>2 DEF Undisturbed
          <6> QED BY <3>0, <6>3, AllProbes DEF SampleType
        <5>3. \A x \in ToSet(entries) : x.entry = w.file[x.path]
          BY <1>7, <3>0 DEF Undisturbed, ReadNow
        <5>4. CASE at \in {"again", "judge"}
          <6>1. Sample = StateOf(w)
            BY <3>0, <5>2, <5>3, <5>4, WholeSample
          <6> QED BY <1>0, <5>4, <6>1 DEF LateEdit, Sample, Digest, GitState
        <5>5. CASE at \notin {"again", "judge"}
          <6>1. \A k \in 1..6 : ~SeenAgain(k)
            BY <5>5 DEF SeenAgain
          <6>2. PICK p : \A q \in Paths \ {p} : world'.file[q] = w.file[q]
            BY <3>0, EditKinds
          <6> QED BY <1>0, <1>1, <4>2, <5>2, <5>3, <6>1, <6>2 DEF Midway, AgainNow
        <5> QED BY <5>4, <5>5
      <4> QED BY <4>1, <4>2
    <3> QED BY <3>1, <3>2 DEF Disturbed
  <2> QED BY <1>0, <2>3, <2>4
<1> QED BY <1>4, <1>5, <1>6, <1>7 DEF RealInv

(* Steps of the program keep what was seen.                                *)
LEMMA RealPath ==
  ASSUME WorldInv, SampleType, ReadInv, OnceInv, RealInv,
         Lstat \/ Looks \/ Reads \/ LstatAgain \/ ProbeAgain
  PROVE  Undisturbed' \/ Many' \/ \E w \in Worlds : Disturbed(w)'
<1>0. /\ at \notin {"between", "first"} /\ at' \notin {"between", "first"}
      /\ world' = world /\ first' = first /\ seen' = seen
  BY PathSteps DEF target, Lstat, Looks, Reads, LstatAgain, ProbeAgain
<1>1. \A k \in 1..6 : Seen(k) /\ Seen(k)'
  BY <1>0 DEF Seen
<1>2. AgainNow => AgainNow'
  <2>1. CASE Lstat \/ Looks \/ Reads
    BY <2>1 DEF Lstat, Looks, Reads, AgainNow, SeenAgain
  <2>2. CASE LstatAgain
    BY <2>2 DEF LstatAgain, SampleType, AgainNow, SeenAgain
  <2>3. CASE ProbeAgain
    BY <1>0, <2>3, AgainIs DEF AgainNow, SampleType
  <2> QED BY <2>1, <2>2, <2>3
<1>3. CASE Undisturbed
  <2>1. \A k \in 2..6 : k \in 1..6
    OBVIOUS
  <2> QED BY <1>0, <1>1, <1>3, <2>1, ReadNowStep DEF Undisturbed
<1>4. CASE Many
  BY <1>0, <1>4 DEF Many
<1>5. ASSUME NEW w \in Worlds, Disturbed(w) PROVE Disturbed(w)'
  <2>1. Early => Early'
    BY <1>2, ReadNowStep DEF Early
  <2>2. ASSUME Midway(w) PROVE Midway(w)'
    <3>1. PICK p : \A q \in Paths \ {p} : world.file[q] = w.file[q]
      BY <2>2 DEF Midway
    <3>2. CASE Lstat \/ Looks \/ Reads \/ ProbeAgain
      <4>1. entries' = entries /\ stable' = stable
        BY <3>2 DEF Lstat, Looks, Reads, ProbeAgain
      <4> QED BY <1>0, <1>2, <2>2, <4>1 DEF Midway
    <3>3. CASE LstatAgain
      <4>1. /\ at = "lstat" /\ reading.path \in Paths
            /\ entries' = Append(entries, [path |-> reading.path, entry |-> reading.entry])
            /\ [path |-> reading.path, entry |-> reading.entry] \in EntryRecords
            /\ stable' => stable
            /\ reading.path \notin ReadPaths
        BY <3>3 DEF LstatAgain, SampleType, Reading, EntryRecords, OnceInv
      <4>2. ToSet(entries') =
              ToSet(entries) \cup {[path |-> reading.path, entry |-> reading.entry]}
        BY <4>1, ToSetAppend DEF SampleType
      <4>3. stable' => reading.entry = world.file[reading.path]
        BY <3>3, ReadIsBracketed
      <4>4. \A x \in ToSet(entries) : x.path \in Paths /\ x.path # reading.path
        <5>1. \A x \in ToSet(entries) : x \in EntryRecords
          BY EntriesAre DEF SampleType
        <5> QED BY <4>1, <5>1 DEF EntryRecords, ReadPaths
      <4>5. ASSUME stable'
            PROVE  \E file \in {w.file, world.file} :
                     \A x \in ToSet(entries') : x.entry = file[x.path]
        <5>1. PICK file \in {w.file, world.file} :
                \A x \in ToSet(entries) : x.entry = file[x.path]
          BY <2>2, <4>1, <4>5 DEF Midway
        <5>2. CASE reading.path = p
          <6>1. \A x \in ToSet(entries) : x.entry = world.file[x.path]
            BY <3>1, <4>4, <5>1, <5>2
          <6> QED BY <4>2, <4>3, <4>5, <6>1
        <5>3. CASE reading.path # p
          <6>1. world.file[reading.path] = file[reading.path]
            BY <3>1, <4>1, <5>1, <5>3
          <6> QED BY <4>2, <4>3, <4>5, <5>1, <6>1
        <5> QED BY <5>2, <5>3
      <4> QED BY <1>0, <1>2, <2>2, <4>5 DEF Midway
    <3> QED BY <3>2, <3>3
  <2>3. ASSUME LateEdit(w) PROVE LateEdit(w)'
    <3>1. ProbeAgain
      BY <2>3 DEF LateEdit, Lstat, Looks, Reads, LstatAgain
    <3>2. at' \in {"again", "judge"} /\ entries' = entries
      BY <3>1, ProbeAgainIs DEF SampleType
    <3> QED BY <1>0, <2>3, <3>2 DEF LateEdit, Sample, Digest, GitState
  <2> QED BY <1>0, <1>5, <2>1, <2>2, <2>3 DEF Disturbed
<1> QED BY <1>0, <1>3, <1>4, <1>5 DEF RealInv

(* The states of a pass, and a sample that holds none but theirs.          *)
LEMMA RealStep ==
  ASSUME WorldInv, SampleType, ReadInv, OnceInv, RealInv, [Next]_vars
  PROVE  RealInv'
<1>1. CASE Begins
  <2>1. /\ world' = world /\ at' = "first" /\ probe' = 1 /\ entries' = <<>>
        /\ seen' = {StateOf(world)}
    BY <1>1, BeginsAre DEF target, Begins, StartCheck, Retry, StartPass
  <2>2. ToSet(entries') = {} /\ \A k \in 1..6 : ~Seen(k)'
    BY <2>1 DEF ToSet, Seen
  <2>3. ButBranch(StateOf(world), StateOf(world))
    BY DEF ButBranch, StateOf, GitState
  <2>4. \A k \in 2..6 : k \in 1..6
    OBVIOUS
  <2>5. Undisturbed'
    BY <2>1, <2>2, <2>3, <2>4 DEF Undisturbed, ReadNow, Reading
  <2>6. IsFiniteSet(seen')
    BY <2>1, FS_Singleton
  <2> QED BY <2>1, <2>5, <2>6 DEF RealInv
<1>2. CASE FirstProbe
  <2>1. /\ at = "first" /\ at' \in {"first", "again", "read"} /\ probe \in 1..6
        /\ UNCHANGED <<world, seen>> /\ ToSet(entries') = {}
    BY <1>2, FirstProbeIs DEF target, SampleType, ToSet, FirstProbe
  <2>2. ReadNow'
    BY <2>1 DEF ReadNow, Reading
  <2>3. StateOf(world) \in seen /\ IsFiniteSet(seen)
    BY <2>1 DEF RealInv
  <2>4. CASE Undisturbed
    <3>1. \A k \in 2..6 : k \in 1..6
      OBVIOUS
    <3>2. \A k \in 2..6 : Seen(k)' => first'[Probes[k]] = Raw(world)[Probes[k]]
      BY <1>2, <2>1, <2>4, <3>1, SeenIs, FirstIs DEF Undisturbed
    <3>3. \E g \in seen : g.branch = first'.branch
      <4>1. CASE probe = 1
        <5>1. first'.branch = StateOf(world).branch
          BY <1>2, <4>1, FirstIs, ProbesAre, RawIs, StateIs
        <5> QED BY <2>3, <5>1
      <4>2. CASE probe # 1
        <5>1. first'.branch = first.branch /\ Seen(1)
          BY <1>2, <2>1, <4>2, FirstIs, SeenIs, ProbesAre
        <5> QED BY <2>4, <5>1 DEF Undisturbed
      <4> QED BY <4>1, <4>2
    <3>4. Undisturbed'
      BY <2>1, <2>2, <2>4, <3>2, <3>3 DEF Undisturbed
    <3> QED BY <2>1, <2>3, <3>4 DEF RealInv
  <2>5. CASE Many
    BY <2>1, <2>3, <2>5 DEF RealInv, Many
  <2>6. ASSUME NEW w \in Worlds, Disturbed(w) PROVE Disturbed(w)'
    <3>1. AgainNow'
      BY <1>2, SeenIs DEF AgainNow
    <3> QED BY <2>1, <2>2, <2>6, <3>1 DEF Disturbed, Early
  <2> QED BY <2>1, <2>3, <2>4, <2>5, <2>6 DEF RealInv
<1>3. CASE Lstat \/ Looks \/ Reads \/ LstatAgain \/ ProbeAgain
  <2>1. at # "between" /\ world' = world /\ seen' = seen
    BY <1>3, PathSteps DEF target, Lstat, Looks, Reads, LstatAgain, ProbeAgain
  <2> QED BY <1>3, <2>1, RealPath DEF RealInv
<1>4. CASE Ends
  BY <1>4 DEF Ends, RealInv
<1>5. CASE Edits
  <2>1. UNCHANGED at
    BY <1>5, EditStep
  <2>2. CASE at = "between"
    BY <2>1, <2>2 DEF RealInv
  <2>3. CASE at # "between"
    <3>1. seen' = seen \cup {StateOf(world')} /\ IsFiniteSet(seen)
      BY <1>5, <2>3, EditKinds DEF RealInv
    <3>2. \A x : IsFiniteSet(seen \cup {x})
      BY <3>1, FS_AddElement, Zenon
    <3>3. IsFiniteSet(seen')
      BY <3>1, <3>2
    <3> QED BY <1>5, <2>3, <3>1, <3>3, RealEdit DEF RealInv
  <2> QED BY <2>2, <2>3
<1>6. CASE UNCHANGED vars
  BY <1>6 DEF RealInv, Undisturbed, Many, Disturbed, Early, Midway, LateEdit, AgainNow, ReadNow,
     Seen, SeenAgain, Reading, Sample, Digest, GitState, vars, target, sample
<1> QED BY <1>1, <1>2, <1>3, <1>4, <1>5, <1>6, StepsAre, EndsAre

(* Three members are more than two.                                        *)
LEMMA ThreeMembers ==
  ASSUME NEW S, IsFiniteSet(S), NEW a \in S, NEW b \in S, NEW c \in S, a # b, b # c, a # c
  PROVE  Cardinality(S) > 2
<1>1. IsFiniteSet(S \ {c}) /\ Cardinality(S \ {c}) = Cardinality(S) - 1
  BY FS_RemoveElement, Zenon
<1>2. a \in S \ {c} /\ b \in S \ {c}
  OBVIOUS
<1>3. Cardinality(S \ {c}) > 1
  BY <1>1, <1>2, TwoMembers, Zenon
<1>4. Cardinality(S) \in Nat
  BY FS_CardinalityType
<1> QED BY <1>1, <1>3, <1>4

(* An accepted sample of at most two states is one of them.                *)
LEMMA RealSample ==
  ASSUME SampleType, ReadInv, RealInv, at = "judge", Agreed, Cardinality(seen) <= 2
  PROVE  Sample \in seen
<1>1. IsFiniteSet(seen) /\ Cardinality(seen) \in Nat
  BY FS_CardinalityType DEF RealInv
<1>2. ~Many
  BY <1>1, ThreeMembers DEF Many
<1> QED BY <1>2, UndisturbedSample, DisturbedSample DEF RealInv
-----------------------------------------------------------------------------
(* The theorems.                                                           *)

SamplingInv ==
  /\ WorldInv /\ SampleType /\ ProbedInv /\ ReadInv /\ StatusInv
  /\ RecordType /\ GapInv /\ CleanInv /\ BlameInv /\ OnceInv /\ RealInv

(* It holds at first.                                                      *)
LEMMA SamplingStarts == Init => SamplingInv
<1> SUFFICES ASSUME Init PROVE SamplingInv
  OBVIOUS
<1>1. /\ edits = 0 /\ at = "between" /\ check = 0 /\ pass = 1 /\ probe = 1
      /\ first = Unprobed /\ again = Unprobed /\ pending = {} /\ entries = <<>>
      /\ stable = TRUE /\ taken = <<>> /\ gap = {} /\ spoiled = {}
  BY DEF Init
<1>2. PICK tree \in [Paths -> {0, 1}] :
        world = [branch |-> 1, detached |-> FALSE, head |-> 1, tree |-> tree, index |-> tree,
                 file |-> [p \in Paths |-> IF tree[p] = 0 THEN Missing ELSE Regular(1)]]
  BY DEF Init, CleanWorlds
<1>3. /\ world.branch = 1 /\ world.head = 1
      /\ \A p \in Paths : /\ world.index[p] = tree[p] /\ tree[p] \in {0, 1}
                          /\ world.file[p] = IF tree[p] = 0 THEN Missing ELSE Regular(1)
  BY <1>2
<1>4. world \in Worlds
  <2>1. /\ tree \in [Paths -> Nat]
        /\ [p \in Paths |-> IF tree[p] = 0 THEN Missing ELSE Regular(1)] \in [Paths -> Contents]
    BY DEF Missing, Regular, Contents
  <2> QED BY <1>2, <2>1 DEF Worlds
<1>5. WorldInv
  <2>1. \A p \in Paths : /\ world.file[p].content <= 1
                         /\ world.file[p].kind = "missing" <=> world.file[p].content = 0
                         /\ world.index[p] = world.file[p].content
                         /\ Rank(world.index[p]) \in Nat
    BY <1>3, RankIs DEF Missing, Regular
  <2>2. \A p \in Paths : Rank(world.index[p]) <= Rank(world.file[p].content)
    BY <2>1
  <2> QED BY <1>1, <1>3, <1>4, <2>1, <2>2 DEF WorldInv
<1>6. SampleType
  <2>1. first = [k \in Fields |-> first[k]] /\ again = [k \in Fields |-> again[k]]
    BY <1>1, ProbesAre DEF Unprobed
  <2> QED BY <1>1, <2>1 DEF SampleType, Reading
<1>7. ToSet(entries) = {}
  BY <1>1 DEF ToSet
<1>8. ProbedInv /\ ReadInv /\ StatusInv
  BY <1>1, <1>7 DEF ProbedInv, Seen, ReadInv, Reading, StatusInv, SeenAgain
<1>9. Len(taken) = 0
  BY <1>1
<1>10. RecordType /\ GapInv
  BY <1>1, <1>9 DEF RecordType, Made, GapInv, AgreementFramesTheGap
<1>11. CleanInv /\ BlameInv
  BY <1>1, <1>9, FS_EmptySet DEF CleanInv, BlameInv, UnsafeMeansEdited
<1>12. OnceInv /\ RealInv
  BY <1>1, <1>7 DEF OnceInv, ReadPaths, Reading, RealInv
<1> QED BY <1>5, <1>6, <1>8, <1>10, <1>11, <1>12 DEF SamplingInv

(* No step breaks it.                                                      *)
LEMMA SamplingGoesOn == SamplingInv /\ [Next]_vars => SamplingInv'
<1> SUFFICES ASSUME SamplingInv, [Next]_vars PROVE SamplingInv'
  OBVIOUS
<1> USE DEF SamplingInv
<1>1. WorldInv' /\ SampleType' /\ ProbedInv' /\ ReadInv'
  BY WorldStep, TypeStep, ProbedStep, ReadStep
<1>2. StatusInv' /\ RecordType' /\ GapInv'
  BY StatusStep, RecordStep, GapStep
<1>3. CleanInv' /\ BlameInv'
  BY CleanStep, BlameStep
<1>4. OnceInv' /\ RealInv'
  BY OnceStep, RealStep
<1> QED BY <1>1, <1>2, <1>3, <1>4

(* The invariant of two checks of a moving target: what they saw of it is  *)
(* still so or gone for good (ProbedInv, ReadInv, StatusInv), what is gone *)
(* shows in the second check wherever it has looked (GapInv), a pass that  *)
(* nothing disturbed saw the target as it is (CleanInv), and one that was  *)
(* edited once is made of what it was before and after (RealInv).          *)
THEOREM Sampled == Spec => []SamplingInv
<1>1. Init => SamplingInv
  BY SamplingStarts
<1>2. SamplingInv /\ [Next]_vars => SamplingInv'
  BY SamplingGoesOn
<1> QED BY <1>1, <1>2, PTL DEF Spec

(* check_git_state against a baseline: two SAFE checks mean that in between*)
(* the target was always what the first one recorded, for the coder up to  *)
(* branch and HEAD, whoever edited it and whenever.                        *)
THEOREM Framed == Spec => []AgreementFramesTheGap
<1>1. SamplingInv => AgreementFramesTheGap
  BY DEF SamplingInv, GapInv
<1> QED BY <1>1, Sampled, PTL

(* check_git_state: UNSAFE only after an edit that came later than the     *)
(* beginning of the check it compares with.                                *)
THEOREM BlameHasAnEdit == Spec => []UnsafeMeansEdited
<1>1. SamplingInv => UnsafeMeansEdited
  BY DEF SamplingInv, BlameInv
<1> QED BY <1>1, Sampled, PTL

(* No more than two records.                                               *)
LEMMA RecordsAre ==
  ASSUME SampleType, RecordType PROVE Len(taken) \in {0, 1, 2}
<1>1. PICK a, b : a = taken[1] /\ b = taken[2]
  OBVIOUS
<1>2. taken = <<>> \/ taken = <<a>> \/ taken = <<a, b>>
  BY <1>1 DEF SampleType, RecordType, Made
<1> QED BY <1>2, Tuples

Caused ==
  Ended /\ Record.status = "INDETERMINATE" =>
    \/ check = 1 /\ Record.state # NoState /\ Record.state.branch = 0
    \/ \A n \in 1..pass : <<check, n>> \in spoiled'

(* Every end of a check has its cause.                                     *)
LEMMA CauseStep == ASSUME SamplingInv, [Next]_vars PROVE Caused
<1> USE DEF SamplingInv
<1>0. check \in 0..2 /\ pass \in 1..2
  BY DEF SampleType
<1>1. CASE Accept
  <2>1. PICK agent \in Roles :
          /\ Finish(Verdict(Sample, Baseline, agent), Sample, agent) /\ at = "judge"
    BY <1>1, AcceptIs
  <2>2. CASE check = 1
    <3>1. PICK r : r = GitCheckRecord(Verdict(Sample, Baseline, agent), Sample, agent)
      OBVIOUS
    <3>2. taken' = <<r>> /\ r.status = Verdict(Sample, Baseline, agent) /\ r.state = Sample
      BY <2>1, <2>2, <3>1, FinishIs
    <3>3. Record = r
      BY <3>2, Tuples DEF Record
    <3>4. Sample # NoState
      BY <2>1, SampleIs DEF ProbedInv, Seen, NoState
    <3>5. r.status = "INDETERMINATE" => Sample.branch = 0
      BY <2>1, <2>2, <3>2, BaselineIs DEF Verdict
    <3> QED BY <2>2, <3>2, <3>3, <3>4, <3>5 DEF Caused
  <2>3. CASE check = 2
    <3>1. PICK r : r = GitCheckRecord(Verdict(Sample, Baseline, agent), Sample, agent)
      OBVIOUS
    <3>2. PICK a : a = taken[1]
      OBVIOUS
    <3>3. taken' = <<a, r>> /\ r.status = Verdict(Sample, Baseline, agent)
      BY <2>1, <2>3, <3>1, <3>2, FinishIs
    <3>4. Record = r
      BY <3>3, Tuples DEF Record
    <3>5. Verdict(Sample, Baseline, agent) # "INDETERMINATE"
      BY <2>1, <2>3, BaselineIs DEF Verdict
    <3> QED BY <3>3, <3>4, <3>5 DEF Caused
  <2> QED BY <2>1, <2>2, <2>3, BaselineIs
<1>2. CASE Unstable \/ GivesUp
  <2>1. /\ <<check, pass>> \in spoiled' /\ spoiled \subseteq spoiled' /\ at # "between"
    <3>1. CASE Unstable
      <4>1. at = "judge" /\ ~Agreed /\ spoiled' = spoiled
        BY <3>1 DEF Unstable
      <4> QED BY <4>1, CleanJudged DEF Clean
    <3>2. CASE GivesUp
      BY <3>2 DEF GivesUp, GiveUp
    <3> QED BY <1>2, <3>1, <3>2
  <2>2. pass = 2 => <<check, 1>> \in spoiled
    BY <2>1 DEF BlameInv
  <2>3. \A n \in 1..pass : n = pass \/ (n = 1 /\ pass = 2)
    BY <1>0
  <2> QED BY <2>1, <2>2, <2>3 DEF Caused
<1>3. ASSUME taken' = taken PROVE Caused
  BY <1>3, RecordsAre DEF Caused, Ended
<1>4. CASE Begins \/ FirstProbe \/ Lstat \/ Looks \/ Reads \/ LstatAgain \/ ProbeAgain
  BY <1>3, <1>4, BeginsAre, FirstProbeIs, PathSteps
<1>5. CASE Edits \/ UNCHANGED vars
  BY <1>3, <1>5, EditStep DEF vars
<1> QED BY <1>1, <1>2, <1>4, <1>5, StepsAre

(* check_git_state fails closed for a cause only: every pass of the check  *)
(* was disturbed, or HEAD was detached when the baseline was taken.        *)
THEOREM FailuresHaveACause == Spec => IndeterminateHasACause
<1>1. SamplingInv /\ [Next]_vars => [Caused]_vars
  BY CauseStep
<1> QED BY <1>1, Sampled, PTL DEF Spec, IndeterminateHasACause, Caused

Real ==
  Ended /\ Record.state # NoState /\ Cardinality(seen) <= 2 => Record.state \in seen

(* A check that ends with a state has accepted a sample.                   *)
LEMMA AcceptedStep == ASSUME SamplingInv, [Next]_vars PROVE Real
<1> USE DEF SamplingInv
<1>0. check \in 0..2
  BY DEF SampleType
<1>1. ASSUME NEW status, NEW state, NEW agent, at # "between", Finish(status, state, agent)
      PROVE  Record.state = state
  <2>1. PICK r : r = GitCheckRecord(status, state, agent)
    OBVIOUS
  <2>2. PICK a : a = taken[1]
    OBVIOUS
  <2>3. r.state = state /\ (taken' = <<r>> \/ taken' = <<a, r>>)
    BY <1>1, <2>1, <2>2, FinishIs, BaselineIs
  <2>4. Record = r
    <3>1. Last(<<r>>) = r /\ Last(<<a, r>>) = r
      BY Tuples
    <3>2. Last(taken') = r
      BY <2>3, <3>1
    <3> QED BY <3>2 DEF Record
  <2> QED BY <2>3, <2>4
<1>2. CASE Accept
  <2>1. PICK agent \in Roles :
          /\ Finish(Verdict(Sample, Baseline, agent), Sample, agent)
          /\ at = "judge" /\ Agreed
    BY <1>2, AcceptIs
  <2>2. Record.state = Sample
    BY <1>1, <2>1
  <2>3. Cardinality(seen) <= 2 => Sample \in seen
    BY <2>1, RealSample
  <2> QED BY <2>2, <2>3 DEF Real
<1>3. CASE Unstable \/ GivesUp
  <2>1. Finish("INDETERMINATE", NoState, "NONE") /\ at # "between"
    BY <1>3 DEF Unstable, GivesUp, GiveUp
  <2>2. Record.state = NoState
    BY <1>1, <2>1
  <2> QED BY <2>2 DEF Real
<1>4. ASSUME taken' = taken PROVE Real
  BY <1>4, RecordsAre DEF Real, Ended
<1>5. CASE Begins \/ FirstProbe \/ Lstat \/ Looks \/ Reads \/ LstatAgain \/ ProbeAgain
  BY <1>4, <1>5, BeginsAre, FirstProbeIs, PathSteps
<1>6. CASE Edits \/ UNCHANGED vars
  BY <1>4, <1>6, EditStep DEF vars
<1> QED BY <1>2, <1>3, <1>5, <1>6, StepsAre

(* capture_git_state, when the target was edited at most once during the   *)
(* pass: an accepted state is one the target really had, not a mixture.    *)
THEOREM AcceptedIsReal == Spec => AcceptedStateWasReal
<1>1. SamplingInv /\ [Next]_vars => [Real]_vars
  BY AcceptedStep
<1> QED BY <1>1, Sampled, PTL DEF Spec, AcceptedStateWasReal, Real
=============================================================================
