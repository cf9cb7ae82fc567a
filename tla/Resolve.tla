------------------------------ MODULE Resolve ------------------------------
(***************************************************************************)
(* fs.go: a call on an open image resolves its path with resolveFrom,      *)
(* which recurses for every symbolic link, and then serves the record it   *)
(* found. A frame of the recursion is at one component of its path; the    *)
(* directories it reads are those of the image, and reading one may fail.  *)
(***************************************************************************)
EXTENDS Names, SequencesExt

CONSTANTS
  Volumes,   \* images: the root, and the records of each directory by its node
  Paths,     \* path arguments
  MaxHops,   \* maxSymlinkHops, 40 in the code
  Faults     \* may reading a directory fail?

\* The calls, and those that resolve without following a final link.
Ops == {"ReadFile", "ListDir", "Stat", "OpenFile", "ReadLink"}
FollowedOps == Ops \ {"ReadLink"}

\* A component of a path between two slashes.
Component == Seq(STRING)

\* What the parser makes of a record; only a directory leads to entries.
RecordOf(v) ==
  {e \in [name : Component, kind : {"dir", "file", "link"}, node : DOMAIN v.entries \cup {"none"},
           target : Seq(Component), absolute : BOOLEAN] :
     e.kind = "dir" => e.node \in DOMAIN v.entries}

ASSUME ResolveAssumption ==
  /\ MaxHops \in Nat
  /\ Faults \in BOOLEAN
  /\ \A v \in Volumes :
       /\ IsFiniteSet(DOMAIN v.entries)
       /\ v.root \in RecordOf(v) /\ v.root.kind = "dir"
       /\ \A d \in DOMAIN v.entries : v.entries[d] \in Seq(RecordOf(v))
  /\ Paths \subseteq Seq(Component)

VARIABLES
  volume,
  op,
  path,
  stack,     \* the frames of resolveFrom, the innermost last
  followed,  \* the links followed in this call (not in the code)
  outcome,   \* of resolveFrom: "walking", "found" or the error
  answer     \* what the call returns: "none" while it runs

vars == <<volume, op, path, stack, followed, outcome, answer>>

Frame(start, parts, followFinal) ==
  [cur |-> start, parts |-> parts, followFinal |-> followFinal]

Init ==
  /\ volume \in Volumes
  /\ op \in Ops
  /\ path \in Paths
  /\ stack = <<Frame(volume.root, SplitPath(path), op \in FollowedOps)>>
  /\ followed = 0
  /\ outcome = "walking"
  /\ answer = "none"

---------------------------------------------------------------------------
(* resolveFrom *)

Top == stack[Len(stack)]

\* Mutation of Hops: the outermost frame and the first link count as one.
HopsLess == Len(stack) - 2

\* hops, the depth of the recursion.
Hops == Len(stack) - 1

EntriesOf(dir) == volume.entries[dir.node]

\* Mutation of Matches: names are compared case-insensitively only.
MatchesFolded(dir, name) ==
  {i \in 1..Len(EntriesOf(dir)) : EqualFold(EntriesOf(dir)[i].name, name)}

\* The places of the records that match a component; an exact match hides the others.
Matches(dir, name) ==
  LET all == 1..Len(EntriesOf(dir))
      exact == {i \in all : EntriesOf(dir)[i].name = name}
  IN IF exact # {} THEN exact ELSE {i \in all : EqualFold(EntriesOf(dir)[i].name, name)}

\* The record resolveFrom takes, the first that matches.
Child(dir, name) == EntriesOf(dir)[Min(Matches(dir, name))]

\* Mutation of MustFollow: the last component is never followed.
MustFollowInner(e, last, followFinal) == e.kind = "link" /\ ~last

MustFollow(e, last, followFinal) == e.kind = "link" /\ (~last \/ followFinal)

Base(e, cur) == IF e.absolute THEN volume.root ELSE cur

\* An error unwinds every frame; they are kept as it found them.
Return(o) ==
  /\ outcome' = o
  /\ UNCHANGED <<stack, followed>>

Stepping ==
  /\ outcome = "walking"
  /\ UNCHANGED <<volume, op, path, answer>>

InLoop == Stepping /\ Hops <= MaxHops /\ Top.parts # << >>

TooManyLinks ==
  /\ Stepping
  /\ Hops > MaxHops
  /\ Return("tooManyLinks")

NotDirectory ==
  /\ InLoop
  /\ Top.cur.kind # "dir"
  /\ Return("notDirectory")

ReadFails ==
  /\ InLoop
  /\ Top.cur.kind = "dir" /\ Faults
  /\ Return("readError")

NotFound ==
  /\ InLoop
  /\ Top.cur.kind = "dir"
  /\ Matches(Top.cur, Head(Top.parts)) = {}
  /\ Return("notFound")

\* Mutation of Descend: a link is followed in its frame, and hops does not grow.
DescendInPlace ==
  /\ InLoop
  /\ Top.cur.kind = "dir"
  /\ Matches(Top.cur, Head(Top.parts)) # {}
  /\ LET e == Child(Top.cur, Head(Top.parts))
         last == Len(Top.parts) = 1
     IN stack' = [stack EXCEPT ![Len(stack)] =
          IF MustFollow(e, last, Top.followFinal)
          THEN Frame(Base(e, Top.cur), SplitPath(e.target) \o Tail(Top.parts), Top.followFinal)
          ELSE Frame(e, Tail(Top.parts), Top.followFinal)]
  /\ UNCHANGED <<followed, outcome>>

\* The frame goes on after the component; where it goes on from is set on return.
Descend ==
  /\ InLoop
  /\ Top.cur.kind = "dir"
  /\ Matches(Top.cur, Head(Top.parts)) # {}
  /\ LET e == Child(Top.cur, Head(Top.parts))
         last == Len(Top.parts) = 1
     IN \/ /\ MustFollow(e, last, Top.followFinal)
           /\ stack' = Append([stack EXCEPT ![Len(stack)].parts = Tail(@)],
                              Frame(Base(e, Top.cur), SplitPath(e.target), TRUE))
           /\ followed' = followed + 1
        \/ /\ ~MustFollow(e, last, Top.followFinal)
           /\ stack' = [stack EXCEPT ![Len(stack)].cur = e,
                                     ![Len(stack)].parts = Tail(@)]
           /\ UNCHANGED followed
  /\ UNCHANGED outcome

ReturnFrame ==
  /\ Stepping
  /\ Hops <= MaxHops /\ Top.parts = << >>
  /\ \/ /\ Len(stack) > 1
        /\ stack' = [Front(stack) EXCEPT ![Len(stack) - 1].cur = Top.cur]
        /\ UNCHANGED <<outcome, followed>>
     \/ /\ Len(stack) = 1
        /\ Return("found")

---------------------------------------------------------------------------
(* ReadFile, ListDir, Stat, OpenFile, ReadLink: what follows the resolution *)

Served(o, rec) ==
  CASE o = "ListDir"  -> IF rec.kind # "dir" THEN {"notDirectory"}
                         ELSE {"names"} \cup (IF Faults THEN {"readError"} ELSE {})
    [] o = "Stat"     -> {IF rec.kind = "dir" THEN "dirMode" ELSE "fileMode"}
    [] o = "ReadLink" -> {IF rec.kind = "link" THEN "target" ELSE "notSymlink"}
    [] OTHER          -> {IF rec.kind = "dir" THEN "notRegular" ELSE "data"}

Serve ==
  /\ outcome # "walking" /\ answer = "none"
  /\ answer' \in IF outcome = "found" THEN Served(op, Top.cur) ELSE {outcome}
  /\ UNCHANGED <<volume, op, path, stack, followed, outcome>>

\* The steps of the call itself; a read of the image need not ever fail.
Step ==
  \/ TooManyLinks
  \/ NotDirectory
  \/ NotFound
  \/ Descend
  \/ ReturnFrame
  \/ Serve

Next == Step \/ ReadFails

Spec == Init /\ [][Next]_vars /\ WF_vars(Step)

---------------------------------------------------------------------------
\* Every variable holds a value of the code's type.
TypeOK ==
  /\ volume \in Volumes /\ op \in Ops /\ path \in Paths
  /\ Len(stack) \in 1..(MaxHops + 2)
  /\ \A i \in 1..Len(stack) :
       /\ stack[i].cur.kind \in {"dir", "file", "link"}
       /\ stack[i].followFinal \in BOOLEAN
       /\ \A k \in 1..Len(stack[i].parts) : stack[i].parts[k] # << >>
  /\ followed \in Nat
  /\ outcome \in {"walking", "found", "tooManyLinks", "notDirectory", "notFound", "readError"}
  /\ outcome = "walking" => answer = "none"

(* fs.go:159-164: a call that follows the final link never serves a link   *)
(* as if it were the file, through however many links the path leads.      *)
NeverServesALink ==
  outcome = "found" /\ op \in FollowedOps => Top.cur.kind # "link"

(* A call returns although links may form a cycle (maxSymlinkHops).        *)
CallReturns == <>(answer # "none")

(* resolveFrom's recursion means what replacing each link in the path by   *)
(* its target means: the same directories are searched for the same names  *)
(* in the same order, a name that matches exactly is preferred to one that *)
(* matches but for case, and the errors are the walk's own.                *)
Remaining(frames) ==
  LET upTo[k \in 0..Len(frames)] ==
        IF k = 0 THEN << >> ELSE frames[k].parts \o upTo[k - 1]
  IN upTo[Len(frames)]

Todo == Remaining(stack)

Meaning == INSTANCE PathWalk WITH cur <- Top.cur, todo <- Todo

WalksThePath == Meaning!Spec

(* maxSymlinkHops bounds how deep links nest, not how many are followed    *)
(* (fs.go:156): a target of w components may lead through w links at each  *)
(* level. What it leaves is a bound that grows with w to the power of      *)
(* MaxHops, and one link more for the frame that finds itself too deep.    *)
Widest(v) ==
  LET sizes(d) == {Len(SplitPath(v.entries[d][i].target)) : i \in 1..Len(v.entries[d])}
  IN Max({0} \cup UNION {sizes(d) : d \in DOMAIN v.entries})

\* Within(v)[h]: the links a component may lead through while h hops are left.
Within(v) ==
  LET within[h \in 0..MaxHops] == IF h = 0 THEN 0 ELSE 1 + Widest(v) * within[h - 1]
  IN within

MostLinks == Len(SplitPath(path)) * Within(volume)[MaxHops]

WorkBounded == followed <= MostLinks + (IF outcome = "found" THEN 0 ELSE 1)
=============================================================================
