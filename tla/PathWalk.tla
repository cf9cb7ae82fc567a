------------------------------ MODULE PathWalk ------------------------------
(***************************************************************************)
(* What a path means on an image with symbolic links: the components are   *)
(* walked from the left, and a link is replaced by the components of its   *)
(* target. ".." is a name like any other, and an empty target is the       *)
(* directory itself. There is one list of components and no recursion; how *)
(* far a chain of links may be followed is left open, but a walk may give  *)
(* up only after more than MaxHops of them.                                *)
(***************************************************************************)
EXTENDS Names

CONSTANTS MaxHops, FollowedOps

VARIABLES
  volume,     \* root, and the entries of every directory
  op, path,   \* the call, and its argument
  cur,        \* where the walk is
  todo,       \* the components still to walk
  followed,   \* the links replaced so far
  outcome     \* "walking", "found", or why the walk failed

vars == <<volume, op, path, cur, todo, followed, outcome>>

Named(name) ==
  LET all == {volume.entries[cur.node][i] : i \in 1..Len(volume.entries[cur.node])}
      exact == {e \in all : e.name = name}
  IN IF exact # {} THEN exact ELSE {e \in all : EqualFold(e.name, name)}

\* A link is the end of the walk only for a call that asks for the link itself.
Replaced(e) == e.kind = "link" /\ (Len(todo) > 1 \/ op \in FollowedOps)

Walk ==
  /\ outcome = "walking" /\ todo # << >> /\ cur.kind = "dir"
  /\ \E e \in Named(Head(todo)) :
       \/ /\ Replaced(e)
          /\ cur' = IF e.absolute THEN volume.root ELSE cur
          /\ todo' = SplitPath(e.target) \o Tail(todo)
          /\ followed' = followed + 1
       \/ /\ ~Replaced(e)
          /\ cur' = e
          /\ todo' = Tail(todo)
          /\ UNCHANGED followed
  /\ UNCHANGED <<volume, op, path, outcome>>

Fail ==
  /\ outcome = "walking"
  /\ \/ /\ todo # << >> /\ cur.kind # "dir"
        /\ outcome' = "notDirectory"
     \/ /\ todo # << >> /\ cur.kind = "dir" /\ Named(Head(todo)) = {}
        /\ outcome' = "notFound"
     \/ /\ todo # << >> /\ cur.kind = "dir"
        /\ outcome' = "readError"
     \/ /\ followed > MaxHops
        /\ outcome' = "tooManyLinks"
  /\ UNCHANGED <<volume, op, path, cur, todo, followed>>

Arrive ==
  /\ outcome = "walking" /\ todo = << >>
  /\ outcome' = "found"
  /\ UNCHANGED <<volume, op, path, cur, todo, followed>>

Init ==
  /\ cur = volume.root
  /\ todo = SplitPath(path)
  /\ followed = 0
  /\ outcome = "walking"

Spec == Init /\ [][Walk \/ Fail \/ Arrive]_vars
=============================================================================
