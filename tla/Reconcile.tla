------------------------------ MODULE Reconcile ------------------------------
(***************************************************************************)
(* The decision procedure of core/diff.cpp: a peer compares its own tree,  *)
(* the other peer's tree and the last tree both agreed on, and derives for *)
(* every path whether to pull it, delete it, or leave the work to the      *)
(* other side.                                                             *)
(*                                                                         *)
(* A FileMeta is a content hash and a modification time.  Digests are      *)
(* numbers, so that their byte order is the order of the numbers, and the  *)
(* size of a file is a function of its hash (SHA-256 is taken to have no   *)
(* collisions): comparing hashes then compares sizes too.  Permission bits *)
(* take no part in a decision and are left out.                            *)
(***************************************************************************)
EXTENDS Integers

CONSTANTS Path,    \* POSIX relative paths
          Hash,    \* digests of file contents
          SizeOf,  \* the size of the content behind a digest
          Time,    \* modification times, in seconds
          Absent   \* "no entry for this path"

FileMeta == [hash : Hash, mtime : Time]
Entry    == FileMeta \union {Absent}
Manifest == [Path -> Entry]

ASSUME ContentAssumption ==
    /\ Hash \subseteq Nat
    /\ SizeOf \in [Hash -> Nat]
    /\ Time \subseteq Int
    /\ Absent \notin FileMeta

NoFiles == [f \in Path |-> Absent]

ConflictPolicy == {"newer", "larger", "local", "remote"}
Options == [mode : {"TwoWay", "Mirror"}, conflict : ConflictPolicy,
            source : BOOLEAN, deletes : BOOLEAN]

SameContent(a, b) == a.hash = b.hash

\* Equal as entries of two trees: both missing, or the same content.
SameEntry(a, b) == IF a = Absent \/ b = Absent THEN a = b ELSE SameContent(a, b)

SameTree(t, u) == \A f \in Path : SameEntry(t[f], u[f])

-----------------------------------------------------------------------------
(* One path.                                                               *)

\* classify and changed taken together: does `cur` differ from the baseline?
Changed(cur, base) == ~SameEntry(cur, base)

\* Mutant: a tie goes to oneself.
NewerWinsTies(L, R) == L.mtime >= R.mtime

\* Which of two versions a conflict keeps, seen from the owner of L.
NewerWins(L, R) == \/ L.mtime > R.mtime
                   \/ L.mtime = R.mtime /\ R.hash < L.hash

LargerWins(L, R) == \/ SizeOf[L.hash] > SizeOf[R.hash]
                    \/ SizeOf[L.hash] = SizeOf[R.hash] /\ NewerWins(L, R)

\* Mutants: deleting beats modifying; everybody keeps their own version.
LocalWinsDeleting(L, R, policy) == L = Absent \/ (R # Absent /\ NewerWins(L, R))
LocalWinsAlways(L, R, policy) == TRUE

LocalWins(L, R, policy) ==
    CASE L # Absent /\ R = Absent -> policy # "remote"
      [] L = Absent /\ R # Absent -> policy = "local"
      [] L = Absent /\ R = Absent -> TRUE
      [] OTHER -> CASE policy = "local"  -> TRUE
                    [] policy = "remote" -> FALSE
                    [] policy = "larger" -> LargerWins(L, R)
                    [] policy = "newer"  -> NewerWins(L, R)

Kind == {"None", "Pull", "DeleteLocal", "Push", "DeleteRemote"}

\* Mutant: the other side's deletions are not followed.
AcceptNoDelete(R, o) == IF R # Absent THEN "Pull" ELSE "None"

\* Mutant: the option is not looked at.
AcceptAlways(R, o) == IF R # Absent THEN "Pull" ELSE "DeleteLocal"

\* What the losing or unchanged side does about the other side's entry R.
Accept(R, o) == IF R # Absent THEN "Pull"
                ELSE IF o.deletes THEN "DeleteLocal" ELSE "None"

\* What the winning side expects of its peer.
Offer(L) == IF L # Absent THEN "Push" ELSE "DeleteRemote"

\* Mutant: files of the same age are taken to be the same file.
SettledByTime(L, R) == \/ SameEntry(L, R)
                       \/ L # Absent /\ R # Absent /\ L.mtime = R.mtime

Settled(L, R) == SameEntry(L, R)

\* Mutant: any difference is a conflict.
IsConflictAnyway(L, R, B) == ~Settled(L, R)

IsConflict(L, R, B) == /\ ~Settled(L, R)
                       /\ Changed(L, B) <=> Changed(R, B)

DecideTwoWay(L, R, B, o) ==
    IF Settled(L, R) THEN "None"
    ELSE IF IsConflict(L, R, B)
         THEN IF LocalWins(L, R, o.conflict) THEN Offer(L) ELSE Accept(R, o)
    ELSE IF Changed(L, B) THEN Offer(L) ELSE Accept(R, o)

DecideMirror(L, R, o) ==
    IF o.source
    THEN IF L # Absent /\ Settled(L, R) THEN "None" ELSE Offer(L)
    ELSE IF R # Absent /\ Settled(L, R) THEN "None" ELSE Accept(R, o)

-----------------------------------------------------------------------------
(* Whole trees.                                                            *)

\* Mirror mode ignores the baseline.
BaseFor(base, o) == IF o.mode = "Mirror" THEN NoFiles ELSE base

Keys(b, local, remote) ==
    {f \in Path : b[f] # Absent \/ local[f] # Absent \/ remote[f] # Absent}

Decide(f, b, local, remote, o) ==
    IF o.mode = "Mirror" THEN DecideMirror(local[f], remote[f], o)
    ELSE DecideTwoWay(local[f], remote[f], b[f], o)

PlanFor(base, local, remote, o) ==
    LET b == BaseFor(base, o)
        Paths(k) == {f \in Keys(b, local, remote) : Decide(f, b, local, remote, o) = k}
    IN  [pull          |-> Paths("Pull"),
         delete_local  |-> Paths("DeleteLocal"),
         push          |-> Paths("Push"),
         delete_remote |-> Paths("DeleteRemote"),
         conflicts     |-> IF o.mode = "Mirror" THEN {}
                           ELSE {f \in Path : IsConflict(local[f], remote[f], b[f])}]

Plan == [pull : SUBSET Path, delete_local : SUBSET Path, push : SUBSET Path,
         delete_remote : SUBSET Path, conflicts : SUBSET Path]

\* Mutant: what the peer has yet to pull is overlooked.
EmptyPlanIgnoringPush(pl) == pl.pull \union pl.delete_local \union pl.delete_remote = {}

EmptyPlan(pl) == pl.pull \union pl.delete_local \union pl.push
                    \union pl.delete_remote = {}

\* The policy, and the options, a peer must run for its plans to complement ours.
Complement(policy) == CASE policy = "local"  -> "remote"
                        [] policy = "remote" -> "local"
                        [] OTHER -> policy

Pairs(o, q) == /\ o.mode = q.mode
               /\ IF o.mode = "Mirror" THEN o.source # q.source
                  ELSE q.conflict = Complement(o.conflict)
=============================================================================
