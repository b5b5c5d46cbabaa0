------------------------------- MODULE StoreRoots --------------------------------
(***************************************************************************)
(* Which directories pack instances end up working on.  An instance        *)
(* resolves its store root (the constructor of supervision.ts), looks for  *)
(* locks above it, and creates the lock in it; the worker it spawns runs   *)
(* the store guard (guard_store_roots.py) over the directories that the    *)
(* store's own configuration names, and reports its boundary, which the    *)
(* instance compares with its root.  One file-system call per step; the    *)
(* protocol on a single lock file is StoreOwnership's.                     *)
(*                                                                         *)
(* A path is its text.  One that is a link, or goes through one, resolves  *)
(* to a physical directory that need not lie where the text says; the      *)
(* guard looks at texts only.                                              *)
(***************************************************************************)
EXTENDS Sequences, FiniteSets

CONSTANTS
    Host,
    Dir,            \* physical directories
    Link,           \* paths that are, or go through, a symbolic link or junction
    Target,         \* the directory each of them resolves to
    Above,          \* the ancestors in the text of each path, nearest first
    Remote,         \* a place that is no local directory
    Configurations, \* where the configuration in each directory may put its data
    NoHost

Path == Dir \cup Link
Place == Path \cup {Remote}
Elements(s) == {s[i] : i \in DOMAIN s}

VARIABLES
    there,      \* paths that exist
    places,     \* of the configuration in each directory
    lock,       \* the host whose lock file is in each directory
    pc,         \* of each host's instance
    root,       \* opts.storeRoot
    ahead,      \* ancestors still to be looked at
    older       \* locks that have been in place since the instance began

rootsVars == <<there, places, lock, pc, root, ahead, older>>

\* Links lead to directories.  What lies above a directory lies in line, and so
\* does what lies above that.
Tree ==
    /\ NoHost \notin Host /\ Dir \cap Link = {}
    /\ Target \in [Link -> Dir]
    /\ Above \in [Path -> Seq(Path)]
    /\ \A p \in Dir :
         /\ Above[p] \in Seq(Dir)
         /\ \A d, e \in Elements(Above[p]) :
              d = e \/ d \in Elements(Above[e]) \/ e \in Elements(Above[d])
         /\ \A d \in Elements(Above[p]) : Elements(Above[d]) \subseteq Elements(Above[p])

ASSUME TreeAssumption == Tree

Real(p) == IF p \in Link THEN Target[p] ELSE p

\* p is d or below it: for directories where they are, else what the text says.
Within(p, d) == p = d \/ d \in Elements(Above[p])

RootsInit ==
    /\ there = {} /\ places \in Configurations
    /\ lock = [d \in Dir |-> NoHost]
    /\ pc = [h \in Host |-> "new"]
    /\ root \in [Host -> Path]
    /\ ahead = [h \in Host |-> <<>>] /\ older = [h \in Host |-> {}]

Goes(h, from, to) == pc[h] = from /\ pc' = [pc EXCEPT ![h] = to]

\* A directory or a link is provisioned.
Provision(p) ==
    /\ there' = there \cup {p} \cup {Real(p)}
    /\ UNCHANGED <<places, lock, pc, root, ahead, older>>

-----------------------------------------------------------------------------
(* The constructor. *)

\* realpathSync of a root that exists; one that cannot be resolved is kept.
Resolves(h) ==
    \/ root[h] \in there /\ root' = [root EXCEPT ![h] = Real(@)]
    \/ root' = root

Construct(h) ==
    /\ Goes(h, "new", "resolved")
    /\ Resolves(h)
    /\ older' = [older EXCEPT ![h] = {d \in Dir : lock[d] # NoHost}]
    /\ UNCHANGED <<there, places, lock, ahead>>

\* COGNEE_STORE_ROOT_MISSING
RootMissing(h) ==
    /\ root[h] \notin there
    /\ Goes(h, "resolved", "refused")
    /\ UNCHANGED <<there, places, lock, root, ahead, older>>

RootThere(h) ==
    /\ root[h] \in there
    /\ Goes(h, "resolved", "scanning")
    /\ ahead' = [ahead EXCEPT ![h] = Above[root[h]]]
    /\ UNCHANGED <<there, places, lock, root, older>>

\* refuseNestedStoreRoot, one ancestor.
Scan(h) ==
    /\ pc[h] = "scanning" /\ ahead[h] # <<>>
    /\ pc' = [pc EXCEPT ![h] = IF lock[Real(Head(ahead[h]))] # NoHost THEN "refused" ELSE @]
    /\ ahead' = [ahead EXCEPT ![h] = Tail(@)]
    /\ UNCHANGED <<there, places, lock, root, older>>

\* The lock is created, or exists.
Claim(h) ==
    /\ pc[h] = "scanning" /\ ahead[h] = <<>>
    /\ IF lock[Real(root[h])] = NoHost
         THEN Goes(h, "scanning", "owner") /\ lock' = [lock EXCEPT ![Real(root[h])] = h]
         ELSE Goes(h, "scanning", "refused") /\ UNCHANGED lock
    /\ UNCHANGED <<there, places, root, ahead, older>>

-----------------------------------------------------------------------------
(* The worker. *)

\* Variant: a place outside the root is noted, not refused.
GuardedIfLocal(d) == places[d] \subseteq Path

\* verify: every place is local, and its text that of the root or below it
\* (_norm: abspath and normpath, no link is followed).  The root the guard is
\* given is the one the worker resolved.
Guarded(d) == \A place \in places[d] : place \in Path /\ Within(place, d)

\* Variant: the boundary that the worker reports is not looked at.
ServesUnchecked(h) ==
    /\ Goes(h, "owner", "serving") /\ Guarded(Real(root[h]))
    /\ UNCHANGED <<there, places, lock, root, ahead, older>>
\* The guard passes and the boundary reported, which the worker resolved for
\* itself, is the instance's root.
Serves(h) ==
    /\ Guarded(Real(root[h])) /\ Real(root[h]) = root[h]
    /\ Goes(h, "owner", "serving")
    /\ UNCHANGED <<there, places, lock, root, ahead, older>>

\* shutdown()
Release(h) ==
    /\ pc[h] \in {"owner", "serving"} /\ pc' = [pc EXCEPT ![h] = "closed"]
    /\ lock' = [lock EXCEPT ![Real(root[h])] = NoHost]
    /\ older' = [g \in Host |-> older[g] \ {Real(root[h])}]
    /\ UNCHANGED <<there, places, root, ahead>>

RootsNext ==
    \/ \E p \in Path : Provision(p)
    \/ \E h \in Host : \/ Construct(h) \/ RootMissing(h) \/ RootThere(h) \/ Scan(h) \/ Claim(h)
                       \/ Serves(h) \/ Release(h)

RootsSpec == RootsInit /\ [][RootsNext]_rootsVars

-----------------------------------------------------------------------------
Works(h) == pc[h] = "serving"
Home(h) == Real(root[h])
Touched(h) == {Real(p) : p \in places[Home(h)]}
Around(h, g) == Home(h) \in Elements(Above[Home(g)])
Overlap(d, e) == Within(d, e) \/ Within(e, d)

\* A link below the root, named by the store's own configuration, that leads
\* out of it: the guard cannot tell it from a directory.
LeadsOut(h) ==
    \E p \in places[Home(h)] : Within(p, Home(h)) /\ ~Within(Real(p), Home(h))

\* No place of an instance whose worker serves overlaps one of an instance
\* whose lock was there before it, however the roots and the places are
\* spelled and whenever a link came into being - unless it was put around that
\* root, which is the operator's rule (supervision.ts 301-307, 175-177 and
\* 466-475, with the store guard), or one of the two configurations names a
\* link below its root that leads out, which the guard does not notice.
OlderStoreUntouched ==
    \A h, g \in Host :
      /\ h # g /\ Works(h) /\ Works(g) /\ Home(g) \in older[h]
      /\ ~Around(h, g) /\ ~LeadsOut(h) /\ ~LeadsOut(g)
      => \A d \in Touched(h), e \in Touched(g) : ~Overlap(d, e)
=============================================================================
