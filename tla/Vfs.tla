-------------------------------- MODULE Vfs --------------------------------
(***************************************************************************)
(* The tree of vnodes of fs/vfs.c.  The children of a vnode are a hash map *)
(* of its own, from names to vnodes, and the calls of the VFS interleave   *)
(* with nothing but the steps of hashmap_put().  Vnodes are numbered in    *)
(* the order they are made.  A name is a value with a length; a path is    *)
(* the sequence of the names between its slashes, "" for two slashes in a  *)
(* row or one at the end.                                                  *)
(***************************************************************************)
EXTENDS Hashmap

CONSTANTS
  Names,      \* names, "" among them: the keys of the maps
  NameLen,    \* [Names -> Nat]: strlen()
  NAME_MAX,
  Empty,      \* the name ""
  Root,       \* fs_root
  Vnodes,     \* the root, and a vnode for every call of vfs_make_vnode()
  Name,       \* [Vnodes -> Names]: the name it is called with
  Dirs,       \* the ones that are given children
  Paths,      \* paths looked up
  MaxLinks    \* bound on the children there are at a time

ASSUME VfsAssumption ==
  /\ Keys = Names /\ Maps = Dirs /\ Values = Vnodes
  /\ NameLen \in [Names -> Nat] /\ Empty \in Names /\ NameLen[Empty] = 0
  /\ Name \in [Vnodes -> Names] /\ Name[Root] = Empty
  /\ Root = 0 /\ Vnodes = 0 .. Cardinality(Vnodes) - 1
  /\ Root \in Dirs /\ Dirs \subseteq Vnodes
  /\ Paths \subseteq Seq(Names) \ {<< >>} /\ NAME_MAX \in Nat \ {0}

VARIABLE made       \* the vnodes there are

vars == <<maps, stack, target, faulted, made>>

\* vfs_init().
Init == HashInit /\ target = Root /\ made = {Root}

\* Mutant: a name that fills v_name is accepted.
TooLongByOne(name) == NameLen[name] > NAME_MAX

TooLong(name) == NameLen[name] >= NAME_MAX

\* vfs_make_vnode(): NULL for a name that is too long.
MakeVnode(v) ==
  /\ Idle
  /\ v = Cardinality(made)
  /\ made' = IF TooLong(Name[v]) THEN made ELSE made \cup {v}
  /\ UNCHANGED hvars

Links == Cardinality(UNION {{<<v, i>> : i \in {j \in DOMAIN maps[v].cells :
                               InUse(maps[v], j)}} : v \in Dirs})

\* vfs_append_child(); a NULL parent is the root.  The root has no parent.
AppendChild(parent, child) ==
  /\ Links < MaxLinks
  /\ HashmapPut(parent, Name[child], child)
  /\ UNCHANGED made

\* A child is taken out with hashmap_remove(), as an unlink would.
RemoveChild(parent, name) == HashmapRemove(parent, name) /\ UNCHANGED made

Return == PutStep /\ UNCHANGED made

Next ==
  \/ \E v \in Vnodes : MakeVnode(v)
  \/ \E parent \in Dirs \cap made, child \in made \ {Root} :
       AppendChild(parent, child)
  \/ \E parent \in Dirs \cap made, name \in Names : RemoveChild(parent, name)
  \/ Return

\* A kernel function that has been called goes on: nothing waits in it.
Fairness == WF_vars(Return)

Spec == Init /\ [][Next]_vars /\ Fairness

\* name2vnode(); the map of a vnode that was given no children is empty.
Name2Vnode(name, parent) ==
  IF parent \in Dirs THEN HashmapGet(maps[parent], name) ELSE NoValue

\* The loop of path2vnode(): the vnode that each component leads to, Root
\* before the first.  A component of NAME_MAX characters ends the search, as
\* does one that is not found.
Component(path, i, parent) ==
  IF parent = NoValue \/ NameLen[path[i]] >= NAME_MAX
  THEN NoValue ELSE Name2Vnode(path[i], parent)

Walk(path) ==
  LET at[i \in 0 .. Len(path)] ==
        IF i = 0 THEN Root ELSE Component(path, i, at[i - 1])
  IN  at

\* path2vnode(): the root itself is not an answer.
Path2Vnode(path) ==
  LET v == Walk(path)[Len(path)]
  IN  IF v = Root THEN NoValue ELSE v

----------------------------------------------------------------------------
(* Properties.                                                             *)

TypeOK ==
  /\ HashTypeOK
  /\ made \subseteq Vnodes
  /\ \A t \in Tables : \A i \in DOMAIN t.cells :
       InUse(t, i) => t.cells[i].data \in made

\* child is among the children of parent under the given name.
ChildOf(parent, name, child) ==
  \E i \in DOMAIN maps[parent].cells :
    maps[parent].cells[i] = [key |-> name, data |-> child]

\* The vnodes that the tree has at each component of a path.
Children(path, i, parents) ==
  {v \in made : \E p \in parents \cap Dirs : ChildOf(p, path[i], v)}

Reach(path) ==
  LET at[i \in 0 .. Len(path)] ==
        IF i = 0 THEN {Root} ELSE Children(path, i, at[i - 1])
  IN  at

\* A path is found exactly when the tree has it: following the names from the
\* root, one child each, ends at the vnode that path2vnode() returns.  So every
\* name that vfs_make_vnode() accepts can be looked up again.
PathsExact ==
  Idle => \A path \in Paths :
            {Path2Vnode(path)} \ {NoValue} = Reach(path)[Len(path)] \ {Root}
=============================================================================
