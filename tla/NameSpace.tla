----------------------------- MODULE NameSpace -----------------------------
(***************************************************************************)
(* What the file system promises about names: a tree of directories that   *)
(* changes one link at a time, and calls that succeed exactly when they    *)
(* have changed it.                                                        *)
(***************************************************************************)
EXTENDS FiniteSets

CONSTANTS Process, Inum, Name, Root

VARIABLES
    kind,       \* "free", "file" or "dir"
    tree,       \* the links <<directory, name, inode>>
    op,         \* the call a process is in, or "none"
    done,       \* its change is made, or the file it opens was found
    result      \* what it is about to return: "ok", "fail", not known: "none"

vars == <<kind, tree, op, done, result>>

Into(i) == {l \in tree : l[3] = i}
From(d) == {l \in tree : l[1] = d}

\* A name stands for one inode, which is there; a directory has one name.
Sound ==
    /\ tree \subseteq Inum \X Name \X Inum
    /\ \A l, m \in tree : l[1] = m[1] /\ l[2] = m[2] => l = m
    /\ \A l \in tree : kind[l[1]] = "dir" /\ kind[l[3]] # "free"
    /\ \A l, m \in tree : l[3] = m[3] /\ kind[l[3]] = "dir" => l = m

Init ==
    /\ kind \in [Inum -> {"free", "file", "dir"}] /\ Sound
    /\ op = [p \in Process |-> "none"]
    /\ done = [p \in Process |-> FALSE]
    /\ result = [p \in Process |-> "none"]

Begin(p) ==
    /\ op[p] = "none"
    /\ \E o \in {"open", "create", "mkdir", "unlink", "link", "other"} :
         op' = [op EXCEPT ![p] = o]
    /\ UNCHANGED <<kind, tree, done, result>>

Working(p, ops) == op[p] \in ops /\ ~done[p] /\ result[p] = "none"
Does(p) == done' = [done EXCEPT ![p] = TRUE] /\ UNCHANGED <<op, result>>

\* A new link to a file, or the first one to a directory.
Enter(p, d, n, i) ==
    /\ Working(p, CASE kind[i] = "dir"  -> {"mkdir"}
                    [] kind[i] = "file" -> {"create", "link"}
                    [] kind[i] = "free" -> {})
    /\ kind[d] = "dir"
    /\ kind[i] = "dir" => Into(i) = {}
    /\ ~ \E l \in From(d) : l[2] = n
    /\ tree' = tree \cup {<<d, n, i>>}
    /\ Does(p) /\ UNCHANGED kind

\* A link goes; the directory it leads to has to be empty.
Remove(p, l) ==
    /\ Working(p, {"unlink"})
    /\ From(l[3]) = {}
    /\ tree' = tree \ {l}
    /\ Does(p) /\ UNCHANGED kind

\* open with O_CREATE comes upon a name that is taken, or "..".
Find(p) ==
    /\ Working(p, {"create"})
    /\ Does(p) /\ UNCHANGED <<kind, tree>>

\* mkdir, unlink and link answer whether they made their change; an open may
\* fail for want of a descriptor after it has created the file.
Answer(p, ok) ==
    /\ op[p] # "none" /\ result[p] = "none"
    /\ op[p] \in {"mkdir", "unlink", "link"} => ok = done[p]
    /\ op[p] = "create" /\ ok => done[p]
    /\ result' = [result EXCEPT ![p] = IF ok THEN "ok" ELSE "fail"]
    /\ UNCHANGED <<kind, tree, op, done>>

Return(p) ==
    /\ result[p] # "none"
    /\ op' = [op EXCEPT ![p] = "none"]
    /\ done' = [done EXCEPT ![p] = FALSE]
    /\ result' = [result EXCEPT ![p] = "none"]
    /\ UNCHANGED <<kind, tree>>

\* An inode is taken into use, or given back when no name leads to it.
Take(i) ==
    /\ kind[i] = "free"
    /\ \E k \in {"file", "dir"} : kind' = [kind EXCEPT ![i] = k]
    /\ UNCHANGED <<tree, op, done, result>>

GiveBack(i) ==
    /\ i # Root /\ Into(i) = {} /\ From(i) = {}
    /\ kind' = [kind EXCEPT ![i] = "free"]
    /\ UNCHANGED <<tree, op, done, result>>

\* What was created in a directory that has lost its name goes with it.
Discard(d) ==
    /\ d # Root /\ Into(d) = {}
    /\ tree' = tree \ From(d)
    /\ UNCHANGED <<kind, op, done, result>>

Next ==
    \/ \E p \in Process :
         \/ Begin(p) \/ Find(p) \/ Return(p)
         \/ \E ok \in BOOLEAN : Answer(p, ok)
         \/ \E d, i \in Inum, n \in Name : Enter(p, d, n, i)
         \/ \E l \in tree : Remove(p, l)
    \/ \E i \in Inum : Take(i) \/ GiveBack(i) \/ Discard(i)

Spec == Init /\ [][Next]_vars
=============================================================================
