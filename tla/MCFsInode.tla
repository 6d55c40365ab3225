----------------------------- MODULE MCFsInode -----------------------------
(* Model checking of the file system: FsInode on small trees with the calls  *)
(* made on them, and the buffer cache that is under it, each by itself: part *)
(* never changes, and the variables of the other stay as they start.         *)
EXTENDS FsInode, BufCache, TLC

VARIABLES part

all == <<part, vars, cachevars>>

ASSUME Orderly

\* Processes and sectors are interchangeable: every CHOOSE over them in the
\* refinement mapping of the cache has one candidate at most (NoAlias).
Symmetry == Permutations(Process) \cup Permutations(Proc) \cup Permutations(Sector)

Call(op, from, path) == [op |-> op, from |-> from, path |-> path]
LinkCall(from, old, new) == [op |-> "link", from |-> from, path |-> old, new |-> new]

\* "rmdir": directories are removed, and nobody uses "..".
\* "dots": ".." is used, and the names that directories have are not unlinked.
MCJobs == [
    rmdir |-> {Call("mkdir", "root", <<"a">>), Call("mkdir", "root", <<"a", "b">>),
               Call("unlink", "root", <<"a">>), Call("unlink", "root", <<"a", "b">>),
               Call("create", "root", <<"b">>), Call("create", "cwd", <<"b">>),
               Call("open", "root", <<"a">>), Call("chdir", "root", <<"a">>),
               LinkCall("root", <<"b">>, <<"a", "b">>), LinkCall("root", <<"a">>, <<"b">>),
               Call("write", "cwd", <<>>), Call("close", "cwd", <<>>)},
    dots  |-> {Call("mkdir", "cwd", <<"a">>), Call("mkdir", "root", <<"a", "..">>),
               Call("chdir", "root", <<"a">>), Call("chdir", "cwd", <<"..">>),
               Call("create", "cwd", <<"b">>), Call("create", "cwd", <<"..", "b">>),
               Call("unlink", "cwd", <<"b">>), Call("unlink", "cwd", <<"..", "b">>),
               LinkCall("cwd", <<"b">>, <<"a", "b">>), LinkCall("cwd", <<"b">>, <<"..", "b">>),
               Call("write", "cwd", <<>>), Call("close", "cwd", <<>>)}]

MCTrees == [
    rmdir |-> {{<<1, "a", 2, "dir">>}, {<<1, "a", 2, "file">>},
               {<<1, "a", 2, "dir">>, <<2, "b", 3, "dir">>},
               {<<1, "a", 2, "dir">>, <<1, "b", 3, "file">>}},
    dots  |-> {{<<1, "a", 2, "dir">>},
               {<<1, "a", 2, "dir">>, <<1, "b", 3, "file">>},
               {<<1, "a", 2, "dir">>, <<1, "b", 3, "file">>, <<2, "b", 3, "file">>}}]

\* The file system before its first call.
FsIdle == Init /\ programs = "dots" /\ dinode[3].type = "free"

MCInit ==
    \/ part = "inodes" /\ Init /\ CacheInit
    \/ part = "cache" /\ FsIdle /\ CacheInit

\* panic("bget: no buffers") is the only place where the cache may stop.
Halted == part = "cache" /\ ~Up /\ UNCHANGED all

MCNext ==
    \/ part = "inodes" /\ Next /\ UNCHANGED <<part, cachevars>>
    \/ part = "cache" /\ CacheNext /\ UNCHANGED <<part, vars>>
    \/ Halted

MCSpec == MCInit /\ [][MCNext]_all
=============================================================================
