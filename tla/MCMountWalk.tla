----------------------------- MODULE MCMountWalk ------------------------------
(***************************************************************************)
(* Instances of MountWalk for TLC: a home or a directory of root's, in it  *)
(* nothing, a directory of the caller's, one of somebody else's, or one    *)
(* that is a link; and one other file system.                              *)
(***************************************************************************)
EXTENDS MountWalk, TLC

CONSTANTS r, f, n1, n2, n3, gone, caller, root, stranger

AllNodes  == {r, f, n1, n2, n3}
OneFs     == {f}
TwoNames  == {"a", "b"}
HomePath  == <<"home">>
SomePaths == {<<"home", "a", "b">>, <<"home", "b">>, <<"home", "a", "..", "..", "a">>, <<"home", "b", "..">>}

Dir(d, name, user, m) == [kind |-> "dir", dir |-> d, name |-> name, owner |-> user,
                          group |-> user, private |-> TRUE, mnt |-> m]
Nothing   == [Dir(gone, "a", root, r) EXCEPT !.kind = "none"]

SomeTrees ==
    {(r :> Dir(gone, "a", rootOwner, r)) @@ (f :> Dir(gone, "a", fsOwner, f)) @@ (n1 :> first)
        @@ (n2 :> second) @@ (n3 :> Nothing) :
        rootOwner \in {caller, root}, fsOwner \in {caller, root},
        first \in {Nothing, Dir(r, "a", caller, r), Dir(r, "a", stranger, r)},
        second \in {Nothing, Dir(n1, "b", stranger, r), [Dir(n1, "b", caller, r) EXCEPT !.group = stranger]}}

Trees0 == {t \in SomeTrees : t[n2].kind # "none" => t[n1].kind # "none"}
===============================================================================
