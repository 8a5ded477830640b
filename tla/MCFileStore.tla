----------------------------- MODULE MCFileStore -----------------------------
(* FileStore with two threads, a message in one of them, and equal files. *)
EXTENDS FileStore, TLC

CONSTANTS u1, u2, r1, w1, w2, t1, t2, d1, d2, name, said

TwoUploads == {u1, u2}
OneRemover == {r1}
TwoViewers == {w1, w2}
TwoThreads == {t1, t2}
TwoContents == {d1, d2}
OneName == {name}
OneMessage == {[call |-> said, pos |-> 1, kind |-> "user", thread |-> t1, at |-> 0, n |-> 0]}
ClientSymmetry == Permutations(TwoUploads) \union Permutations(TwoViewers)
                    \union Permutations(TwoContents)
=============================================================================
