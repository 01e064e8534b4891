--------------------------- MODULE MCCallDispatch ---------------------------
(***************************************************************************)
(* Two workers, a caller and another process; lists of three calls, in chunks *)
(* of two.                                                                   *)
(***************************************************************************)
EXTENDS CallDispatch, TLC

CONSTANTS caller, other, w1, w2, vfs1, vfs2

W(vfs)  == [kind |-> "write", vfs |-> vfs, sends |-> TRUE, returns |-> TRUE]
S(vfs)  == [W(vfs) EXCEPT !.kind = "select"]
Lost(c) == [c EXCEPT !.returns = FALSE]
Kept(c) == [c EXCEPT !.sends = FALSE]

MCMaxUses == caller :> 1 @@ other :> 2

MCCallLists == { <<W(vfs2), W(None), W(None)>>,
                 <<S(vfs2), W(None), W(None)>>,
                 <<W(None), Lost(W(vfs1)), W(vfs2)>>,
                 <<W(None), W(vfs1), Kept(S(vfs2))>> }
=============================================================================
