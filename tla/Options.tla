------------------------------ MODULE Options ------------------------------
(* Option<T> of Rust: a sequence of at most one element.                   *)

None == <<>>
Some(x) == <<x>>
Option(S) == {None} \cup {Some(x) : x \in S}
=============================================================================
