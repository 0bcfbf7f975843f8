-------------------------- MODULE MCSqlTransaction --------------------------
(* Two asynchronous connections and a synchronous one.  The tasks t1 and t2 *)
(* lock two rows in opposite orders, the direct commit d locks them like t2 *)
(* and the task e is empty.  The server may refuse t1's second statement.   *)
EXTENDS SqlTransaction, TLC

CONSTANTS c1, c2, s1, t1, t2, d, e, row1, row2

MCAsync == {c1, c2}
MCSync == {s1}
MCQueued == <<e, t1, t2>>
MCRows == (t1 :> <<row1, row2>>) @@ (t2 :> <<row2, row1>>)
            @@ (d :> <<row2, row1>>) @@ (e :> << >>)
MCDirect == {d}
MCRejected == {<<t1, 2>>}
=============================================================================
