--------------------------- MODULE MCTestContext ---------------------------
(***************************************************************************)
(* An instance of TestContext: messages with bodies that come whole and in   *)
(* parts, empty ones in the middle and at the end, a negative length.        *)
(***************************************************************************)
EXTENDS TestContext

MCMessages == {<<2, 1>>, <<0, 4>>, <<4, 0>>, <<0, 0, 1>>, <<1, -1>>}
=============================================================================
