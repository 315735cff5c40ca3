-------------------------------- MODULE Slots -------------------------------
(***************************************************************************)
(* The variables of a program of a page: each program uses the first of    *)
(* them, as many as its module has, in its order.                          *)
(***************************************************************************)
VARIABLES v1, v2, v3, v4, v5, v6, v7, v8, v9, v10, v11, v12, v13, v14, v15, v16, v17, v18

slots == <<v1, v2, v3, v4, v5, v6, v7, v8, v9, v10, v11, v12, v13, v14, v15, v16, v17, v18>>
=============================================================================
